------------------------------- MODULE MCExec -------------------------------
(* Exec for TLC. *)
EXTENDS Exec

Load(vaddr, memsz, filesz, bytes, perm) ==
  [type |-> "load", vaddr |-> vaddr, memsz |-> memsz, filesz |-> filesz, bytes |-> bytes, perm |-> perm]
Note == [type |-> "note", vaddr |-> 0, memsz |-> 0, filesz |-> 0, bytes |-> <<>>, perm |-> {}]
Elf(segs) == [magic |-> TRUE, segs |-> segs]

Text == Load(0, 3, 2, <<"t", "t">>, {"X"})

(* Two segments and a header to skip; one page with a segment below the    *)
(* end of another; a file that is too short; headers that are refused; an  *)
(* empty segment; and a file that is no program.                           *)
MCPrograms ==
  << Elf(<<Note, Text, Load(4, 2, 1, <<"d">>, {"W"})>>),
     Elf(<<Load(0, 3, 3, <<"t", "t", "t">>, {"X"}), Load(0, 1, 1, <<"d">>, {"W"})>>),
     Elf(<<Text, Load(4, 2, 2, <<"d">>, {"W"})>>),
     Elf(<<Text, Load(4, 1, 2, <<"d", "d">>, {"W"})>>),
     Elf(<<Text, Load(4, WORD - 3, 1, <<"d">>, {"W"})>>),
     Elf(<<Load(0, 0, 0, <<>>, {"W"})>>),
     [magic |-> FALSE, segs |-> <<>>] >>

MCIncrements == {5, -5}
MCStores == {3}
MCArgvs == { [uargv |-> 0, strings |-> <<>>], [uargv |-> 1, strings |-> <<0>>], [uargv |-> 3, strings |-> <<0, 2>>],
             [uargv |-> 0, strings |-> <<9>>] }

(* The first process runs programs and has a child that uses up memory.    *)
MCCalls == ({1} \X {"read", "fork", "exec"}) \cup ({2} \X {"store", "grow", "shrink"})

(* Which of the pages are used does not matter: states are told apart by   *)
(* the number of free pages, by what the page tables lead to, and by       *)
(* whether the properties hold.                                            *)
Under(t, Op(_)) == [i \in Index |-> IF ram.mem[t][i].pa = 0 THEN <<>> ELSE <<Op(ram.mem[t][i])>>]
Content(e) == <<e.perm, IF e.pa \in Page THEN ram.mem[e.pa] ELSE Junk>>
Tree(r) == IF r = 0 THEN <<>> ELSE Under(r, LAMBDA e : Under(e.pa, LAMBDA f : Under(f.pa, Content)))
MCView == <<PagesOwned, MemoryPrivate, Cardinality(ram.free), ram.bad, image,
            [p \in Proc |-> <<proc[p].state, proc[p].sz, Tree(proc[p].root), Tree(job[p].root),
                              [job[p] EXCEPT !.root = 0, !.argv = Len(@)]>>]>>
=============================================================================
