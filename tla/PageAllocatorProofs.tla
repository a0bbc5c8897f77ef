------------------------ MODULE PageAllocatorProofs -------------------------
(***************************************************************************)
(* The free list of PageAllocator is exact, for every heap.  The two       *)
(* lemmas TakeList and InsertList say what alloc and free do to a list of  *)
(* runs; the step lemmas apply them.                                       *)
(***************************************************************************)
EXTENDS PageAllocator, TLAPS

USE ZenonT(60)

(* The list from which a run is taken or into which a block is put. *)
IsList(F, hd, nx, ln) ==
  /\ F \in SUBSET Page
  /\ hd \in Pointer
  /\ nx \in [Page -> Pointer]
  /\ ln \in [Page -> Nat]
  /\ ListOf(F, hd, nx, ln)

(* pr is the run before t, null when t is the first. *)
Before(F, hd, nx, pr, t) ==
  IF pr = Nil THEN hd = t ELSE pr < t /\ Run(F, pr) /\ nx[pr] = t

(* A run of the list covers pages of F, and the page behind it is not in F. *)
LEMMA RunPages ==
  ASSUME NEW F, NEW hd, NEW nx, NEW ln, IsList(F, hd, nx, ln),
         NEW a \in Page, Run(F, a)
  PROVE  /\ ln[a] \in Nat \ {0}
         /\ a .. a + ln[a] - 1 \subseteq F
         /\ a + ln[a] \notin F
         /\ FirstRun(F, nx[a], a + 1)
<1>1. /\ ln[a] \in Nat
      /\ a .. a + ln[a] - 1 \subseteq F
      /\ a + ln[a] \notin F
      /\ FirstRun(F, nx[a], a + 1)
  BY DEF IsList, ListOf
<1>2. ln[a] # 0
  BY <1>1, HeapAssumption, SMTT(60) DEF Run, Page
<1> QED
  BY <1>1, <1>2

(* Two runs of the list are apart by at least one page. *)
LEMMA RunsApart ==
  ASSUME NEW F, NEW hd, NEW nx, NEW ln, IsList(F, hd, nx, ln),
         NEW a \in Page, Run(F, a), NEW b \in Page, Run(F, b), a < b
  PROVE  a + ln[a] < b
<1>1. ln[a] \in Nat /\ a .. a + ln[a] - 1 \subseteq F /\ b - 1 \notin F
  BY RunPages DEF Run
<1>2. b - 1 \notin a .. a + ln[a] - 1
  BY <1>1
<1> QED
  BY <1>1, <1>2, RunPages, HeapAssumption, SMTT(60) DEF Page, Run

(* The runs that remain when alloc takes n pages from the run at t. *)
LEMMA RunsAfterTake ==
  ASSUME NEW F, NEW hd, NEW nx, NEW ln, IsList(F, hd, nx, ln),
         NEW t \in Page, Run(F, t), NEW n \in Nat \ {0}, n <= ln[t]
  PROVE  \A a \in Page : Run(F \ (t .. t + n - 1), a) <=>
            \/ Run(F, a) /\ a # t
            \/ n < ln[t] /\ a = t + n
<1> USE HeapAssumption DEF Page
<1> DEFINE G == F \ (t .. t + n - 1)
<1>1. /\ ln[t] \in Nat /\ F \subseteq Page
      /\ t .. t + ln[t] - 1 \subseteq F /\ t + ln[t] \notin F
  BY RunPages DEF IsList
<1>2. ASSUME NEW a \in Page, Run(G, a)
      PROVE  (Run(F, a) /\ a # t) \/ (n < ln[t] /\ a = t + n)
  <2>1. a \in F /\ (a < t \/ a > t + n - 1)
    BY <1>2, SMTT(60) DEF Run
  <2>2. CASE a - 1 \notin F
    BY <2>1, <2>2, SMTT(60) DEF Run
  <2>3. CASE a - 1 \in t .. t + n - 1
    <3>1. a = t + n
      BY <2>1, <2>3, SMTT(60)
    <3>2. n # ln[t]
      BY <3>1, <2>1, <1>1
    <3> QED
      BY <3>1, <3>2, <1>1, SMTT(60)
  <2> QED
    BY <2>2, <2>3, <1>2 DEF Run
<1>3. ASSUME NEW a \in Page, Run(F, a), a # t
      PROVE  Run(G, a)
  <2>1. ~(a - 1 \in t .. t + ln[t] - 1)
    BY <1>1, <1>3 DEF Run
  <2>2. ~(a \in t .. t + n - 1)
    BY <2>1, <1>1, <1>3, SMTT(60)
  <2> QED
    BY <2>2, <1>3 DEF Run
<1>4. ASSUME n < ln[t]
      PROVE  Run(G, t + n)
  <2>1. t + n \in t .. t + ln[t] - 1 /\ t + n \notin t .. t + n - 1
    BY <1>1, <1>4, SMTT(60)
  <2>2. (t + n) - 1 \in t .. t + n - 1
    BY SMTT(60)
  <2>3. t + n \in G /\ (t + n) - 1 \notin G
    BY <2>1, <2>2, <1>1
  <2> QED
    BY <2>3 DEF Run
<1> QED
  BY <1>2, <1>3, <1>4

(* No run but pr links to t. *)
LEMMA OnlyBefore ==
  ASSUME NEW F, NEW hd, NEW nx, NEW ln, IsList(F, hd, nx, ln),
         NEW t \in Page, Run(F, t), NEW pr \in Pointer, Before(F, hd, nx, pr, t),
         NEW a \in Page, Run(F, a), a # pr
  PROVE  nx[a] # t
<1> USE HeapAssumption DEF Page, Pointer, Nil
<1>1. FirstRun(F, nx[a], a + 1) /\ FirstRun(F, hd, 0)
  BY RunPages DEF IsList, ListOf
<1>2. CASE pr = Nil
  BY <1>1, <1>2, SMTT(60) DEF FirstRun, Before
<1>3. CASE pr # Nil
  <2>1. pr \in Page /\ pr < t /\ Run(F, pr) /\ nx[pr] = t
    BY <1>3 DEF Before
  <2>2. FirstRun(F, t, pr + 1)
    BY <2>1, RunPages
  <2>3. CASE a < pr
    BY <2>1, <2>3, <1>1, SMTT(60) DEF FirstRun
  <2>4. CASE a > pr
    BY <2>1, <2>2, <2>4, <1>1, SMTT(60) DEF FirstRun
  <2> QED
    BY <2>1, <2>3, <2>4, SMTT(60)
<1> QED
  BY <1>2, <1>3

(* What takes the place of the run at t. *)
Rest(nx, ln, t, n) == IF ln[t] = n THEN nx[t] ELSE t + n

(* How alloc changes the list when it takes n pages from the run at t. *)
Taken(hd, nx, ln, t, n, pr, hd2, nx2, ln2) ==
  LET rest == Rest(nx, ln, t, n)
  IN  /\ hd2 = IF pr = Nil THEN rest ELSE hd
      /\ \A a \in Page : nx2[a] =
           IF a = pr THEN rest
           ELSE IF ln[t] # n /\ a = t + n THEN nx[t] ELSE nx[a]
      /\ \A a \in Page : ln2[a] =
           IF ln[t] # n /\ a = t + n THEN ln[t] - n ELSE ln[a]

(* alloc's unlinking or splitting of the run at t keeps the list exact. *)
LEMMA TakeList ==
  ASSUME NEW F, NEW hd, NEW nx, NEW ln, IsList(F, hd, nx, ln),
         NEW t \in Page, Run(F, t), NEW n \in Nat \ {0}, n <= ln[t],
         NEW pr \in Pointer, Before(F, hd, nx, pr, t),
         NEW hd2, NEW nx2, NEW ln2, Taken(hd, nx, ln, t, n, pr, hd2, nx2, ln2)
  PROVE  ListOf(F \ (t .. t + n - 1), hd2, nx2, ln2)
<1> USE HeapAssumption DEF Page, Pointer, Nil
<1> DEFINE G == F \ (t .. t + n - 1)
           rest == Rest(nx, ln, t, n)
<1>0. /\ rest = IF ln[t] = n THEN nx[t] ELSE t + n
      /\ hd2 = IF pr = Nil THEN rest ELSE hd
      /\ \A a \in Page : nx2[a] =
           IF a = pr THEN rest
           ELSE IF ln[t] # n /\ a = t + n THEN nx[t] ELSE nx[a]
      /\ \A a \in Page : ln2[a] =
           IF ln[t] # n /\ a = t + n THEN ln[t] - n ELSE ln[a]
  BY DEF Rest, Taken
<1> HIDE DEF rest
<1> USE <1>0
<1>1. /\ ln[t] \in Nat /\ F \subseteq Page
      /\ t .. t + ln[t] - 1 \subseteq F /\ t + ln[t] \notin F
      /\ FirstRun(F, nx[t], t + 1) /\ FirstRun(F, hd, 0)
  BY RunPages DEF IsList, ListOf
<1>2. \A a \in Page : Run(G, a) <=>
         \/ Run(F, a) /\ a # t
         \/ n < ln[t] /\ a = t + n
  BY RunsAfterTake, SMTT(60)
<1>3. n < ln[t] => t + n \in F /\ t + n \in Page
  BY <1>1, SMTT(60)
<1>4. rest \in Pointer /\ rest > t /\ (rest # Nil => Run(G, rest))
  <2>1. CASE ln[t] = n
    <3>1. rest = nx[t] /\ rest \in Pointer /\ (rest # Nil => rest > t /\ Run(F, rest))
      BY <2>1, <1>1, SMTT(60) DEF FirstRun
    <3>2. rest # Nil => rest \in Page /\ rest # t
      BY <3>1, SMTT(60)
    <3>3. rest > t
      BY <3>1, SMTT(60)
    <3> HIDE DEF Page, Pointer, Nil, G
    <3> QED
      BY <3>1, <3>2, <3>3, <1>2
  <2>2. CASE n < ln[t]
    <3>1. rest = t + n /\ t + n \in Pointer /\ t + n > t
      BY <2>2, <1>1, <1>3, SMTT(60)
    <3>2. Run(G, t + n)
      <4> HIDE DEF Page, Pointer, Nil, G
      <4> QED BY <2>2, <1>3, <1>2
    <3> QED
      BY <3>1, <3>2
  <2> QED
    BY <2>1, <2>2, <1>1, SMTT(60)
<1>5. ASSUME NEW x \in Nat, FirstRun(F, t, x)
      PROVE  FirstRun(G, rest, x)
  <2>1. rest >= x
    BY <1>4, <1>5, SMTT(60) DEF FirstRun
  <2>2. ASSUME NEW a \in Page, Run(G, a), a >= x
        PROVE  rest <= a
    <3>1. CASE Run(F, a) /\ a # t
      <4>1. a > t /\ nx[t] <= a /\ a > t + ln[t]
        BY <3>1, <2>2, <1>5, <1>1, RunsApart, SMTT(60) DEF FirstRun
      <4> QED
        BY <4>1, <1>1, SMTT(60)
    <3>2. CASE n < ln[t] /\ a = t + n
      BY <3>2, SMTT(60)
    <3> QED
      BY <3>1, <3>2, <2>2, <1>2
  <2> QED
    BY <2>1, <2>2, <1>4 DEF FirstRun
<1>6. ASSUME NEW x \in Nat, NEW f, FirstRun(F, f, x), f # t, x <= t \/ x > t + n
      PROVE  FirstRun(G, f, x)
  <2>1. f \in Pointer /\ (f # Nil => f >= x /\ Run(G, f))
    BY <1>6, <1>2 DEF FirstRun
  <2>2. ASSUME NEW a \in Page, Run(G, a), a >= x
        PROVE  f <= a
    <3>1. CASE Run(F, a) /\ a # t
      BY <3>1, <2>2, <1>6 DEF FirstRun
    <3>2. CASE n < ln[t] /\ a = t + n
      <4>1. x <= t /\ f <= t
        BY <3>2, <2>2, <1>6, SMTT(60) DEF FirstRun
      <4> QED
        BY <4>1, <3>2, <2>1, SMTT(60)
    <3> QED
      BY <3>1, <3>2, <2>2, <1>2
  <2> QED
    BY <2>1, <2>2 DEF FirstRun
<1>7. FirstRun(G, hd2, 0)
  <2>1. CASE pr = Nil
    BY <2>1, <1>1, <1>5 DEF Before
  <2>2. CASE pr # Nil
    <3>1. hd # t
      <4>1. pr \in Page /\ pr < t /\ Run(F, pr)
        BY <2>2 DEF Before
      <4> QED
        BY <4>1, <1>1, SMTT(60) DEF FirstRun
    <3>2. 0 \in Nat /\ 0 <= t /\ hd2 = hd
      BY <2>2, SMTT(60)
    <3>3. FirstRun(G, hd, 0)
      <4> HIDE DEF G
      <4> QED BY <3>1, <3>2, <1>1, <1>6
    <3> QED
      BY <3>2, <3>3
  <2> QED
    BY <2>1, <2>2
<1>8. ASSUME NEW a \in Page, Run(F, a), a # t
      PROVE  /\ ln2[a] = ln[a] /\ ln[a] \in Nat \ {0}
             /\ a .. a + ln[a] - 1 \subseteq G /\ a + ln[a] \notin G
             /\ FirstRun(G, nx2[a], a + 1)
  <2>1. /\ ln[a] \in Nat \ {0} /\ a + ln[a] \notin F
        /\ a .. a + ln[a] - 1 \subseteq F /\ FirstRun(F, nx[a], a + 1)
    BY <1>8, RunPages
  <2>2. a < t => a + ln[a] < t
    BY <1>8, RunsApart
  <2>3. a > t => a > t + ln[t]
    BY <1>8, RunsApart
  <2>4. a # t + n /\ a .. a + ln[a] - 1 \subseteq G /\ a + ln[a] \notin G
    BY <1>8, <2>1, <2>2, <2>3, <1>1, SMTT(60)
  <2>5. FirstRun(G, nx2[a], a + 1)
    <3>1. CASE a = pr
      BY <3>1, <2>1, <1>5, SMTT(60) DEF Before
    <3>2. CASE a # pr
      <4>1. nx[a] # t /\ nx2[a] = nx[a]
        BY <3>2, <1>8, <2>4, OnlyBefore, SMTT(60)
      <4> QED
        <5>1. a + 1 <= t \/ a + 1 > t + n
          BY <2>3, <1>1, <1>8, SMTT(60)
        <5>2. FirstRun(G, nx[a], a + 1)
          BY <5>1, <4>1, <2>1, <1>6, SMTT(60)
        <5> QED
          BY <5>2, <4>1
    <3> QED
      BY <3>1, <3>2
  <2> QED
    BY <2>1, <2>4, <2>5
<1>9. ASSUME n < ln[t]
      PROVE  /\ ln2[t + n] = ln[t] - n
             /\ t + n .. t + n + (ln[t] - n) - 1 \subseteq G
             /\ t + n + (ln[t] - n) \notin G
             /\ FirstRun(G, nx2[t + n], t + n + 1)
  <2>1. pr # t + n /\ t + n \in Page
    BY <1>9, <1>1, <1>3, SMTT(60) DEF Before
  <2>2. ln2[t + n] = ln[t] - n /\ nx2[t + n] = nx[t]
    BY <2>1, <1>9, <1>1, SMTT(60)
  <2>3. t + n + (ln[t] - n) = t + ln[t]
    BY <1>1, SMTT(60)
  <2>4. FirstRun(F, nx[t], t + n + 1)
    <3>1. ASSUME NEW a \in Page, Run(F, a), a > t
          PROVE  a >= t + n + 1
      BY <3>1, <1>1, <1>9, RunsApart, SMTT(60)
    <3> QED
      BY <3>1, <1>1, SMTT(60) DEF FirstRun
  <2>5. FirstRun(G, nx[t], t + n + 1)
    <3>1. nx[t] # t /\ t + n + 1 > t + n /\ t + n + 1 \in Nat
      BY <1>1, SMTT(60) DEF FirstRun
    <3> QED
      BY <3>1, <2>4, <1>6
  <2>6. t + n .. t + ln[t] - 1 \subseteq G
    BY <1>1, <1>9, SMTT(60)
  <2> QED
    BY <2>2, <2>3, <2>5, <2>6, <1>1, SMTT(60)
<1>10. ASSUME NEW p \in G
       PROVE  \E a \in Page : Run(G, a) /\ a <= p /\ p < a + ln2[a]
  <2>1. PICK a \in Page : Run(F, a) /\ a <= p /\ p < a + ln[a]
    BY DEF IsList, ListOf
  <2>2. CASE a # t
    BY <2>1, <2>2, <1>2, <1>8
  <2>3. CASE a = t
    <3>1. p \in Nat /\ p >= t + n /\ n < ln[t]
      BY <2>1, <2>3, <1>1, SMTT(60)
    <3>2. t + n \in Page /\ Run(G, t + n)
      <4> HIDE DEF G
      <4> QED BY <3>1, <1>2, <1>3
    <3>3. t + n <= p /\ p < t + n + ln2[t + n]
      BY <3>1, <2>1, <2>3, <1>1, <1>9, SMTT(60)
    <3> QED
      BY <3>2, <3>3
  <2> QED
    BY <2>2, <2>3
<1> QED
  BY <1>2, <1>3, <1>7, <1>8, <1>9, <1>10 DEF ListOf

(* A block of n pages at t, outside F, goes behind the run pr. *)
Position(F, hd, nx, pr, t) ==
  IF pr = Nil THEN hd = Nil \/ t < hd
  ELSE pr < t /\ Run(F, pr) /\ (nx[pr] = Nil \/ t < nx[pr])

(* The run behind the block. *)
Follow(hd, nx, pr) == IF pr = Nil THEN hd ELSE nx[pr]

(* Every run lies at or before pr, or at or behind the run that follows. *)
LEMMA RunsAround ==
  ASSUME NEW F, NEW hd, NEW nx, NEW ln, IsList(F, hd, nx, ln),
         NEW t \in Page, NEW n \in Nat \ {0}, t + n <= NPages,
         F \cap (t .. t + n - 1) = {},
         NEW pr \in Pointer, Position(F, hd, nx, pr, t)
  PROVE  LET fo == Follow(hd, nx, pr)
         IN  /\ fo \in Pointer /\ fo > t
             /\ fo # Nil => Run(F, fo) /\ fo \in Page /\ fo >= t + n
             /\ pr # Nil => pr \in Page /\ Run(F, pr) /\ pr < t /\ pr + ln[pr] <= t
             /\ \A a \in Page : Run(F, a) =>
                  \/ pr # Nil /\ a <= pr
                  \/ fo # Nil /\ fo <= a
<1> USE HeapAssumption DEF Page, Pointer, Nil
<1> DEFINE fo == Follow(hd, nx, pr)
<1>1. CASE pr = Nil
  <2>1. FirstRun(F, fo, 0) /\ (fo = Nil \/ t < fo)
    BY <1>1 DEF IsList, ListOf, Position, Follow
  <2> QED
    BY <2>1, <1>1, SMTT(60) DEF FirstRun, Run
<1>2. CASE pr # Nil
  <2>1. /\ pr \in Page /\ Run(F, pr) /\ pr < t
        /\ fo = nx[pr] /\ (fo = Nil \/ t < fo)
    BY <1>2 DEF Position, Follow
  <2>2. /\ FirstRun(F, fo, pr + 1) /\ ln[pr] \in Nat \ {0}
        /\ pr .. pr + ln[pr] - 1 \subseteq F
    BY <2>1, RunPages, SMTT(60)
  <2>3. pr + ln[pr] <= t
    <3>1. t \notin F
      BY SMTT(60)
    <3> QED
      BY <3>1, <2>1, <2>2, SMTT(60)
  <2>4. fo # Nil => fo \in Page /\ fo >= t + n
    BY <2>1, <2>2, SMTT(60) DEF FirstRun, Run
  <2> QED
    BY <1>2, <2>1, <2>2, <2>3, <2>4, SMTT(60) DEF FirstRun
<1> QED
  BY <1>1, <1>2

(* free's two adjacency tests say whether the pages on either side of the  *)
(* block are free.                                                         *)
LEMMA Adjacent ==
  ASSUME NEW F, NEW hd, NEW nx, NEW ln, IsList(F, hd, nx, ln),
         NEW t \in Page, NEW n \in Nat \ {0}, t + n <= NPages,
         F \cap (t .. t + n - 1) = {},
         NEW pr \in Pointer, Position(F, hd, nx, pr, t)
  PROVE  /\ pr # Nil /\ pr + ln[pr] = t <=> t - 1 \in F
         /\ LET fo == Follow(hd, nx, pr)
            IN  fo # Nil /\ t + n = fo <=> t + n \in F
<1> USE HeapAssumption DEF Page, Pointer, Nil
<1> DEFINE fo == Follow(hd, nx, pr)
<1>0. F \subseteq Page
  BY DEF IsList
<1>1. /\ fo \in Pointer /\ fo > t
      /\ fo # Nil => Run(F, fo) /\ fo \in Page /\ fo >= t + n
      /\ pr # Nil => pr \in Page /\ Run(F, pr) /\ pr < t /\ pr + ln[pr] <= t
      /\ \A a \in Page : Run(F, a) =>
           \/ pr # Nil /\ a <= pr
           \/ fo # Nil /\ fo <= a
  BY RunsAround
<1>2. ASSUME pr # Nil, pr + ln[pr] = t
      PROVE  t - 1 \in F
  <2>1. ln[pr] \in Nat \ {0} /\ pr .. pr + ln[pr] - 1 \subseteq F /\ pr \in Page
    BY <1>1, <1>2, RunPages
  <2>2. t - 1 \in pr .. pr + ln[pr] - 1
    BY <2>1, <1>2, SMTT(60)
  <2> QED
    BY <2>1, <2>2
<1>3. ASSUME t - 1 \in F
      PROVE  pr # Nil /\ pr + ln[pr] = t
  <2>1. PICK a \in Page : Run(F, a) /\ a <= t - 1 /\ t - 1 < a + ln[a]
    BY <1>3 DEF IsList, ListOf
  <2>2. pr # Nil /\ a <= pr
    BY <2>1, <1>1, SMTT(60)
  <2>3. ln[a] \in Nat
    BY <2>1, RunPages
  <2>4. a < pr => a + ln[a] < pr
    BY <2>1, <2>2, <1>1, RunsApart
  <2>5. a = pr
    BY <2>1, <2>2, <2>3, <2>4, <1>1, SMTT(60)
  <2> QED
    BY <2>1, <2>2, <2>3, <2>5, <1>1, SMTT(60)
<1>4. ASSUME fo # Nil, t + n = fo
      PROVE  t + n \in F
  BY <1>1, <1>4 DEF Run
<1>5. ASSUME t + n \in F
      PROVE  fo # Nil /\ t + n = fo
  <2>1. (t + n) - 1 \in t .. t + n - 1 /\ t + n \in Page
    BY <1>0, <1>5, SMTT(60)
  <2>2. Run(F, t + n)
    BY <2>1, <1>5 DEF Run
  <2>3. fo # Nil /\ fo <= t + n
    BY <2>1, <2>2, <1>1, SMTT(60)
  <2> QED
    BY <2>3, <1>1, SMTT(60)
<1> HIDE DEF fo
<1> QED
  BY <1>2, <1>3, <1>4, <1>5 DEF fo

(* How free changes the list when it puts n pages at t behind the run pr. *)
Inserted(hd, nx, ln, t, n, pr, hd2, nx2, ln2) ==
  LET fo  == Follow(hd, nx, pr)
      mp  == pr # Nil /\ pr + ln[pr] = t
      mn  == fo # Nil /\ t + n = fo
      run == IF mp THEN pr ELSE t
  IN  /\ hd2 = IF pr = Nil THEN t ELSE hd
      /\ \A a \in Page : nx2[a] =
            IF a = run THEN (IF mn THEN nx[fo] ELSE fo)
            ELSE IF a = pr THEN t ELSE nx[a]
      /\ \A a \in Page : a # run => ln2[a] = ln[a]
      /\ ln2[run] = (IF mp THEN ln[pr] + n ELSE n) + (IF mn THEN ln[fo] ELSE 0)

(* free's insertion of a block, merged with the runs it touches, keeps the *)
(* list exact.                                                             *)
LEMMA InsertList ==
  ASSUME NEW F, NEW hd, NEW nx, NEW ln, IsList(F, hd, nx, ln),
         NEW t \in Page, NEW n \in Nat \ {0}, t + n <= NPages,
         F \cap (t .. t + n - 1) = {},
         NEW pr \in Pointer, Position(F, hd, nx, pr, t),
         NEW hd2, NEW nx2, NEW ln2, Inserted(hd, nx, ln, t, n, pr, hd2, nx2, ln2)
  PROVE  ListOf(F \cup (t .. t + n - 1), hd2, nx2, ln2)
<1> USE HeapAssumption DEF Page, Pointer, Nil
<1> DEFINE fo == Follow(hd, nx, pr)
           mp == pr # Nil /\ pr + ln[pr] = t
           mn == fo # Nil /\ t + n = fo
           run == IF mp THEN pr ELSE t
<1>0. /\ mp \in BOOLEAN /\ (mp <=> pr # Nil /\ pr + ln[pr] = t)
      /\ mn \in BOOLEAN /\ (mn <=> fo # Nil /\ t + n = fo)
      /\ run = IF mp THEN pr ELSE t
      /\ hd2 = IF pr = Nil THEN t ELSE hd
      /\ \A a \in Page : nx2[a] =
            IF a = run THEN (IF mn THEN nx[fo] ELSE fo)
            ELSE IF a = pr THEN t ELSE nx[a]
      /\ \A a \in Page : a # run => ln2[a] = ln[a]
      /\ ln2[run] = (IF mp THEN ln[pr] + n ELSE n) + (IF mn THEN ln[fo] ELSE 0)
  BY DEF Inserted
<1> DEFINE G == F \cup (t .. t + n - 1)
<1>1. /\ fo \in Pointer /\ fo > t
      /\ fo # Nil => Run(F, fo) /\ fo \in Page /\ fo >= t + n
      /\ pr # Nil => pr \in Page /\ Run(F, pr) /\ pr < t /\ pr + ln[pr] <= t
      /\ \A a \in Page : Run(F, a) =>
           \/ pr # Nil /\ a <= pr
           \/ fo # Nil /\ fo <= a
  BY RunsAround
<1>a. /\ pr # Nil /\ pr + ln[pr] = t <=> t - 1 \in F
      /\ fo # Nil /\ t + n = fo <=> t + n \in F
  <2> HIDE DEF Page, Pointer, Nil
  <2> QED BY Adjacent, SMTT(60)
<1> HIDE DEF fo, mp, mn, run
<1> USE <1>0
<1>2. F \subseteq Page /\ (mp <=> t - 1 \in F) /\ (mn <=> t + n \in F)
  <2>1. F \subseteq Page
    BY DEF IsList
  <2> HIDE DEF Page, Pointer, Nil
  <2> QED
    BY <2>1, <1>a
<1>3. \A a \in Page : Run(G, a) <=>
        \/ Run(F, a) /\ ~(mn /\ a = fo)
        \/ ~mp /\ a = t
  <2>1. ASSUME NEW a \in Page, Run(G, a)
        PROVE  (Run(F, a) /\ ~(mn /\ a = fo)) \/ (~mp /\ a = t)
    <3>1. CASE a \in F
      <4>1. Run(F, a)
        BY <2>1, <3>1 DEF Run
      <4>2. ~(mn /\ a = fo)
        BY <2>1, SMTT(60) DEF Run
      <4> QED
        BY <4>1, <4>2
    <3>2. CASE a \in t .. t + n - 1
      BY <2>1, <3>2, <1>2, SMTT(60) DEF Run
    <3> QED
      BY <2>1, <3>1, <3>2 DEF Run
  <2>2. ASSUME NEW a \in Page, Run(F, a), ~(mn /\ a = fo)
        PROVE  Run(G, a)
    <3>1. a \in F /\ a \notin t .. t + n - 1
      BY <2>2 DEF Run
    <3>2. a # t + n
      BY <2>2, <3>1, <1>2
    <3> QED
      BY <2>2, <3>1, <3>2, SMTT(60) DEF Run
  <2>3. ASSUME ~mp
        PROVE  Run(G, t)
    BY <2>3, <1>2, SMTT(60) DEF Run
  <2> QED
    BY <2>1, <2>2, <2>3
<1> HIDE DEF G
<1>4. ASSUME NEW a \in Page, Run(F, a)
      PROVE  /\ ln[a] \in Nat \ {0}
             /\ a .. a + ln[a] - 1 \subseteq F /\ a + ln[a] \notin F
             /\ FirstRun(F, nx[a], a + 1)
  BY <1>4, RunPages
<1>5. ASSUME NEW a \in Page, Run(G, a), a # run
      PROVE  /\ a .. a + ln2[a] - 1 \subseteq G
             /\ a + ln2[a] \notin G
             /\ FirstRun(G, nx2[a], a + 1)
  <2>1. Run(F, a) /\ ~(mn /\ a = fo) /\ a # t /\ ln2[a] = ln[a]
    BY <1>5, <1>3, SMTT(60) DEF Run
  <2>2. /\ ln[a] \in Nat \ {0} /\ a + ln[a] \notin F
        /\ a .. a + ln[a] - 1 \subseteq F /\ FirstRun(F, nx[a], a + 1)
    BY <1>4, <2>1
  <2>3. CASE a = pr
    <3>1. pr \in Page /\ pr < t /\ ~mp /\ nx2[a] = t /\ pr + ln[pr] < t
      BY <2>1, <2>2, <2>3, <1>1, <1>5, SMTT(60)
    <3>2. \A b \in Page : Run(G, b) /\ b >= pr + 1 => t <= b
      BY <3>1, <1>1, <1>3, SMTT(60)
    <3>3. FirstRun(G, t, pr + 1)
      BY <3>1, <3>2, <1>3, SMTT(60) DEF FirstRun
    <3> QED
      BY <3>1, <3>3, <2>1, <2>2, <2>3, SMTT(60) DEF G
  <2>4. CASE a # pr /\ a < t
    <3>1. pr # Nil /\ pr \in Page /\ Run(F, pr) /\ a < pr /\ pr < t
      BY <2>1, <2>4, <1>1, SMTT(60)
    <3>2. a + ln[a] < pr
      BY <3>1, <2>1, RunsApart
    <3>3. nx2[a] = nx[a] /\ nx[a] \in Page /\ nx[a] <= pr /\ Run(F, nx[a])
          /\ nx[a] >= a + 1
      BY <3>1, <2>2, <2>4, <1>5, SMTT(60) DEF FirstRun
    <3>4. Run(G, nx[a])
      BY <3>1, <3>3, <1>1, <1>3, SMTT(60)
    <3>5. \A b \in Page : Run(G, b) /\ b >= a + 1 => nx[a] <= b
      BY <3>1, <3>3, <2>2, <1>3, SMTT(60) DEF FirstRun
    <3>6. FirstRun(G, nx[a], a + 1)
      BY <3>3, <3>4, <3>5 DEF FirstRun
    <3> QED
      BY <3>1, <3>2, <3>3, <3>6, <2>1, <2>2, SMTT(60) DEF G
  <2>5. CASE a > t
    <3>1. fo # Nil /\ fo <= a /\ a >= t + n
      BY <2>1, <2>5, <1>1, SMTT(60)
    <3>2. nx2[a] = nx[a]
      BY <2>1, <2>5, <1>1, <1>5, SMTT(60)
    <3>3. nx[a] # Nil => nx[a] \in Page /\ Run(G, nx[a]) /\ nx[a] >= a + 1
      BY <3>1, <2>2, <1>1, <1>3, SMTT(60) DEF FirstRun
    <3>4. \A b \in Page : Run(G, b) /\ b >= a + 1 => nx[a] <= b
      BY <2>2, <2>5, <1>3, SMTT(60) DEF FirstRun
    <3>5. FirstRun(G, nx[a], a + 1)
      BY <3>3, <3>4, <2>2 DEF FirstRun
    <3> QED
      BY <3>1, <3>2, <3>5, <2>1, <2>2, SMTT(60) DEF G
  <2> QED
    BY <2>1, <2>3, <2>4, <2>5, SMTT(60)
<1>6. run \in Page /\ Run(G, run) /\ run <= t
  BY <1>1, <1>3, SMTT(60)
<1>7. mn => /\ fo \in Page /\ fo = t + n /\ Run(F, fo)
            /\ ln[fo] \in Nat \ {0} /\ fo .. fo + ln[fo] - 1 \subseteq F
            /\ fo + ln[fo] \notin F /\ FirstRun(F, nx[fo], fo + 1)
  BY <1>1, <1>4
<1>8. mp => /\ pr \in Page /\ pr + ln[pr] = t /\ Run(F, pr)
            /\ ln[pr] \in Nat \ {0} /\ pr .. pr + ln[pr] - 1 \subseteq F
  BY <1>1, <1>4
<1>9. ln2[run] \in Nat /\ run + ln2[run] = IF mn THEN fo + ln[fo] ELSE t + n
  BY <1>7, <1>8, SMTT(60)
<1>10. run .. run + ln2[run] - 1 \subseteq G /\ run + ln2[run] \notin G
  <2>1. ASSUME NEW p \in run .. run + ln2[run] - 1
        PROVE  p \in G
    <3>1. CASE p < t
      BY <2>1, <3>1, <1>8, SMTT(60) DEF G
    <3>2. CASE p >= t + n
      BY <2>1, <3>2, <1>7, <1>9, <1>6, SMTT(60) DEF G
    <3> QED
      BY <2>1, <3>1, <3>2, <1>6, <1>9, SMTT(60) DEF G
  <2>2. run + ln2[run] \notin G
    BY <1>2, <1>7, <1>9, SMTT(60) DEF G
  <2> QED
    BY <2>1, <2>2
<1>11. FirstRun(G, nx2[run], run + 1)
  <2>1. \A b \in Page : Run(G, b) /\ b >= run + 1 =>
           Run(F, b) /\ b >= fo /\ fo # Nil /\ ~(mn /\ b = fo)
    BY <1>1, <1>3, <1>8, SMTT(60)
  <2>2. CASE mn
    <3>1. nx2[run] = nx[fo] /\ FirstRun(F, nx[fo], fo + 1) /\ fo \in Page
      BY <2>2, <1>6, <1>7
    <3>2. nx[fo] # Nil => nx[fo] \in Page /\ Run(G, nx[fo]) /\ nx[fo] >= run + 1
      BY <3>1, <1>1, <1>3, <1>6, SMTT(60) DEF FirstRun
    <3>3. \A b \in Page : Run(G, b) /\ b >= run + 1 => nx[fo] <= b
      BY <3>1, <2>1, <2>2, SMTT(60) DEF FirstRun
    <3>4. FirstRun(G, nx[fo], run + 1)
      BY <3>1, <3>2, <3>3 DEF FirstRun
    <3> QED
      BY <3>1, <3>4
  <2>3. CASE ~mn
    <3>1. nx2[run] = fo
      BY <2>3, <1>6
    <3>2. FirstRun(G, fo, run + 1)
      BY <2>1, <2>3, <1>1, <1>3, <1>6, SMTT(60) DEF FirstRun
    <3> QED
      BY <3>1, <3>2
  <2> QED
    BY <2>2, <2>3
<1>12. FirstRun(G, hd2, 0)
  <2>1. FirstRun(F, hd, 0)
    BY DEF IsList, ListOf
  <2>2. CASE pr = Nil
    <3>1. hd2 = t /\ Run(G, t)
      BY <2>2, <1>3
    <3>2. \A b \in Page : Run(G, b) => t <= b
      BY <2>2, <1>1, <1>3, SMTT(60)
    <3> QED
      BY <3>1, <3>2, SMTT(60) DEF FirstRun
  <2>3. CASE pr # Nil
    <3>1. hd2 = hd /\ hd \in Page /\ hd <= pr /\ Run(F, hd) /\ pr < t
      BY <2>1, <2>3, <1>1, SMTT(60) DEF FirstRun
    <3>2. Run(G, hd)
      BY <3>1, <1>1, <1>3, SMTT(60)
    <3>3. \A b \in Page : Run(G, b) => hd <= b
      BY <3>1, <2>1, <1>3, SMTT(60) DEF FirstRun
    <3> QED
      BY <3>1, <3>2, <3>3, SMTT(60) DEF FirstRun
  <2> QED
    BY <2>2, <2>3
<1>13. ASSUME NEW p \in G
       PROVE  \E a \in Page : Run(G, a) /\ a <= p /\ p < a + ln2[a]
  <2>1. CASE p >= run /\ p < run + ln2[run]
    BY <2>1, <1>6
  <2>2. CASE p \in t .. t + n - 1
    BY <2>1, <2>2, <1>6, <1>7, <1>9, SMTT(60)
  <2>3. CASE p \in F
    <3>1. PICK a \in Page : Run(F, a) /\ a <= p /\ p < a + ln[a]
      BY <2>3 DEF IsList, ListOf
    <3>2. ln[a] \in Nat /\ p \in Nat
      BY <3>1, <2>3, <1>2, <1>4, SMTT(60)
    <3>3. CASE mn /\ a = fo
      BY <2>1, <3>1, <3>2, <3>3, <1>6, <1>7, <1>9, SMTT(60)
    <3>4. CASE a = run
      <4>1. mp /\ a = pr
        BY <3>1, <3>4, SMTT(60) DEF Run
      <4> QED
        BY <2>1, <3>1, <3>2, <3>4, <4>1, <1>6, <1>7, <1>8, <1>9, SMTT(60)
    <3>5. CASE ~(mn /\ a = fo) /\ a # run
      BY <3>1, <3>5, <1>3
    <3> QED
      BY <3>3, <3>4, <3>5
  <2> QED
    BY <2>2, <2>3 DEF G
<1> HIDE DEF G
<1> QED
  <2>1. ListOf(G, hd2, nx2, ln2)
    BY <1>5, <1>6, <1>10, <1>11, <1>12, <1>13 DEF ListOf
  <2> QED
    BY <2>1 DEF G

-----------------------------------------------------------------------------
(* init makes one run of the whole heap. *)
LEMMA InitInv == Init => ListInv
<1> USE HeapAssumption DEF Page, Pointer, Nil
<1> SUFFICES ASSUME Init PROVE ListInv
  OBVIOUS
<1>1. TypeOK /\ pc = "idle" /\ NoOverlap
  BY SMTT(60) DEF Init, TypeOK, NoOverlap
<1>2. FreePages = Page
  BY SMTT(60) DEF Init, FreePages
<1>3. \A a \in Page : Run(Page, a) <=> a = 0
  BY SMTT(60) DEF Run
<1>4. freelist = 0 /\ len[0] = NPages /\ next[0] = Nil
  BY SMTT(60) DEF Init
<1>5. ListOf(Page, freelist, next, len)
  BY <1>3, <1>4, SMTT(60) DEF ListOf, FirstRun
<1> QED
  BY <1>1, <1>2, <1>5 DEF ListInv, ListExact

(* What the invariant says, in the words of the list lemmas. *)
LEMMA InvIsList ==
  ListInv => /\ IsList(FreePages, freelist, next, len)
             /\ FreePages \subseteq Page
             /\ \A a \in Page : blocks[a] # 0 => a \notin FreePages
<1> SUFFICES ASSUME ListInv PROVE IsList(FreePages, freelist, next, len)
             /\ FreePages \subseteq Page
             /\ \A a \in Page : blocks[a] # 0 => a \notin FreePages
  OBVIOUS
<1>1. FreePages \subseteq Page
  BY DEF FreePages
<1>2. ASSUME NEW a \in Page, blocks[a] # 0
      PROVE  a \notin FreePages
  <2>1. a \in a .. a + blocks[a] - 1
    BY <1>2, HeapAssumption, SMTT(60) DEF ListInv, TypeOK, Page
  <2> QED
    BY <2>1 DEF FreePages
<1> QED
  BY <1>1, <1>2 DEF IsList, ListInv, ListExact, TypeOK

(* A step that leaves list and owners alone keeps the list exact. *)
LEMMA ListUnchanged ==
  ASSUME ListInv, UNCHANGED <<freelist, next, len, blocks>>
  PROVE  NoOverlap' /\ ListExact' /\ FreePages' = FreePages
<1>1. FreePages' = FreePages
  BY DEF FreePages
<1>2. ListExact'
  BY <1>1 DEF ListInv, ListExact
<1>3. NoOverlap'
  BY DEF ListInv, NoOverlap
<1> QED
  BY <1>1, <1>2, <1>3

(* Starting a search keeps the invariant. *)
LEMMA AllocInv == ASSUME ListInv, NEW n \in 1 .. MaxPages, Alloc(n) PROVE ListInv'
<1> USE HeapAssumption DEF Page, Pointer, Nil
<1>0. NoOverlap' /\ ListExact' /\ FreePages' = FreePages
  BY ListUnchanged DEF Alloc, list
<1>1. TypeOK'
  BY SMTT(60) DEF ListInv, Alloc, TypeOK, list
<1>2. FirstRun(FreePages, freelist, 0)
  BY DEF ListInv, ListExact, ListOf
<1>3. /\ npages' = n /\ it' = freelist /\ prev' = Nil /\ pc' = "fit"
      /\ freelist' = freelist /\ len' = len
  BY DEF Alloc, list
<1>4. \A a \in Page : Run(FreePages, a) => ~(freelist = Nil \/ a < freelist)
  BY <1>2, SMTT(60) DEF FirstRun, ListInv, TypeOK
<1>5. freelist # Nil => Run(FreePages, freelist)
  BY <1>2 DEF FirstRun
<1>6. Fitting'
  BY <1>0, <1>3, <1>4, <1>5, SMTT(60) DEF Fitting
<1> QED
  BY <1>0, <1>1, <1>3, <1>6 DEF ListInv

(* So does passing a run that is too short. *)
LEMMA AllocSkipInv == ASSUME ListInv, AllocSkip PROVE ListInv'
<1> USE HeapAssumption DEF Page, Pointer, Nil
<1>1. /\ TypeOK /\ Fitting /\ it \in Page /\ Run(FreePages, it)
      /\ len[it] < npages /\ FirstRun(FreePages, next[it], it + 1)
  BY DEF ListInv, AllocSkip, TypeOK, Fitting, ListExact, ListOf
<1>2. NoOverlap' /\ ListExact' /\ FreePages' = FreePages
  BY ListUnchanged DEF AllocSkip, list
<1>3. /\ npages' = npages /\ it' = next[it] /\ prev' = it /\ pc' = "fit"
      /\ next' = next /\ len' = len
  BY DEF AllocSkip, list
<1>4. ASSUME NEW a \in Page, Run(FreePages, a), next[it] = Nil \/ a < next[it]
      PROVE  len[a] < npages
  <2>1. a <= it
    BY <1>1, <1>4, SMTT(60) DEF FirstRun
  <2> QED
    BY <2>1, <1>1, <1>4, SMTT(60) DEF Fitting
<1>5. next[it] \in Pointer /\ next[it] > it /\ (next[it] # Nil => Run(FreePages, next[it]))
  BY <1>1, SMTT(60) DEF FirstRun
<1>6. Fitting'
  BY <1>1, <1>2, <1>3, <1>4, <1>5, SMTT(60) DEF Fitting
<1>7. TypeOK'
  BY <1>1, <1>5 DEF AllocSkip, TypeOK, list
<1> QED
  BY <1>2, <1>3, <1>6, <1>7 DEF ListInv

(* A refused call leaves everything as it was. *)
LEMMA AllocFailInv == ASSUME ListInv, AllocFail PROVE ListInv'
<1>1. NoOverlap' /\ ListExact' /\ pc' = "idle"
  BY ListUnchanged DEF AllocFail, Return, list
<1>2. TypeOK'
  BY HeapAssumption, SMTT(60) DEF ListInv, AllocFail, Return, TypeOK, list, Page, Pointer, Nil
<1> QED
  BY <1>1, <1>2 DEF ListInv

(* The pages alloc returns leave the free list and become one block. *)
LEMMA AllocTakeInv == ASSUME ListInv, AllocTake PROVE ListInv'
<1> USE HeapAssumption DEF Page, Pointer, Nil
<1> DEFINE n == npages
           rest == IF len[it] = n THEN next[it] ELSE it + n
<1>1. /\ TypeOK /\ it \in Page /\ Run(FreePages, it) /\ n \in Nat \ {0}
      /\ n <= len[it] /\ Before(FreePages, freelist, next, prev, it)
  BY DEF ListInv, AllocTake, TypeOK, Fitting, Before
<1>2. /\ IsList(FreePages, freelist, next, len) /\ FreePages \subseteq Page
      /\ \A a \in Page : blocks[a] # 0 => a \notin FreePages
  BY InvIsList
<1>3. /\ it .. it + n - 1 \subseteq FreePages /\ FirstRun(FreePages, next[it], it + 1)
      /\ len[it] # n => it + n \in Page
      /\ it + n <= NPages
  <2>1. /\ len[it] \in Nat /\ it .. it + len[it] - 1 \subseteq FreePages
        /\ FirstRun(FreePages, next[it], it + 1)
    BY <1>1, <1>2, RunPages
  <2>2. it .. it + n - 1 \subseteq FreePages
    BY <2>1, <1>1, SMTT(60)
  <2>3. len[it] # n => it + n \in it .. it + len[it] - 1
    BY <2>1, <1>1, SMTT(60)
  <2>4. it + n - 1 \in it .. it + n - 1
    BY <1>1, SMTT(60)
  <2>5. it + n - 1 \in Page
    BY <2>2, <2>4, <1>2
  <2> QED
    BY <2>1, <2>2, <2>3, <2>5, <1>1, <1>2, SMTT(60)
<1>4. blocks[it] = 0 /\ it \in FreePages
  BY <1>1, <1>2 DEF Run
<1>5. /\ blocks' = [blocks EXCEPT ![it] = n] /\ pc' = "idle" /\ TypeOK'
  <2>1. rest \in Pointer
    BY <1>1, <1>3 DEF FirstRun
  <2>2. freelist' \in Pointer /\ next' \in [Page -> Pointer]
    <3>1. next \in [Page -> Pointer] /\ next[it] \in Pointer /\ freelist \in Pointer
      BY <1>1 DEF TypeOK
    <3>2. CASE len[it] = n
      BY <2>1, <3>1, <3>2 DEF AllocTake
    <3>3. CASE len[it] # n
      BY <2>1, <3>1, <3>3 DEF AllocTake
    <3> QED
      BY <3>2, <3>3
  <2>3. len' \in [Page -> Nat]
    <3>1. len \in [Page -> Nat] /\ len[it] - n \in Nat
      BY <1>1, SMTT(60) DEF TypeOK
    <3>2. len' = len \/ len' = [len EXCEPT ![it + n] = len[it] - n]
      BY DEF AllocTake, RestLen
    <3> QED
      BY <3>1, <3>2
  <2>4. blocks' = [blocks EXCEPT ![it] = n] /\ Return
    BY DEF AllocTake
  <2>5. blocks' \in [Page -> Nat]
    BY <2>4, <1>1 DEF TypeOK
  <2> QED
    BY <2>2, <2>3, <2>4, <2>5, SMTT(60) DEF Return, TypeOK
<1>6. FreePages' = FreePages \ (it .. it + n - 1)
  <2>1. \A p \in Page, a \in Page :
          p \in a .. a + blocks'[a] - 1 <=>
            IF a = it THEN p \in it .. it + n - 1 ELSE p \in a .. a + blocks[a] - 1
    BY <1>1, <1>5 DEF TypeOK
  <2>2. \A p \in Page : p \notin it .. it + blocks[it] - 1
    BY <1>1, <1>4, SMTT(60)
  <2> QED
    BY <2>1, <2>2, <1>1 DEF FreePages
<1>7. NoOverlap'
  <2>1. ASSUME NEW a \in Page, a < it PROVE a + blocks[a] <= it
    <3>1. it \notin a .. a + blocks[a] - 1
      <4> HIDE DEF Page
      <4> QED BY <1>4, <2>1 DEF FreePages
    <3>2. blocks[a] \in Nat /\ a \in Nat /\ it \in Nat
      BY <1>1, <2>1, SMTT(60) DEF TypeOK
    <3> QED
      BY <3>1, <3>2, <2>1, SMTT(60)
  <2>2. ASSUME NEW b \in Page, it < b, blocks[b] # 0 PROVE it + n <= b
    BY <2>2, <1>1, <1>2, <1>3, SMTT(60)
  <2>3. \A a \in Page : blocks'[a] = IF a = it THEN n ELSE blocks[a]
    BY <1>1, <1>5 DEF TypeOK
  <2> QED
    BY <2>1, <2>2, <2>3, <1>1, <1>3, SMTT(60) DEF ListInv, NoOverlap
<1>8. /\ freelist' = IF prev = Nil THEN rest ELSE freelist
      /\ \A a \in Page : next'[a] =
           IF a = prev THEN rest
           ELSE IF len[it] # n /\ a = it + n THEN next[it] ELSE next[a]
      /\ \A a \in Page : len'[a] =
           IF len[it] # n /\ a = it + n THEN len[it] - n ELSE len[a]
  <2>1. next \in [Page -> Pointer] /\ len \in [Page -> Nat] /\ prev \in Pointer
    BY <1>1 DEF TypeOK
  <2>2. CASE len[it] = n
    BY <2>1, <2>2, SMTT(60) DEF AllocTake
  <2>3. CASE len[it] # n
    <3>1. /\ len' = [len EXCEPT ![it + n] = len[it] - n]
          /\ IF prev = Nil
             THEN freelist' = it + n /\ next' = [next EXCEPT ![it + n] = next[it]]
             ELSE /\ freelist' = freelist
                  /\ next' = [[next EXCEPT ![it + n] = next[it]] EXCEPT ![prev] = it + n]
      BY <2>3 DEF AllocTake, RestLen
    <3>2. it + n \in Page /\ rest = it + n
      BY <2>3, <1>3
    <3>3. CASE prev = Nil
      BY <2>1, <2>3, <3>1, <3>2, <3>3, SMTT(60)
    <3>4. CASE prev # Nil
      BY <2>1, <2>3, <3>1, <3>2, <3>4
    <3> QED
      BY <3>3, <3>4
  <2> QED
    BY <2>2, <2>3
<1>9. ListOf(FreePages \ (it .. it + n - 1), freelist', next', len')
  <2>1. /\ prev \in Pointer /\ it \in Page /\ n \in Nat \ {0} /\ n <= len[it]
        /\ Taken(freelist, next, len, it, n, prev, freelist', next', len')
    BY <1>1, <1>8 DEF TypeOK, Taken, Rest
  <2> HIDE DEF Page, Pointer, Nil, n, rest
  <2> QED
    BY <2>1, <1>1, <1>2, TakeList
<1> QED
  BY <1>5, <1>6, <1>7, <1>9 DEF ListInv, ListExact

(* Starting to free a block writes only to pages outside the list. *)
LEMMA FreeInv == ASSUME ListInv, NEW a \in Page, Free(a) PROVE ListInv'
<1> USE HeapAssumption DEF Page, Pointer, Nil
<1>1. /\ IsList(FreePages, freelist, next, len) /\ FreePages \subseteq Page
      /\ a \notin FreePages /\ TypeOK /\ blocks[a] # 0
  BY InvIsList DEF ListInv, Free
<1>2. PICK j \in Junk : next' = [next EXCEPT ![a] = j]
  BY DEF Free
<1>3. /\ len' = [len EXCEPT ![a] = blocks[a]] /\ pc' = "find" /\ target' = a
      /\ npages' = blocks[a] /\ freelist' = freelist /\ blocks' = blocks /\ prev' = prev
      /\ it' = IF freelist = Nil \/ a < freelist THEN Nil ELSE freelist
  BY DEF Free
<1>4. TypeOK'
  BY <1>1, <1>2, <1>3 DEF TypeOK
<1>5. NoOverlap' /\ FreePages' = FreePages
  BY <1>3 DEF ListInv, NoOverlap, FreePages
<1>6. \A b \in Page : Run(FreePages, b) => next'[b] = next[b] /\ len'[b] = len[b]
  BY <1>1, <1>2, <1>3 DEF TypeOK, Run
<1>7. ListOf(FreePages, freelist, next', len')
  <2> HIDE DEF Page, Pointer, Nil
  <2>1. ASSUME NEW p \in FreePages
        PROVE  \E b \in Page : Run(FreePages, b) /\ b <= p /\ p < b + len'[b]
    BY <1>1, <1>6 DEF IsList, ListOf
  <2>2. ASSUME NEW b \in Page, Run(FreePages, b)
        PROVE  /\ b .. b + len'[b] - 1 \subseteq FreePages
               /\ b + len'[b] \notin FreePages
               /\ FirstRun(FreePages, next'[b], b + 1)
    BY <1>1, <1>6, <2>2 DEF IsList, ListOf
  <2> QED
    BY <1>1, <2>1, <2>2 DEF IsList, ListOf
<1>8. Finding'
  <2>1. freelist # Nil => Run(FreePages, freelist) /\ freelist \in FreePages
    BY <1>1 DEF IsList, ListOf, FirstRun, Run
  <2>2. len'[a] = blocks[a]
    BY <1>1, <1>3 DEF TypeOK
  <2>3. CASE freelist = Nil \/ a < freelist
    BY <2>2, <2>3, <1>1, <1>3 DEF Finding
  <2>4. CASE ~(freelist = Nil \/ a < freelist)
    <3>1. it' = freelist /\ freelist # Nil /\ freelist < a /\ Run(FreePages, freelist)
      BY <2>1, <2>4, <1>1, <1>3, SMTT(60) DEF TypeOK
    <3> QED
      BY <3>1, <2>2, <1>1, <1>3, <1>5 DEF Finding
  <2> QED
    BY <2>3, <2>4
<1> QED
  BY <1>3, <1>4, <1>5, <1>7, <1>8 DEF ListInv, ListExact

(* The search moves on to a run that still lies below the block. *)
LEMMA FreeNextInv == ASSUME ListInv, FreeNext PROVE ListInv'
<1> USE HeapAssumption DEF Page, Pointer, Nil
<1>1. /\ IsList(FreePages, freelist, next, len) /\ TypeOK /\ Finding
      /\ target \notin FreePages /\ it \in Page /\ Run(FreePages, it)
  BY InvIsList DEF ListInv, FreeNext, TypeOK, Finding
<1>2. NoOverlap' /\ ListExact' /\ FreePages' = FreePages
  BY ListUnchanged DEF FreeNext, list
<1>3. FirstRun(FreePages, next[it], it + 1)
  BY <1>1, RunPages
<1>4. /\ next[it] \in Page /\ Run(FreePages, next[it]) /\ next[it] < target
  BY <1>1, <1>3, SMTT(60) DEF FirstRun, Run, FreeNext, Passed, TypeOK
<1>5. /\ it' = next[it] /\ pc' = "find" /\ target' = target /\ npages' = npages
      /\ prev' = prev /\ freelist' = freelist /\ next' = next /\ len' = len
      /\ blocks' = blocks
  BY DEF FreeNext, list
<1>6. TypeOK'
  BY <1>1, <1>4, <1>5 DEF TypeOK
<1>7. Finding'
  BY <1>1, <1>2, <1>4, <1>5, SMTT(60) DEF Finding
<1> QED
  BY <1>2, <1>5, <1>6, <1>7 DEF ListInv

(* The block returns to the list. *)
LEMMA FreeInsertInv == ASSUME ListInv, FreeInsert PROVE ListInv'
<1> USE HeapAssumption DEF Page, Pointer, Nil
<1> DEFINE n == blocks[target]
<1>1. /\ IsList(FreePages, freelist, next, len) /\ FreePages \subseteq Page
      /\ TypeOK /\ Finding /\ target \in Page /\ n \in Nat \ {0}
      /\ target + n <= NPages /\ len[target] = n
  BY InvIsList DEF ListInv, FreeInsert, TypeOK, Finding, NoOverlap
<1>2. FreePages \cap (target .. target + n - 1) = {}
  BY <1>1 DEF FreePages
<1>3. Position(FreePages, freelist, next, it, target)
  <2>1. it # Nil => next[it] = Nil \/ target < next[it]
    BY <1>1, SMTT(60) DEF FreeInsert, Passed, TypeOK
  <2> QED
    BY <2>1, <1>1 DEF Position, Finding
<1>4. blocks' = [blocks EXCEPT ![target] = 0] /\ Return
  BY DEF FreeInsert
<1>5. FreePages' = FreePages \cup (target .. target + n - 1)
  <2>1. \A p \in Page, a \in Page :
          p \in a .. a + blocks'[a] - 1 <=>
            a # target /\ p \in a .. a + blocks[a] - 1
    BY <1>1, <1>4, SMTT(60) DEF TypeOK
  <2>2. \A p \in target .. target + n - 1 : \A a \in Page :
          a # target => p \notin a .. a + blocks[a] - 1
    <3>1. ASSUME NEW p \in target .. target + n - 1, NEW a \in Page, a # target
          PROVE  p \notin a .. a + blocks[a] - 1
      <4>1. blocks[a] \in Nat
        BY <1>1 DEF TypeOK
      <4>2. CASE a < target
        <5>1. a + blocks[a] <= target
          BY <4>2, <1>1 DEF ListInv, NoOverlap
        <5> QED
          BY <4>1, <5>1, <1>1, SMTT(60)
      <4>3. CASE target < a /\ blocks[a] # 0
        <5>1. target + n <= a
          BY <4>3, <1>1 DEF ListInv, NoOverlap
        <5> QED
          BY <4>1, <5>1, <1>1, SMTT(60)
      <4>4. CASE blocks[a] = 0
        BY <4>4, <1>1, SMTT(60)
      <4>5. a < target \/ target < a
        BY <3>1, <1>1, SMTT(60)
      <4> QED
        BY <4>2, <4>3, <4>4, <4>5
    <3> QED
      BY <3>1
  <2>3. target .. target + n - 1 \subseteq Page
    BY <1>1, SMTT(60)
  <2> QED
    BY <2>1, <2>2, <2>3, <1>1 DEF FreePages
<1>6. NoOverlap'
  <2>1. \A a \in Page : blocks'[a] = IF a = target THEN 0 ELSE blocks[a]
    BY <1>1, <1>4 DEF TypeOK
  <2>2. \A a \in Page : blocks'[a] = blocks[a] \/ blocks'[a] = 0
    BY <2>1
  <2>3. \A a \in Page : blocks[a] \in Nat /\ a + blocks[a] <= NPages
    BY <1>1 DEF ListInv, NoOverlap, TypeOK
  <2>4. ASSUME NEW a \in Page, NEW b \in Page, a < b, blocks'[b] # 0
        PROVE  a + blocks'[a] <= b
    <3>1. a + blocks[a] <= b
      BY <2>2, <2>4 DEF ListInv, NoOverlap
    <3> QED
      BY <3>1, <2>2, <2>3, <2>4, SMTT(60)
  <2> QED
    BY <2>2, <2>3, <2>4, SMTT(60) DEF NoOverlap
<1> DEFINE fo == Follow(freelist, next, it)
           mp == it # Nil /\ it + len[it] = target
           mn == fo # Nil /\ target + n = fo
           run == IF mp THEN it ELSE target
           link == IF it # Nil /\ ~mp THEN [next EXCEPT ![it] = target] ELSE next
           size == IF mp THEN len[it] + n ELSE n
<1>7. /\ freelist' = IF it = Nil THEN target ELSE freelist
      /\ len' = [len EXCEPT ![run] = IF mn THEN size + len[fo] ELSE size]
      /\ next' = [link EXCEPT ![run] = IF mn THEN next[fo] ELSE fo]
  <2>1. MergesNext(run, size, fo) <=> mn
    BY <1>1, SMTT(60) DEF MergesNext, TypeOK
  <2> HIDE DEF Page, Pointer, Nil
  <2> QED
    BY <2>1, <1>1 DEF FreeInsert, Follow
<1>8. /\ run \in Page /\ size \in Nat /\ fo \in Pointer
      /\ mn => fo \in Page /\ len[fo] \in Nat /\ next[fo] \in Pointer
  <2>1. /\ it \in Pointer /\ len \in [Page -> Nat] /\ next \in [Page -> Pointer]
        /\ freelist \in Pointer
    BY <1>1 DEF TypeOK
  <2>2. fo \in Pointer
    BY <2>1 DEF Follow
  <2>3. run \in Page /\ size \in Nat
    BY <2>1, <1>1, SMTT(60)
  <2>4. fo # Nil => fo \in Page /\ len[fo] \in Nat /\ next[fo] \in Pointer
    <3> HIDE DEF fo
    <3> QED BY <2>1, <2>2
  <2> QED
    BY <2>2, <2>3, <2>4
<1>9. TypeOK'
  <2>1. link \in [Page -> Pointer]
    BY <1>1 DEF TypeOK
  <2> HIDE DEF link, run, size, fo, mn, mp
  <2>2. len' \in [Page -> Nat]
    <3>1. len \in [Page -> Nat]
      BY <1>1 DEF TypeOK
    <3>2. CASE mn
      BY <3>1, <3>2, <1>7, <1>8, SMTT(60)
    <3>3. CASE ~mn
      BY <3>1, <3>3, <1>7, <1>8
    <3> QED
      BY <3>2, <3>3
  <2>3. next' \in [Page -> Pointer]
    BY <2>1, <1>7, <1>8
  <2>4. freelist' \in Pointer /\ blocks' \in [Page -> Nat]
    BY <1>1, <1>4, <1>7 DEF TypeOK
  <2> QED
    BY <2>2, <2>3, <2>4, <1>4, SMTT(60) DEF TypeOK, Return
<1>10. Inserted(freelist, next, len, target, n, it, freelist', next', len')
  <2>1. \A a \in Page : link[a] = IF a = it /\ ~mp THEN target ELSE next[a]
    BY <1>1, SMTT(60) DEF TypeOK
  <2>2. len \in [Page -> Nat] /\ link \in [Page -> Pointer]
    BY <1>1 DEF TypeOK
  <2>3. run = IF mp THEN it ELSE target
    OBVIOUS
  <2>4. size = IF mp THEN len[it] + n ELSE n
    OBVIOUS
  <2>5. /\ freelist' = IF it = Nil THEN target ELSE freelist
        /\ \A a \in Page : next'[a] =
              IF a = run THEN (IF mn THEN next[fo] ELSE fo)
              ELSE IF a = it THEN target ELSE next[a]
        /\ \A a \in Page : a # run => len'[a] = len[a]
        /\ len'[run] = size + (IF mn THEN len[fo] ELSE 0)
    <3> HIDE DEF link, run, size, fo, mn, mp
    <3> QED
      BY <1>7, <1>8, <2>1, <2>2, <2>3, SMTT(60)
  <2> QED
    BY <2>5 DEF Inserted
<1>11. ListOf(FreePages \cup (target .. target + n - 1), freelist', next', len')
  <2>1. it \in Pointer
    BY <1>1 DEF TypeOK
  <2> HIDE DEF Page, Pointer, Nil, n
  <2> QED
    BY <2>1, <1>1, <1>2, <1>3, <1>10, InsertList
<1> QED
  BY <1>4, <1>5, <1>6, <1>9, <1>11 DEF ListInv, ListExact, Return

-----------------------------------------------------------------------------
(* The free list stays exact under every sequence of calls: the inductive  *)
(* invariant of alloc and free.                                            *)
THEOREM ListInvariant == Spec => []ListInv
<1>1. ListInv /\ [Next]_vars => ListInv'
  <2> SUFFICES ASSUME ListInv, [Next]_vars PROVE ListInv'
    OBVIOUS
  <2>1. CASE \E n \in 1 .. MaxPages : Alloc(n)
    BY <2>1, AllocInv
  <2>2. CASE \E a \in Page : Free(a)
    BY <2>2, FreeInv
  <2>3. CASE Step
    BY <2>3, AllocSkipInv, AllocFailInv, AllocTakeInv, FreeNextInv, FreeInsertInv
       DEF Step
  <2>4. CASE UNCHANGED vars
    <3>1. NoOverlap' /\ ListExact' /\ FreePages' = FreePages
      BY <2>4, ListUnchanged DEF vars, list
    <3>2. TypeOK' /\ (Fitting' <=> Fitting) /\ (Finding' <=> Finding) /\ pc' = pc
      BY <3>1, <2>4 DEF ListInv, TypeOK, Fitting, Finding, vars, list
    <3> QED
      BY <3>1, <3>2 DEF ListInv
  <2> QED
    BY <2>1, <2>2, <2>3, <2>4 DEF Next
<1> QED
  BY InitInv, <1>1, PTL DEF Spec

(* No page is ever owned by two callers. *)
THEOREM PagesDisjoint == Spec => []NoOverlap
<1>1. ListInv => NoOverlap
  BY DEF ListInv
<1> QED
  BY <1>1, ListInvariant, PTL

(* The list is exactly the free pages, as maximal runs in address order. *)
THEOREM ListIsExact == Spec => []ListExact
<1>1. ListInv => ListExact
  BY DEF ListInv
<1> QED
  BY <1>1, ListInvariant, PTL

(* alloc returns null only when no long enough stretch of pages is free. *)
THEOREM RefusalIsJustified == Spec => []RefusalJustified
<1>1. ListInv => RefusalJustified
  <2> USE HeapAssumption DEF Page, Pointer, Nil
  <2> SUFFICES ASSUME ListInv, pc = "fit", it = Nil, NEW a \in Page,
                      a .. a + npages - 1 \subseteq FreePages
               PROVE  FALSE
    BY DEF RefusalJustified
  <2>1. /\ npages \in Nat \ {0} /\ IsList(FreePages, freelist, next, len)
        /\ \A b \in Page : Run(FreePages, b) => len[b] < npages
    BY InvIsList DEF ListInv, Fitting
  <2>2. a \in FreePages
    BY <2>1, SMTT(60)
  <2>3. PICK b \in Page : Run(FreePages, b) /\ b <= a /\ a < b + len[b]
    BY <2>1, <2>2 DEF IsList, ListOf
  <2>4. len[b] \in Nat /\ b + len[b] \notin FreePages
    BY <2>1, <2>3, RunPages
  <2>5. b + len[b] \in a .. a + npages - 1
    BY <2>1, <2>3, <2>4, SMTT(60)
  <2> QED
    BY <2>4, <2>5
<1> QED
  BY <1>1, ListInvariant, PTL
=============================================================================
