--------------------------- MODULE Helpers_proofs ---------------------------
(***************************************************************************)
(* The helpers that stand on their own, for any bounds.                    *)
(*                                                                         *)
(* collections.py, for any attributes, fields, names and values.           *)
(* CopiesApart of ClassCopies: an attribute that has to be apart from all  *)
(* others has an object nobody else refers to.  Copying gives it a new     *)
(* one, and leaves the others' references as they are; a change of         *)
(* somebody else's object is then none of its own.  ReadsLastWrite of      *)
(* Records: for every class, the place that is looked into first for a key *)
(* holds the value last written to it.  That needs to be known of keys     *)
(* nobody reads as well, as a write may move a key from one place to       *)
(* another.                                                                *)
(*                                                                         *)
(* The network, for any hosts, callers and limits, whatever answers.       *)
(* VerdictJustified of HostChecks: a test counts as working the hosts that *)
(* answered over the version asked for, and no others; a verdict in the    *)
(* cache says when it was made.  AnswersFit of Lookups: what was yielded   *)
(* belongs to the addresses up to the one the call is at.                  *)
(*                                                                         *)
(* SafeLoop, for any lists of stop and pause events.  The invariant says   *)
(* why LateLoops holds: wherever the thread is on its way to loop(), an    *)
(* event that is set and has used up what it allows will still be read, or *)
(* has been.                                                               *)
(*                                                                         *)
(* Retry, for any number of callers and any limits: the types, and the     *)
(* bounds on the calls and on the retries of one call.  The limits bound   *)
(* the sum of the two counters, because each retry starts below both.      *)
(***************************************************************************)
EXTENDS ClassCopies, Records, HostChecks, Lookups, SafeLoop, Retry, FiniteSetTheorems,
        SequenceTheorems, WellFoundedInduction, TLAPS

-----------------------------------------------------------------------------
(* Copies of classes *)

\* A number for each of some attributes.
Numberings == UNION {[D -> Nat] : D \in SUBSET Attrs}

ClassRecords == [slotted : BOOLEAN, refs : Numberings]

\* The classes and what they should find: a reference for each attribute, to an object
\* there is.
CopiesTypeOK ==
  /\ classes \in Seq(ClassRecords)
  /\ objects \in Seq(Nat)
  /\ promised \in Seq(Numberings)
  /\ Len(promised) = Len(classes)
  /\ \A i \in 1..Len(classes) :
       /\ DOMAIN promised[i] = DOMAIN classes[i].refs
       /\ \A a \in DOMAIN classes[i].refs : classes[i].refs[a] \in 1..Len(objects)
  /\ together \in SUBSET (1..Len(classes))
  /\ appends \in Nat

\* The attributes of a class that share with no other: those that can be copied, unless
\* the class was copied with deep_copy=False, or is such a copy.
Own(i) == IF i \in together THEN {} ELSE DOMAIN classes[i].refs \cap Public

\* The object of such an attribute is that of no other attribute of any class.
Unshared ==
  \A i \in 1..Len(classes) : \A a \in Own(i) :
    \A j \in 1..Len(classes) : \A b \in DOMAIN classes[j].refs :
      classes[j].refs[b] = classes[i].refs[a] => j = i /\ b = a

CopiesInv == CopiesTypeOK /\ Unshared /\ CopiesApart

-----------------------------------------------------------------------------

\* Numbered gives every attribute an object of its own, after the n there are.
LEMMA NumberedApart ==
  ASSUME NEW attrs, IsFiniteSet(attrs), NEW n \in Nat
  PROVE  /\ Cardinality(attrs) \in Nat
         /\ Numbered(attrs, n) \in [attrs -> n + 1..n + Cardinality(attrs)]
         /\ \A a, b \in attrs : Numbered(attrs, n)[a] = Numbered(attrs, n)[b] => a = b
         /\ \A x \in n + 1..n + Cardinality(attrs) : \E a \in attrs : Numbered(attrs, n)[a] = x
<1> DEFINE c == Cardinality(attrs)
<1>1. c \in Nat /\ ExistsBijection(1..c, attrs)
  BY FS_CardinalityType
<1>2. PICK g \in [1..c -> attrs] : /\ \A x, y \in 1..c : g[x] = g[y] => x = y
                                  /\ \A a \in attrs : \E x \in 1..c : g[x] = a
  <2>1. PICK g : g \in Bijection(1..c, attrs)
    BY <1>1 DEF ExistsBijection
  <2> QED BY <2>1 DEF Bijection, Injection, Surjection, IsInjective
<1> HIDE DEF c
<1> DEFINE f == [a \in attrs |-> n + CHOOSE x \in 1..c : g[x] = a]
<1>3. \A a \in attrs : /\ (CHOOSE x \in 1..c : g[x] = a) \in 1..c
                       /\ g[CHOOSE x \in 1..c : g[x] = a] = a
  BY <1>2
<1>4. f \in [attrs -> n + 1..n + c]
  BY <1>1, <1>3
<1>5. \A a, b \in attrs : f[a] = f[b] => a = b
  <2> SUFFICES ASSUME NEW a \in attrs, NEW b \in attrs, f[a] = f[b] PROVE a = b
    OBVIOUS
  <2> DEFINE x == CHOOSE x \in 1..c : g[x] = a
             y == CHOOSE y \in 1..c : g[y] = b
  <2>1. f[a] = n + x /\ f[b] = n + y
    OBVIOUS
  <2>2. x \in 1..c /\ y \in 1..c /\ g[x] = a /\ g[y] = b
    BY <1>3
  <2> HIDE DEF x, y, f
  <2>3. n + x = n + y
    BY <2>1
  <2>4. x = y
    BY <1>1, <2>2, <2>3
  <2> QED BY <2>2, <2>4
<1> HIDE DEF f
<1>6. \E h \in [attrs -> n + 1..n + c] : \A a, b \in attrs : h[a] = h[b] => a = b
  BY <1>4, <1>5
<1>7. /\ c \in Nat
      /\ Numbered(attrs, n) \in [attrs -> n + 1..n + c]
      /\ \A a, b \in attrs : Numbered(attrs, n)[a] = Numbered(attrs, n)[b] => a = b
  BY <1>1, <1>6 DEF Numbered, c
<1>8. Numbered(attrs, n) \in Surjection(attrs, n + 1..n + c)
  <2>1. Numbered(attrs, n) \in Injection(attrs, n + 1..n + c)
    BY <1>7 DEF Injection, IsInjective
  <2>2. IsFiniteSet(n + 1..n + c) /\ Cardinality(n + 1..n + c) = c
    BY <1>7, FS_Interval
  <2> QED BY <2>1, <2>2, FS_Injection DEF c
<1> QED
  BY <1>7, <1>8 DEF Surjection, c

\* What Made makes: one class more, with the attributes kept; those severed have new
\* objects with what is in the old ones, the rest the old ones themselves.
MadeOf(i, kept, severed) ==
  LET n == Len(objects)
      m == Len(classes)
      refs == classes'[m + 1].refs
  IN  /\ Len(classes') = m + 1 /\ Len(promised') = m + 1
      /\ \A j \in 1..m : classes'[j] = classes[j] /\ promised'[j] = promised[j]
      /\ DOMAIN refs = kept /\ DOMAIN promised'[m + 1] = kept
      /\ Len(objects') \in Nat /\ n <= Len(objects')
      /\ \A x \in 1..n : objects'[x] = objects[x]
      /\ \A a \in kept \ severed : refs[a] = classes[i].refs[a]
      /\ \A a \in severed : refs[a] \in n + 1..Len(objects')
      /\ \A a, b \in severed : refs[a] = refs[b] => a = b
      /\ \A a \in severed : objects'[refs[a]] = objects[classes[i].refs[a]]
      /\ \A a \in kept : promised'[m + 1][a] = objects[classes[i].refs[a]]

\* What Made adds: MadeOf, and the types.
LEMMA MadeIs ==
  ASSUME CopiesTypeOK, NEW i \in 1..Len(classes), NEW kept \in SUBSET (DOMAIN classes[i].refs),
         NEW severed \in SUBSET kept, Made(i, kept, severed)
  PROVE  /\ MadeOf(i, kept, severed)
         /\ classes' \in Seq(ClassRecords)
         /\ objects' \in Seq(Nat)
         /\ promised' \in Seq(Numberings)
         /\ appends' = appends
<1> DEFINE n == Len(objects)
           m == Len(classes)
           old == classes[i].refs
           c == Cardinality(severed)
           fresh == Numbered(severed, n)
           origin == [x \in n + 1..n + c |-> old[CHOOSE a \in severed : fresh[a] = x]]
           new == [a \in kept |-> IF a \in severed THEN fresh[a] ELSE old[a]]
           value == [a \in kept |-> objects[old[a]]]
<1>1. /\ n \in Nat /\ m \in Nat
      /\ old \in Numberings /\ DOMAIN old \in SUBSET Attrs
      /\ \A a \in DOMAIN old : old[a] \in 1..n
      /\ objects \in Seq(Nat) /\ Len(promised) = m
      /\ classes \in Seq(ClassRecords) /\ promised \in Seq(Numberings)
  <2> HIDE DEF old
  <2>1. /\ classes \in Seq(ClassRecords) /\ objects \in Seq(Nat)
        /\ i \in 1..Len(classes)
    BY DEF CopiesTypeOK
  <2>2. /\ n \in Nat /\ m \in Nat /\ classes[i] \in ClassRecords
    BY <2>1
  <2> USE DEF old
  <2>3. old \in Numberings
    BY <2>2 DEF ClassRecords
  <2>4. DOMAIN old \in SUBSET Attrs
    BY <2>3 DEF Numberings
  <2> QED BY <2>2, <2>3, <2>4 DEF CopiesTypeOK
<1>2. /\ c \in Nat /\ fresh \in [severed -> n + 1..n + c]
      /\ \A a, b \in severed : fresh[a] = fresh[b] => a = b
      /\ \A x \in n + 1..n + c : \E a \in severed : fresh[a] = x
  <2>1. severed \in SUBSET Attrs
    BY <1>1
  <2>2. IsFiniteSet(severed)
    BY <2>1, FS_Subset, CopiesAssumption DEF CopiesAssumption
  <2> QED BY <1>1, <2>2, NumberedApart
<1>3. /\ classes' = Append(classes, [slotted |-> FALSE, refs |-> new])
      /\ objects' = [x \in 1..n + c |-> IF x <= n THEN objects[x] ELSE objects[origin[x]]]
      /\ promised' = Append(promised, value)
      /\ appends' = appends
  BY DEF Made
<1> HIDE DEF fresh, c, old
<1>4. \A a \in severed : origin[fresh[a]] = old[a]
  <2> TAKE a \in severed
  <2>1. \A b \in severed : fresh[b] = fresh[a] => b = a
    BY <1>2
  <2>2. (CHOOSE b \in severed : fresh[b] = fresh[a]) = a
    BY <2>1
  <2> QED BY <1>2, <2>2
<1>5. \A x \in n + 1..n + c : origin[x] \in 1..n
  <2> TAKE x \in n + 1..n + c
  <2>1. PICK a \in severed : fresh[a] = x
    BY <1>2
  <2>2. a \in DOMAIN old
    BY DEF old
  <2> QED BY <1>1, <1>4, <2>1, <2>2
<1> HIDE DEF origin
<1>6. kept \in SUBSET DOMAIN old /\ severed \in SUBSET DOMAIN old /\ severed \in SUBSET kept
      /\ kept \in SUBSET Attrs
  BY <1>1 DEF old
<1>7. new \in Numberings /\ [slotted |-> FALSE, refs |-> new] \in ClassRecords
  <2>1. \A a \in kept : (IF a \in severed THEN fresh[a] ELSE old[a]) \in Nat
    BY <1>1, <1>2, <1>6
  <2>2. new \in [kept -> Nat]
    BY <2>1
  <2> HIDE DEF new
  <2>3. new \in Numberings
    BY <1>6, <2>2 DEF Numberings
  <2> QED BY <2>3 DEF ClassRecords
<1>8. value \in Numberings
  <2>1. \A a \in kept : objects[old[a]] \in Nat
    BY <1>1, <1>6
  <2>2. value \in [kept -> Nat]
    BY <2>1
  <2> HIDE DEF value
  <2> QED BY <1>6, <2>2 DEF Numberings
<1>9. objects' \in Seq(Nat) /\ Len(objects') = n + c
  <2>1. \A x \in 1..n + c : (IF x <= n THEN objects[x] ELSE objects[origin[x]]) \in Nat
    <3> TAKE x \in 1..n + c
    <3>1. CASE x <= n
      BY <1>1, <1>2, <3>1
    <3>2. CASE ~(x <= n)
      <4>1. x \in n + 1..n + c
        BY <1>1, <1>2, <3>2
      <4> QED BY <1>1, <1>5, <3>2, <4>1
    <3> QED BY <3>1, <3>2
  <2>2. n + c \in Nat
    BY <1>1, <1>2
  <2> QED BY <1>3, <2>1, <2>2
<1> HIDE DEF new, value
<1>10. /\ classes' \in Seq(ClassRecords) /\ promised' \in Seq(Numberings)
       /\ Len(classes') = m + 1 /\ Len(promised') = m + 1
       /\ \A j \in 1..m : classes'[j] = classes[j] /\ promised'[j] = promised[j]
       /\ classes'[m + 1].refs = new /\ promised'[m + 1] = value
  <2>1. /\ classes' \in Seq(ClassRecords) /\ Len(classes') = m + 1
        /\ \A j \in 1..m : classes'[j] = classes[j]
        /\ classes'[m + 1] = [slotted |-> FALSE, refs |-> new]
    BY <1>1, <1>3, <1>7
  <2>2. /\ promised' \in Seq(Numberings) /\ Len(promised') = m + 1
        /\ \A j \in 1..m : promised'[j] = promised[j]
        /\ promised'[m + 1] = value
    <3>1. promised \in Seq(Numberings) /\ Len(promised) = m /\ promised' = Append(promised, value)
      BY <1>1, <1>3
    <3> QED BY <1>8, <3>1
  <2> QED BY <2>1, <2>2
<1>11. \A x \in 1..n : objects'[x] = objects[x]
  BY <1>1, <1>2, <1>3
<1>12. \A a \in severed : objects'[fresh[a]] = objects[old[a]]
  <2> TAKE a \in severed
  <2>1. fresh[a] \in n + 1..n + c
    BY <1>2
  <2> QED BY <1>1, <1>2, <1>3, <1>4, <2>1
<1>13. /\ DOMAIN new = kept /\ DOMAIN value = kept
       /\ \A a \in severed : new[a] = fresh[a]
       /\ \A a \in kept \ severed : new[a] = old[a]
       /\ \A a \in kept : value[a] = objects[old[a]]
  BY <1>6 DEF new, value
<1>14. MadeOf(i, kept, severed)
  <2>1. \A a \in severed : new[a] \in n + 1..Len(objects') /\ objects'[new[a]] = objects[old[a]]
    BY <1>2, <1>9, <1>12, <1>13
  <2>2. \A a, b \in severed : new[a] = new[b] => a = b
    BY <1>2, <1>13
  <2>3. Len(objects') \in Nat /\ n <= Len(objects')
    BY <1>1, <1>2, <1>9
  <2> QED BY <1>10, <1>11, <1>13, <2>1, <2>2, <2>3 DEF MadeOf, old
<1> QED
  BY <1>3, <1>9, <1>10, <1>14 

\* A copy keeps the invariant when it severs what has to be apart, or when it and its
\* original are known to be together.
LEMMA MadeStep ==
  ASSUME CopiesInv, NEW i \in 1..Len(classes), NEW kept \in SUBSET (DOMAIN classes[i].refs),
         NEW severed \in SUBSET kept, Made(i, kept, severed),
         \/ together' = together /\ kept \cap Public \subseteq severed
         \/ together' = together \cup {i, Len(classes) + 1}
  PROVE  CopiesInv'
<1>1. PICK m \in Nat : m = Len(classes)
  BY DEF CopiesInv, CopiesTypeOK
<1> DEFINE n == Len(objects)
<1>2. /\ n \in Nat /\ m \in Nat /\ i \in 1..m
      /\ \A j \in 1..m : \A a \in DOMAIN classes[j].refs : classes[j].refs[a] \in 1..n
      /\ \A j \in 1..m : DOMAIN promised[j] = DOMAIN classes[j].refs
      /\ together \in SUBSET (1..m)
  BY <1>1 DEF CopiesInv, CopiesTypeOK
<1>3. /\ MadeOf(i, kept, severed)
      /\ classes' \in Seq(ClassRecords) /\ objects' \in Seq(Nat) /\ promised' \in Seq(Numberings)
      /\ appends' = appends
  BY MadeIs DEF CopiesInv
<1> DEFINE refs == classes'[m + 1].refs
<1>4. /\ Len(classes') = m + 1 /\ Len(promised') = m + 1
      /\ \A j \in 1..m : classes'[j] = classes[j] /\ promised'[j] = promised[j]
      /\ DOMAIN refs = kept /\ DOMAIN promised'[m + 1] = kept
      /\ Len(objects') \in Nat /\ n <= Len(objects')
      /\ \A x \in 1..n : objects'[x] = objects[x]
      /\ \A a \in kept \ severed : refs[a] = classes[i].refs[a]
      /\ \A a \in severed : refs[a] \in n + 1..Len(objects')
      /\ \A a, b \in severed : refs[a] = refs[b] => a = b
      /\ \A a \in severed : objects'[refs[a]] = objects[classes[i].refs[a]]
      /\ \A a \in kept : promised'[m + 1][a] = objects[classes[i].refs[a]]
  BY <1>1, <1>3 DEF MadeOf
<1> HIDE DEF refs
<1>5. CopiesTypeOK'
  <2>1. \A j \in 1..Len(classes') : j \in 1..m \/ j = m + 1
    BY <1>2, <1>4
  <2>2. \A j \in 1..Len(classes') : DOMAIN promised'[j] = DOMAIN classes'[j].refs
    BY <1>2, <1>4, <2>1 DEF refs
  <2>3. \A j \in 1..m : \A a \in DOMAIN classes'[j].refs : classes'[j].refs[a] \in 1..Len(objects')
    <3> TAKE j \in 1..m
    <3>1. classes'[j] = classes[j]
      BY <1>4
    <3>2. \A a \in DOMAIN classes[j].refs : classes[j].refs[a] \in 1..n
      BY <1>2
    <3>3. 1..n \subseteq 1..Len(objects')
      BY <1>2, <1>4
    <3> QED BY <3>1, <3>2, <3>3
  <2>4. \A a \in kept : refs[a] \in 1..Len(objects')
    <3> TAKE a \in kept
    <3>1. CASE a \in severed
      BY <1>2, <1>4, <3>1
    <3>2. CASE a \notin severed
      BY <1>2, <1>4, <3>2
    <3> QED BY <3>1, <3>2
  <2>5. \A j \in 1..Len(classes') : \A a \in DOMAIN classes'[j].refs :
          classes'[j].refs[a] \in 1..Len(objects')
    BY <1>4, <2>1, <2>3, <2>4 DEF refs
  <2>6. together' \in SUBSET (1..Len(classes'))
    <3>1. together' \subseteq together \cup {i, m + 1}
      BY <1>1
    <3> QED BY <1>2, <1>4, <3>1
  <2>7. appends' \in Nat
    BY <1>3 DEF CopiesInv, CopiesTypeOK
  <2> QED BY <1>3, <1>4, <2>2, <2>5, <2>6, <2>7 DEF CopiesTypeOK
<1>6. \A j \in 1..m : Own(j)' \subseteq Own(j)
  <2>1. together \subseteq together'
    OBVIOUS
  <2> QED BY <1>4, <2>1 DEF Own
<1>7. Own(m + 1)' \subseteq severed
  BY <1>1, <1>4 DEF Own, refs
<1>8. \A j \in 1..m : \A a \in Own(j) : a \in DOMAIN classes[j].refs
  BY DEF Own
<1>9. Unshared'
  <2> SUFFICES ASSUME NEW j \in 1..m + 1, NEW a \in Own(j)',
                      NEW k \in 1..m + 1, NEW b \in DOMAIN classes'[k].refs,
                      classes'[k].refs[b] = classes'[j].refs[a]
               PROVE  k = j /\ b = a
    BY <1>4 DEF Unshared
  <2>1. (j \in 1..m \/ j = m + 1) /\ (k \in 1..m \/ k = m + 1)
    OBVIOUS
  <2>2. CASE j \in 1..m /\ k \in 1..m
    BY <1>1, <1>4, <1>6, <2>2 DEF CopiesInv, Unshared
  <2>3. CASE j \in 1..m /\ k = m + 1
    <3>1. a \in Own(j) /\ classes'[j].refs[a] = classes[j].refs[a] /\ b \in kept
      BY <1>4, <1>6, <2>3 DEF refs
    <3>2. classes[j].refs[a] \in 1..n
      BY <1>2, <1>8, <2>3, <3>1
    <3>3. refs[b] = classes[j].refs[a]
      BY <2>3, <3>1 DEF refs
    <3>4. b \notin severed
      BY <1>2, <1>4, <3>2, <3>3
    <3>5. refs[b] = classes[i].refs[b] /\ b \in DOMAIN classes[i].refs
      BY <1>4, <3>1, <3>4
    <3>6. i = j /\ b = a
      <4>1. classes[i].refs[b] = classes[j].refs[a]
        BY <3>3, <3>5
      <4>2. \A k1 \in 1..Len(classes) : \A b1 \in DOMAIN classes[k1].refs :
              classes[k1].refs[b1] = classes[j].refs[a] => k1 = j /\ b1 = a
        BY <1>1, <2>3, <3>1 DEF CopiesInv, Unshared
      <4> QED BY <3>5, <4>1, <4>2
    <3>7. a \in Public /\ j \notin together'
      BY <3>6 DEF Own
    <3> QED BY <3>1, <3>4, <3>6, <3>7
  <2>4. CASE j = m + 1 /\ k \in 1..m
    <3>1. a \in severed
      BY <1>7, <2>4
    <3>2. classes'[j].refs[a] \in n + 1..Len(objects')
      BY <1>4, <2>4, <3>1 DEF refs
    <3>3. classes'[k].refs[b] \in 1..n
      BY <1>2, <1>4, <2>4
    <3> QED BY <1>2, <1>4, <3>2, <3>3
  <2>5. CASE j = m + 1 /\ k = m + 1
    <3>1. a \in severed /\ b \in kept /\ refs[b] = refs[a]
      BY <1>4, <1>7, <2>5 DEF refs
    <3>2. b \in severed
      <4>1. ASSUME b \notin severed PROVE FALSE
        <5>1. refs[b] = classes[i].refs[b] /\ b \in DOMAIN classes[i].refs
          BY <1>4, <3>1, <4>1
        <5>2. refs[b] \in 1..n
          BY <1>2, <5>1
        <5>3. refs[a] \in n + 1..Len(objects')
          BY <1>4, <3>1
        <5> QED BY <1>2, <1>4, <3>1, <5>2, <5>3
      <4> QED BY <4>1
    <3> QED BY <1>4, <2>5, <3>1, <3>2
  <2> QED BY <2>1, <2>2, <2>3, <2>4, <2>5
<1>10. CopiesApart'
  <2> SUFFICES ASSUME NEW j \in 1..m + 1, NEW a \in Own(j)'
               PROVE  objects'[classes'[j].refs[a]] = promised'[j][a]
    <3>1. \A j \in 1..m + 1 : j \notin together' => Own(j)' = DOMAIN classes'[j].refs \cap Public
      BY DEF Own
    <3> QED BY <1>4, <3>1 DEF CopiesApart
  <2>1. CASE j \in 1..m
    <3>1. a \in Own(j) /\ classes'[j].refs[a] = classes[j].refs[a] /\ promised'[j] = promised[j]
      BY <1>4, <1>6, <2>1
    <3>2. classes[j].refs[a] \in 1..n
      BY <1>2, <1>8, <2>1, <3>1
    <3>3. objects[classes[j].refs[a]] = promised[j][a]
      BY <1>1, <2>1, <3>1 DEF CopiesInv, CopiesApart, Own
    <3> QED BY <1>4, <3>1, <3>2, <3>3
  <2>2. CASE j = m + 1
    <3>1. a \in severed /\ a \in kept
      BY <1>7, <2>2
    <3> QED BY <1>4, <2>2, <3>1 DEF refs
  <2> QED BY <1>2, <2>1, <2>2
<1> QED
  BY <1>5, <1>9, <1>10 DEF CopiesInv

-----------------------------------------------------------------------------

\* Somebody appends to an object: only who refers to it sees that.
LEMMA AppendStep ==
  ASSUME CopiesInv, AppendTo
  PROVE  CopiesInv'
<1>1. PICK i \in 1..Len(classes) : \E a \in DOMAIN classes[i].refs :
        /\ objects' = [objects EXCEPT ![classes[i].refs[a]] = @ + 1]
        /\ promised' = [promised EXCEPT ![i][a] = @ + 1]
  BY DEF AppendTo
<1>2. PICK a \in DOMAIN classes[i].refs :
        /\ objects' = [objects EXCEPT ![classes[i].refs[a]] = @ + 1]
        /\ promised' = [promised EXCEPT ![i][a] = @ + 1]
  BY <1>1
<1> DEFINE r == classes[i].refs[a]
           p == [promised[i] EXCEPT ![a] = @ + 1]
<1>3. /\ classes' = classes /\ together' = together /\ appends' = appends + 1
      /\ objects' = [objects EXCEPT ![r] = @ + 1] /\ promised' = [promised EXCEPT ![i] = p]
  BY <1>2 DEF AppendTo
<1>4. /\ r \in 1..Len(objects) /\ objects \in Seq(Nat) /\ promised \in Seq(Numberings)
      /\ Len(promised) = Len(classes) /\ a \in DOMAIN promised[i] /\ appends \in Nat
  BY DEF CopiesInv, CopiesTypeOK
<1>5. p \in Numberings /\ DOMAIN p = DOMAIN promised[i]
  <2>1. promised[i] \in Numberings
    BY <1>4
  <2>2. PICK D \in SUBSET Attrs : promised[i] \in [D -> Nat]
    BY <2>1 DEF Numberings
  <2>3. p \in [D -> Nat]
    BY <1>4, <2>2
  <2> QED BY <2>2, <2>3 DEF Numberings
<1> HIDE DEF p
<1>6. /\ objects' \in Seq(Nat) /\ Len(objects') = Len(objects)
      /\ promised' \in Seq(Numberings) /\ Len(promised') = Len(promised)
      /\ \A x \in 1..Len(objects) : objects'[x] = IF x = r THEN objects[x] + 1 ELSE objects[x]
      /\ \A j \in 1..Len(promised) : promised'[j] = IF j = i THEN p ELSE promised[j]
  <2> HIDE DEF r
  <2>1. /\ objects' \in Seq(Nat) /\ Len(objects') = Len(objects)
        /\ \A x \in 1..Len(objects) : objects'[x] = IF x = r THEN objects[x] + 1 ELSE objects[x]
    BY <1>3, <1>4
  <2>2. /\ promised' \in Seq(Numberings) /\ Len(promised') = Len(promised)
        /\ \A j \in 1..Len(promised) : promised'[j] = IF j = i THEN p ELSE promised[j]
    BY <1>3, <1>4, <1>5
  <2> QED BY <2>1, <2>2
<1>7. CopiesTypeOK'
  BY <1>3, <1>4, <1>5, <1>6 DEF CopiesInv, CopiesTypeOK
<1>8. Unshared'
  BY <1>3 DEF CopiesInv, Unshared, Own
<1>9. CopiesApart'
  <2> SUFFICES ASSUME NEW j \in 1..Len(classes) \ together,
                      NEW b \in DOMAIN classes[j].refs \cap Public
               PROVE  objects'[classes[j].refs[b]] = promised'[j][b]
    BY <1>3 DEF CopiesApart
  <2>1. /\ objects[classes[j].refs[b]] = promised[j][b] /\ classes[j].refs[b] \in 1..Len(objects)
        /\ j \in 1..Len(promised) /\ b \in Own(j)
    BY <1>4 DEF CopiesInv, CopiesTypeOK, CopiesApart, Own
  <2>2. CASE j = i /\ b = a
    BY <1>4, <1>6, <2>1, <2>2 DEF p
  <2>3. CASE ~(j = i /\ b = a)
    <3>1. classes[j].refs[b] # r
      BY <2>1, <2>3 DEF CopiesInv, Unshared
    <3>2. promised'[j][b] = promised[j][b]
      <4>1. b \in DOMAIN promised[j]
        BY DEF CopiesInv, CopiesTypeOK
      <4> QED BY <1>4, <1>6, <2>1, <2>3, <4>1 DEF p
    <3> QED BY <1>6, <2>1, <3>1, <3>2
  <2> QED BY <2>2, <2>3
<1> QED
  BY <1>7, <1>8, <1>9 DEF CopiesInv

\* The classes there are at first: one, with an object for each attribute it has.
LEMMA CopiesStart ==
  ASSUME CopiesInit
  PROVE  CopiesInv
<1>1. PICK slotted \in BOOLEAN :
        LET have == IF slotted THEN Attrs ELSE Attrs \ Slots
        IN  /\ classes = <<[slotted |-> slotted, refs |-> Numbered(have, 0)]>>
            /\ objects = [n \in 1..Cardinality(have) |-> 0]
            /\ promised = <<[a \in have |-> 0]>>
            /\ together = {} /\ appends = 0
  BY DEF CopiesInit
<1>2. PICK have \in SUBSET Attrs : have = IF slotted THEN Attrs ELSE Attrs \ Slots
  OBVIOUS
<1> DEFINE refs == Numbered(have, 0)
           c == Cardinality(have)
           none == [a \in have |-> 0]
<1>3. /\ classes = <<[slotted |-> slotted, refs |-> refs]>> /\ promised = <<none>>
      /\ objects = [n \in 1..c |-> 0] /\ together = {} /\ appends = 0
  BY <1>1, <1>2
<1>4. /\ c \in Nat /\ refs \in [have -> 1..c]
      /\ \A a, b \in have : refs[a] = refs[b] => a = b
  <2>1. IsFiniteSet(have)
    BY <1>2, FS_Subset, CopiesAssumption DEF CopiesAssumption
  <2>2. /\ c \in Nat /\ refs \in [have -> 0 + 1..0 + c]
        /\ \A a, b \in have : refs[a] = refs[b] => a = b
    BY <2>1, NumberedApart
  <2> QED BY <2>2
<1> HIDE DEF refs, c
<1>5. refs \in Numberings /\ none \in Numberings /\ [slotted |-> slotted, refs |-> refs] \in ClassRecords
  <2>1. refs \in [have -> Nat] /\ none \in [have -> Nat]
    BY <1>4
  <2>2. refs \in Numberings /\ none \in Numberings
    BY <2>1 DEF Numberings
  <2> QED BY <2>2 DEF ClassRecords
<1>6. /\ classes \in Seq(ClassRecords) /\ promised \in Seq(Numberings)
      /\ Len(classes) = 1 /\ Len(promised) = 1
      /\ classes[1].refs = refs /\ promised[1] = none
  BY <1>3, <1>5
<1>7. objects \in Seq(Nat) /\ Len(objects) = c
  BY <1>3, <1>4
<1>8. CopiesTypeOK
  BY <1>3, <1>4, <1>6, <1>7 DEF CopiesTypeOK
<1>9. Unshared
  BY <1>3, <1>4, <1>6 DEF Unshared, Own
<1>10. CopiesApart
  BY <1>3, <1>4, <1>6 DEF CopiesApart
<1> QED
  BY <1>8, <1>9, <1>10 DEF CopiesInv

\* Every step keeps the invariant.
LEMMA CopiesStep ==
  ASSUME CopiesInv, [CopiesNext]_copyVars
  PROVE  CopiesInv'
<1>1. Public \cap (Stubborn \cup Dunder \cup Slots) = {}
  BY CopiesAssumption DEF CopiesAssumption
<1>2. CASE copy_class
  <2>1. PICK i \in 1..Len(classes), deep_copy \in BOOLEAN, deep_private \in BOOLEAN :
          /\ IF classes[i].slotted THEN _copy_class_slotted(i, deep_copy, deep_private)
                                   ELSE _copy_class_dict(i, deep_copy, deep_private)
          /\ together' = IF deep_copy THEN together ELSE together \cup {i, Len(classes) + 1}
    BY <1>2 DEF copy_class
  <2>2. PICK kept \in SUBSET (DOMAIN classes[i].refs) :
          Made(i, kept, {a \in kept : deep_copy /\ _q_copy(a, TRUE, deep_private)})
    BY <2>1 DEF _copy_class_slotted, _copy_class_dict
  <2> DEFINE severed == {a \in kept : deep_copy /\ _q_copy(a, TRUE, deep_private)}
  <2>3. \/ together' = together /\ kept \cap Public \subseteq severed
        \/ together' = together \cup {i, Len(classes) + 1}
    BY <1>1, <2>1 DEF _q_copy
  <2>4. severed \in SUBSET kept
    OBVIOUS
  <2> QED BY <2>2, <2>3, <2>4, MadeStep
<1>3. CASE copy_class_simple
  <2>1. together' = together
    BY <1>3 DEF copy_class_simple
  <2>2. PICK i \in 1..Len(classes) : \E kept \in SUBSET (DOMAIN classes[i].refs) :
          Made(i, kept, {a \in kept : _q_copy(a, FALSE, FALSE)})
    BY <1>3 DEF copy_class_simple
  <2>3. PICK kept \in SUBSET (DOMAIN classes[i].refs) :
          Made(i, kept, {a \in kept : _q_copy(a, FALSE, FALSE)})
    BY <2>2
  <2> DEFINE severed == {a \in kept : _q_copy(a, FALSE, FALSE)}
  <2>4. kept \cap Public \subseteq severed /\ severed \in SUBSET kept
    BY <1>1 DEF _q_copy
  <2> QED BY <2>1, <2>3, <2>4, MadeStep
<1>4. CASE _create_mocker_copy
  <2>1. together' = together
    BY <1>4 DEF _create_mocker_copy
  <2>2. PICK i \in 1..Len(classes) : \E kept \in SUBSET (DOMAIN classes[i].refs) :
          Made(i, kept, {a \in kept : _q_copy(a, FALSE, TRUE)})
    BY <1>4 DEF _create_mocker_copy
  <2>3. PICK kept \in SUBSET (DOMAIN classes[i].refs) :
          Made(i, kept, {a \in kept : _q_copy(a, FALSE, TRUE)})
    BY <2>2
  <2> DEFINE severed == {a \in kept : _q_copy(a, FALSE, TRUE)}
  <2>4. kept \cap Public \subseteq severed /\ severed \in SUBSET kept
    BY <1>1 DEF _q_copy
  <2> QED BY <2>1, <2>3, <2>4, MadeStep
<1>5. CASE generate_class
  <2> DEFINE empty == [a \in {} |-> 0]
             new == [slotted |-> FALSE, refs |-> empty]
  <2>1. /\ classes' = Append(classes, new) /\ promised' = Append(promised, empty)
        /\ objects' = objects /\ together' = together /\ appends' = appends
    BY <1>5 DEF generate_class
  <2>2. PICK m \in Nat : m = Len(classes) /\ m = Len(promised)
    BY DEF CopiesInv, CopiesTypeOK
  <2>3. empty \in Numberings /\ new \in ClassRecords
    <3>1. empty \in [{} -> Nat]
      OBVIOUS
    <3>2. empty \in Numberings
      BY <3>1 DEF Numberings
    <3> QED BY <3>2 DEF ClassRecords
  <2>4. DOMAIN empty = {} /\ new.refs = empty
    OBVIOUS
  <2> HIDE DEF empty, new
  <2>5. /\ classes' \in Seq(ClassRecords) /\ Len(classes') = m + 1 /\ classes'[m + 1] = new
        /\ \A j \in 1..m : classes'[j] = classes[j]
    BY <2>1, <2>2, <2>3 DEF CopiesInv, CopiesTypeOK
  <2>6. /\ promised' \in Seq(Numberings) /\ Len(promised') = m + 1 /\ promised'[m + 1] = empty
        /\ \A j \in 1..m : promised'[j] = promised[j]
    BY <2>1, <2>2, <2>3 DEF CopiesInv, CopiesTypeOK
  <2>7. \A j \in 1..m + 1 : j \in 1..m \/ j = m + 1
    BY <2>2
  <2>8. DOMAIN classes'[m + 1].refs = {}
    BY <2>4, <2>5
  <2>9. CopiesTypeOK'
    BY <2>1, <2>2, <2>4, <2>5, <2>6, <2>7 DEF CopiesInv, CopiesTypeOK
  <2>10. \A j \in 1..m : Own(j)' = Own(j)
    BY <2>1, <2>5 DEF Own
  <2>11. Own(m + 1)' = {}
    BY <2>8 DEF Own
  <2>12. Unshared'
    <3> SUFFICES ASSUME NEW j \in 1..m + 1, NEW a \in Own(j)',
                        NEW k \in 1..m + 1, NEW b \in DOMAIN classes'[k].refs,
                        classes'[k].refs[b] = classes'[j].refs[a]
                 PROVE  k = j /\ b = a
      BY <2>5 DEF Unshared
    <3>1. j \in 1..m /\ k \in 1..m
      BY <2>7, <2>8, <2>11
    <3> QED BY <2>2, <2>5, <2>10, <3>1 DEF CopiesInv, Unshared
  <2>13. CopiesApart'
    <3> SUFFICES ASSUME NEW j \in 1..Len(classes') \ together',
                        NEW a \in DOMAIN classes'[j].refs \cap Public
                 PROVE  objects'[classes'[j].refs[a]] = promised'[j][a]
      BY DEF CopiesApart
    <3>1. j \in 1..m /\ j \notin together
      BY <2>1, <2>5, <2>7, <2>8
    <3> QED BY <2>1, <2>2, <2>5, <2>6, <3>1 DEF CopiesInv, CopiesApart
  <2> QED BY <2>9, <2>12, <2>13 DEF CopiesInv
<1>6. CASE AppendTo
  BY <1>6, AppendStep
<1>7. CASE UNCHANGED copyVars
  <2>1. UNCHANGED <<classes, objects, promised, together, appends>>
    BY <1>7 DEF copyVars
  <2>2. CopiesTypeOK'
    <3>1. CopiesTypeOK
      BY DEF CopiesInv
    <3> QED
      BY <2>1, <3>1 DEF CopiesTypeOK
  <2>3. Unshared'
    BY <2>1 DEF CopiesInv, Unshared, Own
  <2>4. CopiesApart'
    BY <2>1 DEF CopiesInv, CopiesApart
  <2> QED
    BY <2>2, <2>3, <2>4 DEF CopiesInv
<1> QED
  BY <1>2, <1>3, <1>4, <1>5, <1>6, <1>7 DEF CopiesNext

\* CopiesApart for any attributes and any number of classes and appends, in whatever
\* order classes are copied, copied again and changed: what is appended to an attribute
\* that can be copied shows in no other class, unless deep_copy=False put the two
\* together (copy_class, copy_class_simple, Mocker).
THEOREM CopiesStayApart == CopiesSpec => []CopiesApart
<1>1. CopiesInit => CopiesInv
  BY CopiesStart
<1>2. CopiesInv /\ [CopiesNext]_copyVars => CopiesInv'
  BY CopiesStep
<1>3. CopiesInv => CopiesApart
  BY DEF CopiesInv
<1> QED
  BY <1>1, <1>2, <1>3, PTL DEF CopiesSpec

-----------------------------------------------------------------------------
(* Objects that are read and written by attribute and by item *)

\* The keys there can be, the values a dict can hold, and the dicts.
Keys == AttrKeys \cup Numbers
Values == Vals \cup {Default}
Dicts == UNION {[names -> Values] : names \in SUBSET Keys}

\* The classes whose objects are dicts themselves, and all of them.
Plain == {"DictObject", "OrderedDictObject"}
Classes == Plain \cup {"Mocker", "namedtuple", "dictable", "dataclass"}

Objects ==
  [class : Classes, dict : Dicts, base : Dicts, fields : Seq(AttrKeys), read_only : BOOLEAN,
   raw : BOOLEAN, mode : Modes, ref : {1, 2}]

Holds(f, k, v) == Has(f, k) /\ f[k] = v

\* Where the value last written to a key is: l has it, d are the items.
PlainOK(o, d, l) == DOMAIN o.dict \subseteq Methods /\ \A k \in DOMAIN l \ Methods : Holds(d, k, l[k])

MockerOK(o, d, l) == \A k \in DOMAIN l : Holds(d, k, l[k])

TupleOK(o, d, l) ==
  /\ (DOMAIN o.dict \cup DOMAIN d) \ Methods \subseteq Range(o.fields)
  /\ \A k \in DOMAIN l \cap DOMAIN o.base : l[k] = o.base[k]
  /\ \A k \in DOMAIN l \ (DOMAIN o.base \cup Methods) : Has(o.dict, k) => l[k] = o.dict[k]
  /\ \A k \in DOMAIN l \ (DOMAIN o.base \cup DOMAIN o.dict \cup Methods) : Holds(d, k, l[k])

DictableOK(o, d, l) == \A k \in DOMAIN l : Holds(o.dict, k, l[k])

DataOK(o, d, l) ==
  /\ ~o.raw => \A k \in DOMAIN l : Holds(o.dict, k, l[k])
  /\ o.raw => /\ DOMAIN o.dict = Fields
              /\ \A k \in DOMAIN l \ (Methods \cup LateFields) :
                   \/ Has(o.dict, k) /\ Has(d, k)
                   \/ Has(o.dict, k) /\ l[k] = o.dict[k]
                   \/ ~Has(o.dict, k) /\ Holds(d, k, l[k])

ObjectOK(o, d, l) ==
  /\ o.class \in Plain => PlainOK(o, d, l)
  /\ o.class = "Mocker" => MockerOK(o, d, l)
  /\ o.class = "namedtuple" => TupleOK(o, d, l)
  /\ o.class = "dictable" => DictableOK(o, d, l)
  /\ o.class = "dataclass" => DataOK(o, d, l)

RecordsTypeOK ==
  /\ objs \in Seq(Objects) /\ items \in Seq(Dicts) /\ last \in Seq(Dicts)
  /\ Len(items) = Len(last)
  /\ \A i \in 1..Len(objs) : objs[i].ref \in 1..Len(items)
  /\ Len(objs) = 1 => Len(items) = 1

\* Only Mockers share a dict.
Sharing ==
  \A i, j \in 1..Len(objs) :
    i # j /\ objs[i].ref = objs[j].ref => objs[i].class = "Mocker" /\ objs[j].class = "Mocker"

RecordsInv ==
  /\ RecordsTypeOK /\ Sharing
  /\ \A i \in 1..Len(objs) : ObjectOK(objs[i], items[objs[i].ref], last[objs[i].ref])

-----------------------------------------------------------------------------

\* What a dict is: a function on some of the keys.  The empty one is a dict.
LEMMA DictsAre ==
  /\ \A f \in Dicts : /\ DOMAIN f \subseteq Keys /\ \A k \in DOMAIN f : f[k] \in Values
                      /\ f \in [DOMAIN f -> Values]
  /\ \A names \in SUBSET Keys : \A f \in [names -> Values] : f \in Dicts
  /\ <<>> \in Dicts /\ DOMAIN <<>> = {}
<1>1. <<>> \in [{} -> Values]
  OBVIOUS
<1> QED BY <1>1 DEF Dicts

\* Item assignment: the key has the value, the others keep theirs.
LEMMA WithIs ==
  ASSUME NEW f \in Dicts, NEW k \in Keys, NEW v \in Values
  PROVE  /\ With(f, k, v) \in Dicts
         /\ DOMAIN With(f, k, v) = DOMAIN f \cup {k} /\ With(f, k, v)[k] = v
         /\ \A x \in DOMAIN f \ {k} : With(f, k, v)[x] = f[x]
<1>1. With(f, k, v) \in [DOMAIN f \cup {k} -> Values]
  BY DictsAre DEF With
<1> QED BY <1>1, DictsAre DEF With

\* dict.update: the second dict's values where it has any, else the first one's.
LEMMA UpdateIs ==
  ASSUME NEW f \in Dicts, NEW g \in Dicts
  PROVE  /\ Update(f, g) \in Dicts /\ DOMAIN Update(f, g) = DOMAIN f \cup DOMAIN g
         /\ \A k \in DOMAIN g : Update(f, g)[k] = g[k]
         /\ \A k \in DOMAIN f \ DOMAIN g : Update(f, g)[k] = f[k]
<1>1. Update(f, g) \in [DOMAIN f \cup DOMAIN g -> Values]
  BY DictsAre DEF Update, Has
<1> QED BY <1>1, DictsAre DEF Update, Has

\* The kinds of names are apart from each other, and no value is the absent one.
LEMMA Distinct ==
  /\ Absent \notin Values
  /\ Fields \cap LateFields = {} /\ FieldNames \cap (Methods \cup Extras) = {}
  /\ Methods \cap Extras = {} /\ AttrKeys \cap Numbers = {}
  /\ FieldNames = Fields \cup LateFields /\ AttrKeys = FieldNames \cup Methods \cup Extras
  /\ Keys = AttrKeys \cup Numbers
BY RecordsAssumption DEF RecordsAssumption, Values, FieldNames, AttrKeys, Keys

-----------------------------------------------------------------------------
(* Reading *)

\* What ReadsLastWrite says of one object.
Reads(o) ==
  /\ \A k \in DOMAIN last[o.ref] : ~Hidden(o, k) =>
       /\ GetItem(o, k) = last[o.ref][k]
       /\ k \notin Numbers => GetAttr(o, k) = last[o.ref][k]
  /\ \A k \in DOMAIN CastOf(o) : ~Hidden(o, k) => CastOf(o)[k] = GetItem(o, k)
  /\ o.class = "namedtuple" =>
       \A n \in 1..Len(o.fields) :
         TupleGetIndex(o, n) # Absent => TupleGetIndex(o, n) = GetAttr(o, o.fields[n])
  /\ o.class = "dictable" =>
       \A k \in AttrKeys : DictableGet(o, k) # Absent => DictableGet(o, k) = GetItem(o, k)

\* An object where the last value is where it should be reads as ReadsLastWrite says.
LEMMA ReadsOK ==
  ASSUME NEW o \in Objects, items[o.ref] \in Dicts, last[o.ref] \in Dicts,
         ObjectOK(o, items[o.ref], last[o.ref])
  PROVE  Reads(o)
<1> DEFINE d == items[o.ref]
           l == last[o.ref]
<1>1. CASE o.class \in Plain
  <2>1. \A k : GetItem(o, k) = Look(d, k) /\ GetAttr(o, k) = DictGetAttr(o, k) /\ CastOf(o) = d
    BY <1>1 DEF Plain, GetItem, GetAttr, CastOf
  <2>2. PlainOK(o, d, l)
    BY <1>1 DEF ObjectOK
  <2>3. ASSUME NEW k \in DOMAIN l, ~Hidden(o, k)
        PROVE  GetItem(o, k) = l[k] /\ GetAttr(o, k) = l[k]
    BY <1>1, <2>1, <2>2, <2>3 DEF Plain, PlainOK, Hidden, DictGetAttr, Holds, Look, Has
  <2>4. \A k \in DOMAIN d : d[k] = GetItem(o, k)
    BY <2>1 DEF Look, Has
  <2> QED BY <1>1, <2>1, <2>3, <2>4 DEF Plain, Reads
<1>2. CASE o.class = "Mocker"
  <2>1. \A k : GetItem(o, k) = MockGetAttr(o, k) /\ GetAttr(o, k) = MockGetAttr(o, k) /\ CastOf(o) = <<>>
    BY <1>2 DEF GetItem, GetAttr, CastOf, None
  <2>2. ASSUME NEW k \in DOMAIN l, ~Hidden(o, k)
        PROVE  GetItem(o, k) = l[k] /\ GetAttr(o, k) = l[k]
    BY <1>2, <2>1, <2>2 DEF ObjectOK, MockerOK, Hidden, MockGetAttr, Holds
  <2> QED BY <1>2, <2>1, <2>2 DEF Reads
<1>3. CASE o.class = "namedtuple"
  <2>1. \A k : GetItem(o, k) = TupleGetAttr(o, k) /\ GetAttr(o, k) = TupleGetAttr(o, k)
    BY <1>3 DEF GetItem, GetAttr
  <2>2. ASSUME NEW k \in DOMAIN l, ~Hidden(o, k)
        PROVE  GetItem(o, k) = l[k] /\ GetAttr(o, k) = l[k]
    BY <1>3, <2>1, <2>2 DEF ObjectOK, TupleOK, Hidden, TupleGetAttr, Holds, Look, Has
  <2>3. \A k \in DOMAIN CastOf(o) : CastOf(o)[k] = GetItem(o, k)
    BY <1>3, <2>1 DEF CastOf, TupleIter
  <2>4. \A n \in 1..Len(o.fields) :
          TupleGetIndex(o, n) # Absent => TupleGetIndex(o, n) = GetAttr(o, o.fields[n])
    BY <2>1 DEF TupleGetIndex, TupleGetAttr, Look, Has
  <2> QED BY <1>3, <2>2, <2>3, <2>4 DEF Reads
<1>4. CASE o.class = "dictable"
  <2>1. \A k : GetItem(o, k) = DictableGetItem(o, k) /\ GetAttr(o, k) = DictableGetItem(o, k)
    BY <1>4 DEF GetItem, GetAttr
  <2>2. \A k \in DOMAIN l : GetItem(o, k) = l[k] /\ GetAttr(o, k) = l[k]
    BY <1>4, <2>1 DEF ObjectOK, DictableOK, DictableGetItem, Holds
  <2>3. \A k \in DOMAIN CastOf(o) : CastOf(o)[k] = GetItem(o, k)
    BY <1>4, <2>1 DEF CastOf, DictableIter, DictableGetItem, Has
  <2>4. \A k \in AttrKeys : DictableGet(o, k) # Absent => DictableGet(o, k) = GetItem(o, k)
    BY <2>1 DEF DictableGet
  <2> QED BY <1>4, <2>2, <2>3, <2>4 DEF Reads
<1>5. CASE o.class = "dataclass"
  <2>1. \A k : GetItem(o, k) = DataGetItem(o, k) /\ GetAttr(o, k) = DataGetAttr(o, k)
               /\ CastOf(o) = DataIter(o)
    BY <1>5 DEF GetItem, GetAttr, CastOf
  <2>2. DataOK(o, d, l)
    BY <1>5 DEF ObjectOK
  <2>3. o.dict \in Dicts /\ o.raw \in BOOLEAN
    BY DEF Objects
  <2>4. ASSUME NEW k \in DOMAIN l, ~Hidden(o, k)
        PROVE  GetItem(o, k) = l[k] /\ (k \notin Numbers => GetAttr(o, k) = l[k])
    <3>1. k \notin Methods /\ l[k] # Absent
      BY <1>5, <2>4, DictsAre, Distinct DEF Hidden
    <3>2. CASE ~o.raw
      BY <2>1, <2>2, <3>1, <3>2 DEF DataOK, DataGetItem, DataGetAttr, Holds
    <3>3. CASE o.raw
      <4>1. k \notin LateFields /\ ~(Has(o.dict, k) /\ Has(d, k)) /\ DOMAIN o.dict = Fields
        BY <1>5, <2>2, <2>4, <3>3 DEF Hidden, DataOK
      <4>2. CASE Has(o.dict, k)
        <5>1. l[k] = o.dict[k] /\ k \in Fields /\ k \notin Numbers
          BY <2>2, <3>1, <3>3, <4>1, <4>2, Distinct DEF DataOK, Has
        <5> QED BY <2>1, <3>1, <3>3, <4>2, <5>1 DEF DataGetItem, DataGetAttr
      <4>3. CASE ~Has(o.dict, k)
        <5>1. Look(d, k) = l[k] /\ k \notin FieldNames
          BY <2>2, <3>1, <3>3, <4>1, <4>3, Distinct DEF DataOK, Has, Look, Holds
        <5> QED BY <2>1, <3>1, <3>3, <4>3, <5>1 DEF DataGetItem, DataGetAttr
      <4> QED BY <4>2, <4>3
    <3> QED BY <2>3, <3>2, <3>3
  <2>5. ASSUME NEW k \in DOMAIN CastOf(o), ~Hidden(o, k)
        PROVE  CastOf(o)[k] = GetItem(o, k)
    <3> DEFINE dict_dc == [x \in FieldNames |-> DataGetAttr(o, x)]
               dict_rd == IF o.raw THEN d ELSE None
    <3>1. k \notin Methods
      BY <1>5, <2>5 DEF Hidden
    <3>2. ASSUME k \in FieldNames PROVE DataGetItem(o, k) = dict_dc[k]
      <4>1. k \notin Numbers /\ dict_dc[k] = DataGetAttr(o, k)
        BY <3>2, Distinct
      <4>2. CASE Has(o.dict, k)
        <5>1. DataGetAttr(o, k) = o.dict[k] /\ o.dict[k] # Absent
          BY <2>3, <4>2, DictsAre, Distinct DEF DataGetAttr, Has
        <5> QED BY <4>1, <5>1 DEF DataGetItem
      <4>3. CASE ~Has(o.dict, k)
        <5>1. DataGetAttr(o, k) = Default /\ Default # Absent
          BY <3>1, <3>2, <4>3, Distinct DEF DataGetAttr, Values
        <5> QED BY <4>1, <5>1 DEF DataGetItem
      <4> QED BY <4>2, <4>3
    <3>3. ASSUME o.raw, k \in DOMAIN d PROVE k \notin FieldNames /\ DataGetItem(o, k) = d[k]
      <4>1. k \notin LateFields /\ ~Has(o.dict, k) /\ DOMAIN o.dict = Fields
        BY <1>5, <2>2, <2>5, <3>3 DEF Hidden, DataOK, Has
      <4>2. k \notin FieldNames
        BY <4>1, Distinct DEF Has
      <4>3. Look(d, k) = d[k]
        BY <3>3 DEF Look, Has
      <4>4. DataGetAttr(o, k) = d[k]
        BY <3>1, <3>3, <4>1, <4>2, <4>3 DEF DataGetAttr
      <4>5. d[k] # Absent
        BY <3>3, DictsAre, Distinct
      <4> QED BY <3>3, <4>2, <4>3, <4>4, <4>5 DEF DataGetItem
    <3>4. DOMAIN dict_rd = IF o.raw THEN DOMAIN d ELSE {}
      BY DictsAre DEF None
    <3>5. CastOf(o) = CASE o.mode = "merge_dc" -> Update(dict_rd, dict_dc)
                        [] o.mode = "merge_rd" -> Update(dict_dc, dict_rd)
                        [] o.mode = "raw"      -> dict_rd
                        [] OTHER               -> dict_dc
      BY <2>1 DEF DataIter
    <3>6. DOMAIN dict_dc = FieldNames
      OBVIOUS
    <3> HIDE DEF dict_dc
    <3>7. ASSUME NEW f, NEW g, k \in DOMAIN Update(f, g)
          PROVE  \/ k \in DOMAIN g /\ Update(f, g)[k] = g[k]
                 \/ k \in DOMAIN f /\ k \notin DOMAIN g /\ Update(f, g)[k] = f[k]
      BY <3>7 DEF Update, Has
    <3>8. k \in DOMAIN dict_rd => o.raw /\ k \in DOMAIN d /\ dict_rd[k] = d[k]
      BY <3>4
    <3> HIDE DEF dict_rd
    <3>9. CASE o.mode = "merge_dc"
      <4>1. CastOf(o) = Update(dict_rd, dict_dc)
        BY <3>5, <3>9
      <4>2. \/ k \in DOMAIN dict_dc /\ CastOf(o)[k] = dict_dc[k]
            \/ k \in DOMAIN dict_rd /\ k \notin DOMAIN dict_dc /\ CastOf(o)[k] = dict_rd[k]
        BY <2>5, <3>7, <4>1
      <4> QED BY <2>1, <3>2, <3>3, <3>6, <3>8, <4>2
    <3>10. CASE o.mode = "merge_rd"
      <4>1. CastOf(o) = Update(dict_dc, dict_rd)
        BY <3>5, <3>10
      <4>2. \/ k \in DOMAIN dict_rd /\ CastOf(o)[k] = dict_rd[k]
            \/ k \in DOMAIN dict_dc /\ k \notin DOMAIN dict_rd /\ CastOf(o)[k] = dict_dc[k]
        BY <2>5, <3>7, <4>1
      <4> QED BY <2>1, <3>2, <3>3, <3>6, <3>8, <4>2
    <3>11. CASE o.mode = "raw"
      <4>1. CastOf(o) = dict_rd
        BY <3>5, <3>11
      <4> QED BY <2>1, <2>5, <3>3, <3>8, <4>1
    <3>12. CASE o.mode \notin {"merge_dc", "merge_rd", "raw"}
      <4>1. CastOf(o) = dict_dc
        BY <3>5, <3>12
      <4> QED BY <2>1, <2>5, <3>2, <3>6, <4>1
    <3> QED BY <3>9, <3>10, <3>11, <3>12
  <2> QED BY <1>5, <2>4, <2>5 DEF Reads
<1> QED
  BY <1>1, <1>2, <1>3, <1>4, <1>5 DEF Objects, Classes

-----------------------------------------------------------------------------
(* Writing *)

\* An object after a value has been written to a place of it.
Written(o, k, v, place) ==
  [o EXCEPT !.dict = IF place = "dict" THEN With(@, k, v) ELSE @,
            !.fields = IF o.class = "namedtuple" THEN TupleFields(o, k, place) ELSE @]

ItemsAfter(d, k, v, place) == IF place = "items" THEN With(d, k, v) ELSE d
LastAfter(l, k, v, place) == IF place = "refused" THEN l ELSE With(l, k, v)

\* What a write leaves as it was, and the types of what it changes.
LEMMA WrittenIs ==
  ASSUME NEW o \in Objects, NEW d \in Dicts, NEW l \in Dicts, NEW k \in Keys, NEW v \in Vals,
         NEW place, o.class = "namedtuple" => k \in AttrKeys
  PROVE  /\ Written(o, k, v, place) \in Objects
         /\ ItemsAfter(d, k, v, place) \in Dicts /\ LastAfter(l, k, v, place) \in Dicts
         /\ Written(o, k, v, place).class = o.class /\ Written(o, k, v, place).base = o.base
         /\ Written(o, k, v, place).raw = o.raw /\ Written(o, k, v, place).ref = o.ref
         /\ Written(o, k, v, place).dict = IF place = "dict" THEN With(o.dict, k, v) ELSE o.dict
         /\ o.class = "namedtuple" => Written(o, k, v, place).fields = TupleFields(o, k, place)
<1>1. v \in Values
  BY DEF Values
<1>2. With(d, k, v) \in Dicts /\ With(l, k, v) \in Dicts /\ With(o.dict, k, v) \in Dicts
  BY <1>1, WithIs DEF Objects
<1>3. o.class = "namedtuple" => TupleFields(o, k, place) \in Seq(AttrKeys)
  <2>1. o.fields \in Seq(AttrKeys)
    BY DEF Objects
  <2> QED BY <2>1 DEF TupleFields
<1> QED BY <1>2, <1>3 DEF Written, ItemsAfter, LastAfter, Objects

\* A write to the place an object has for the key leaves the last value where the object looks for it.
LEMMA WriteOK ==
  ASSUME NEW o \in Objects, items[o.ref] \in Dicts, last[o.ref] \in Dicts,
         ObjectOK(o, items[o.ref], last[o.ref]),
         NEW k \in KeysOf(o.class) \cup Numbers, NEW v \in Vals,
         k \in Numbers => o.class = "dataclass" /\ o.raw,
         NEW place \in {AttrPlace(o, k), ItemPlace(o, k)}
  PROVE  ObjectOK(Written(o, k, v, place), ItemsAfter(items[o.ref], k, v, place),
                  LastAfter(last[o.ref], k, v, place))
<1> DEFINE d == items[o.ref]
           l == last[o.ref]
           w == Written(o, k, v, place)
           e == ItemsAfter(d, k, v, place)
           m == LastAfter(l, k, v, place)
<1>1. k \in Keys /\ v \in Values /\ (o.class = "namedtuple" => k \in AttrKeys)
  BY Distinct DEF KeysOf, Values
<1>2. /\ w.class = o.class /\ w.base = o.base /\ w.raw = o.raw
      /\ w.dict = IF place = "dict" THEN With(o.dict, k, v) ELSE o.dict
      /\ o.class = "namedtuple" => w.fields = TupleFields(o, k, place)
      /\ e = IF place = "items" THEN With(d, k, v) ELSE d
      /\ m = IF place = "refused" THEN l ELSE With(l, k, v)
  BY <1>1, WrittenIs DEF ItemsAfter, LastAfter
<1>3. \A f \in {d, l, o.dict} :
        /\ DOMAIN With(f, k, v) = DOMAIN f \cup {k} /\ With(f, k, v)[k] = v
        /\ \A x \in DOMAIN f \ {k} : With(f, k, v)[x] = f[x]
  <2>1. d \in Dicts /\ l \in Dicts /\ o.dict \in Dicts
    BY DEF Objects
  <2> HIDE DEF d, l
  <2> SUFFICES ASSUME NEW f \in Dicts
               PROVE  /\ DOMAIN With(f, k, v) = DOMAIN f \cup {k} /\ With(f, k, v)[k] = v
                      /\ \A x \in DOMAIN f \ {k} : With(f, k, v)[x] = f[x]
    BY <2>1
  <2> QED BY DEF With
<1> HIDE DEF w, e, m
<1>4. CASE o.class \in Plain
  <2>1. k \in Methods \cup Extras /\ k \notin Numbers
    BY <1>4 DEF KeysOf, Plain
  <2>2. place = "items" \/ (place = "dict" /\ k \in Methods)
    BY <1>4 DEF AttrPlace, ItemPlace, DictSetAttr, Plain
  <2>3. PlainOK(o, d, l)
    BY <1>4 DEF ObjectOK
  <2>4. PlainOK(w, e, m)
    BY <1>2, <1>3, <2>2, <2>3 DEF PlainOK, Holds, Has
  <2> QED BY <1>2, <1>4, <2>4 DEF ObjectOK, Plain, w, e, m
<1>5. CASE o.class = "Mocker"
  <2>1. place = "items"
    BY <1>5 DEF AttrPlace, ItemPlace, MockSetAttr
  <2>2. MockerOK(o, d, l)
    BY <1>5 DEF ObjectOK
  <2>3. MockerOK(w, e, m)
    BY <1>2, <1>3, <2>1, <2>2 DEF MockerOK, Holds, Has
  <2> QED BY <1>2, <1>5, <2>3 DEF ObjectOK, Plain, w, e, m
<1>6. CASE o.class = "namedtuple"
  <2>1. TupleOK(o, d, l) /\ o.fields \in Seq(AttrKeys)
    BY <1>6 DEF ObjectOK, Objects
  <2>2. \/ place = "refused" /\ w.fields = o.fields
        \/ place = "dict" /\ k \in Range(o.fields) \cup Methods /\ k \notin DOMAIN o.base /\ w.fields = o.fields
        \/ /\ place = "items" /\ k \notin DOMAIN o.base /\ (k \in Methods \/ k \notin DOMAIN o.dict)
           /\ w.fields = IF k \notin Range(o.fields) THEN Append(o.fields, k) ELSE o.fields
    <3>1. place \in {TupleSetAttr(o, k), TupleSetItem(o, k)}
      BY <1>6 DEF AttrPlace, ItemPlace
    <3>2. w.fields = TupleFields(o, k, place)
      BY <1>2, <1>6
    <3>3. ASSUME place = TupleSetItem(o, k), TupleGetAttr(o, k) # Absent, ~Has(o.base, k)
          PROVE  k \in Range(o.fields) \cup Methods
      BY <2>1, <3>3 DEF TupleGetAttr, TupleOK, Look, Has
    <3>4. ASSUME place = TupleSetItem(o, k), TupleGetAttr(o, k) = Absent, ~Has(o.base, k)
          PROVE  k \notin DOMAIN o.dict
      <4>1. ASSUME k \in DOMAIN o.dict PROVE FALSE
        <5>1. o.dict[k] # Absent
          BY <4>1, DictsAre, Distinct DEF Objects
        <5> QED BY <3>4, <4>1, <5>1 DEF TupleGetAttr, Has
      <4> QED BY <4>1
    <3> QED BY <2>1, <3>1, <3>2, <3>3, <3>4 DEF TupleOK, TupleSetAttr, TupleSetItem, TupleFields, Has
  <2>3. /\ Range(w.fields) = Range(o.fields) \/ Range(w.fields) = Range(o.fields) \cup {k}
        /\ place = "items" => k \in Range(w.fields)
    <3>1. Range(Append(o.fields, k)) = Range(o.fields) \cup {k}
      <4>1. /\ DOMAIN o.fields = 1..Len(o.fields) /\ DOMAIN Append(o.fields, k) = 1..Len(o.fields) + 1
            /\ Append(o.fields, k)[Len(o.fields) + 1] = k /\ Len(o.fields) \in Nat
            /\ \A n \in 1..Len(o.fields) : Append(o.fields, k)[n] = o.fields[n]
        BY <2>1
      <4>2. \A n \in 1..Len(o.fields) + 1 : n \in 1..Len(o.fields) \/ n = Len(o.fields) + 1
        BY <4>1
      <4>3. Len(o.fields) + 1 \in 1..Len(o.fields) + 1 /\ 1..Len(o.fields) \subseteq 1..Len(o.fields) + 1
        BY <4>1
      <4> QED BY <4>1, <4>2, <4>3 DEF Range
    <3>2. CASE place = "items" /\ k \notin Range(o.fields)
      BY <2>2, <3>1, <3>2
    <3>3. CASE ~(place = "items" /\ k \notin Range(o.fields))
      BY <2>2, <3>3
    <3> QED BY <3>2, <3>3
  <2>4. TupleOK(w, e, m)
    BY <1>2, <1>3, <2>1, <2>2, <2>3 DEF TupleOK, Holds, Has
  <2> QED BY <1>2, <1>6, <2>4 DEF ObjectOK, Plain, w, e, m
<1>7. CASE o.class = "dictable"
  <2>1. place = "dict"
    BY <1>7 DEF AttrPlace, ItemPlace, DictableSetItem
  <2>2. DictableOK(o, d, l)
    BY <1>7 DEF ObjectOK
  <2>3. DictableOK(w, e, m)
    BY <1>2, <1>3, <2>1, <2>2 DEF DictableOK, Holds, Has
  <2> QED BY <1>2, <1>7, <2>3 DEF ObjectOK, Plain, w, e, m
<1>8. CASE o.class = "dataclass"
  <2>1. DataOK(o, d, l)
    BY <1>8 DEF ObjectOK
  <2>2. place \in {DataSetAttr(o, k), DataSetItem(o, k)}
    BY <1>8 DEF AttrPlace, ItemPlace
  <2>3. CASE ~o.raw
    <3>1. place = "dict"
      BY <2>2, <2>3 DEF DataSetAttr, DataSetItem
    <3> QED BY <1>2, <1>3, <1>8, <2>1, <2>3, <3>1 DEF ObjectOK, Plain, DataOK, Holds, Has, w, e, m
  <2>4. CASE o.raw
    <3>1. \/ place = "dict" /\ Has(o.dict, k)
          \/ place = "items" /\ (Has(d, k) \/ ~Has(o.dict, k))
      <4>1. k \in Numbers => ~Has(o.dict, k)
        BY <2>1, <2>4, Distinct DEF DataOK, Has
      <4> QED BY <2>2, <2>4, <4>1 DEF DataSetAttr, DataSetItem
    <3>2. DOMAIN w.dict = Fields
      BY <1>2, <1>3, <2>1, <2>4, <3>1 DEF DataOK, Has
    <3>3. ASSUME NEW x \in DOMAIN m \ (Methods \cup LateFields)
          PROVE  \/ Has(w.dict, x) /\ Has(e, x)
                 \/ Has(w.dict, x) /\ m[x] = w.dict[x]
                 \/ ~Has(w.dict, x) /\ Holds(e, x, m[x])
      <4>1. CASE x = k
        BY <1>2, <1>3, <3>1, <4>1 DEF Has, Holds
      <4>2. CASE x # k
        <5>1. x \in DOMAIN l \ (Methods \cup LateFields) /\ m[x] = l[x]
          BY <1>2, <1>3, <3>1, <4>2
        <5>2. /\ x \in DOMAIN w.dict <=> x \in DOMAIN o.dict
              /\ x \in DOMAIN o.dict => w.dict[x] = o.dict[x]
              /\ x \in DOMAIN e <=> x \in DOMAIN d
              /\ x \in DOMAIN d => e[x] = d[x]
          BY <1>2, <1>3, <4>2
        <5> QED BY <2>1, <2>4, <5>1, <5>2 DEF DataOK, Has, Holds
      <4> QED BY <4>1, <4>2
    <3>4. DataOK(w, e, m)
      BY <1>2, <2>4, <3>2, <3>3 DEF DataOK
    <3> QED BY <1>2, <1>8, <3>4 DEF ObjectOK, Plain, w, e, m
  <2>5. o.raw \in BOOLEAN
    BY DEF Objects
  <2> QED BY <2>3, <2>4, <2>5
<1> QED
  BY <1>4, <1>5, <1>6, <1>7, <1>8 DEF Objects, Classes

\* The other objects with that dict, which are Mockers like the one written to.
LEMMA OthersOK ==
  ASSUME NEW o \in Objects, NEW d \in Dicts, NEW l \in Dicts, ObjectOK(o, d, l), o.class = "Mocker",
         NEW k \in Keys, NEW v \in Vals
  PROVE  ObjectOK(o, With(d, k, v), With(l, k, v))
<1>1. v \in Values
  BY DEF Values
<1>2. /\ DOMAIN With(d, k, v) = DOMAIN d \cup {k} /\ DOMAIN With(l, k, v) = DOMAIN l \cup {k}
      /\ With(d, k, v)[k] = v /\ With(l, k, v)[k] = v
      /\ \A x \in DOMAIN d \ {k} : With(d, k, v)[x] = d[x]
      /\ \A x \in DOMAIN l \ {k} : With(l, k, v)[x] = l[x]
  BY DEF With
<1>3. MockerOK(o, With(d, k, v), With(l, k, v))
  BY <1>2 DEF ObjectOK, MockerOK, Holds, Has
<1> QED BY <1>3 DEF ObjectOK, Plain

\* A write keeps the invariant: of this object, of those that share its dict, and of the others.
LEMMA WriteStep ==
  ASSUME RecordsInv, NEW i \in 1..Len(objs), NEW k \in KeysOf(objs[i].class) \cup Numbers, NEW v \in Vals,
         k \in Numbers => objs[i].class = "dataclass" /\ objs[i].raw,
         NEW place \in {AttrPlace(objs[i], k), ItemPlace(objs[i], k)},
         Write(i, k, v, place)
  PROVE  RecordsInv'
<1> DEFINE o == objs[i]
           w == Written(o, k, v, place)
           e == ItemsAfter(items[o.ref], k, v, place)
           m == LastAfter(last[o.ref], k, v, place)
<1>1. /\ objs \in Seq(Objects) /\ items \in Seq(Dicts) /\ last \in Seq(Dicts)
      /\ Len(items) = Len(last) /\ Len(objs) \in Nat /\ Len(items) \in Nat
      /\ \A j \in 1..Len(objs) : objs[j] \in Objects /\ objs[j].ref \in 1..Len(items)
      /\ \A n \in 1..Len(items) : items[n] \in Dicts /\ last[n] \in Dicts
  BY DEF RecordsInv, RecordsTypeOK
<1>2. k \in Keys /\ (o.class = "namedtuple" => k \in AttrKeys)
  BY Distinct DEF KeysOf
<1>3. /\ w \in Objects /\ e \in Dicts /\ m \in Dicts
      /\ w.class = o.class /\ w.ref = o.ref
  BY <1>1, <1>2, WrittenIs
<1>4. ObjectOK(w, e, m)
  BY <1>1, WriteOK DEF RecordsInv
<1>5. /\ objs' \in Seq(Objects) /\ Len(objs') = Len(objs)
      /\ \A j \in 1..Len(objs) : objs'[j] = IF j = i THEN w ELSE objs[j]
  <2>1. objs' = [objs EXCEPT ![i] = w]
    BY DEF Write, Written
  <2> HIDE DEF w
  <2> QED BY <1>1, <1>3, <2>1
<1>6. /\ items' \in Seq(Dicts) /\ Len(items') = Len(items)
      /\ items'[o.ref] = e /\ \A n \in 1..Len(items) : n # o.ref => items'[n] = items[n]
  <2>1. items' = IF place = "items" THEN [items EXCEPT ![o.ref] = e] ELSE items
    BY DEF Write, ItemsAfter
  <2>2. place # "items" => e = items[o.ref]
    BY DEF ItemsAfter
  <2> HIDE DEF e
  <2> QED BY <1>1, <1>3, <2>1, <2>2
<1>7. /\ last' \in Seq(Dicts) /\ Len(last') = Len(last)
      /\ last'[o.ref] = m /\ \A n \in 1..Len(items) : n # o.ref => last'[n] = last[n]
  <2>1. last' = IF place = "refused" THEN last ELSE [last EXCEPT ![o.ref] = m]
    BY DEF Write, LastAfter
  <2>2. place = "refused" => m = last[o.ref]
    BY DEF LastAfter
  <2> HIDE DEF m
  <2> QED BY <1>1, <1>3, <2>1, <2>2
<1> HIDE DEF w, e, m
<1>8. RecordsTypeOK'
  BY <1>1, <1>3, <1>5, <1>6, <1>7 DEF RecordsInv, RecordsTypeOK
<1>9. Sharing'
  BY <1>3, <1>5 DEF RecordsInv, Sharing
<1>10. ASSUME NEW j \in 1..Len(objs')
       PROVE  ObjectOK(objs'[j], items'[objs'[j].ref], last'[objs'[j].ref])
  <2>1. CASE j = i
    BY <1>3, <1>4, <1>5, <1>6, <1>7, <2>1
  <2>2. CASE j # i /\ objs[j].ref # o.ref
    <3>1. ObjectOK(objs[j], items[objs[j].ref], last[objs[j].ref])
      BY <1>5 DEF RecordsInv
    <3>2. objs'[j] = objs[j] /\ objs[j].ref \in 1..Len(items)
      BY <1>1, <1>5, <2>2
    <3>3. items'[objs[j].ref] = items[objs[j].ref] /\ last'[objs[j].ref] = last[objs[j].ref]
      BY <1>6, <1>7, <2>2, <3>2
    <3> QED BY <3>1, <3>2, <3>3
  <2>3. CASE j # i /\ objs[j].ref = o.ref
    <3>1. objs[j].class = "Mocker" /\ o.class = "Mocker"
      BY <1>5, <2>3 DEF RecordsInv, Sharing
    <3>2. ObjectOK(objs[j], items[o.ref], last[o.ref])
      BY <1>5, <2>3 DEF RecordsInv
    <3>3. place = "items"
      BY <3>1 DEF AttrPlace, ItemPlace, MockSetAttr
    <3>4. e = With(items[o.ref], k, v) /\ m = With(last[o.ref], k, v)
      BY <3>3 DEF e, m, ItemsAfter, LastAfter
    <3>5. /\ objs[j] \in Objects /\ items[o.ref] \in Dicts /\ last[o.ref] \in Dicts
      BY <1>1, <1>5
    <3>6. ObjectOK(objs[j], e, m)
      BY <1>2, <3>1, <3>2, <3>4, <3>5, OthersOK
    <3> QED BY <1>5, <1>6, <1>7, <2>3, <3>6
  <2> QED BY <2>1, <2>2, <2>3
<1> QED
  BY <1>8, <1>9, <1>10 DEF RecordsInv

-----------------------------------------------------------------------------
(* New objects *)

\* A new object, and what has been given for it, fit each other.
Fits(new, given) ==
  /\ new.object \in Objects /\ new.object.ref = 1 /\ new.dict \in Dicts /\ given \in Dicts
  /\ ObjectOK(new.object, new.dict, given)
  /\ ObjectOK([new.object EXCEPT !.ref = 2], new.dict, given)

\* A new object of any class has nothing yet.
LEMMA ObjectIs ==
  ASSUME NEW class \in Classes
  PROVE  /\ Object(class) \in Objects /\ Object(class).class = class /\ Object(class).ref = 1
         /\ Object(class).dict = <<>> /\ Object(class).base = <<>>
<1>1. <<>> \in Dicts /\ <<>> \in Seq(AttrKeys)
  BY DictsAre
<1> QED BY <1>1 DEF Object, Objects, None, Modes

\* A DictObject, an OrderedDictObject and a Mocker hold what they are made of.
LEMMA NewObjectsFit ==
  ASSUME NEW data \in Dicts
  PROVE  Fits(DictObject(data), data) /\ Fits(OrderedDictObject(data), data) /\ Fits(Mocker(None, data), data)
<1>1. ASSUME NEW class \in Plain PROVE Fits(New(Object(class), data, None), data)
  <2>1. class \in Classes
    BY DEF Classes
  <2>2. PlainOK(Object(class), data, data) /\ PlainOK([Object(class) EXCEPT !.ref = 2], data, data)
    BY <2>1, ObjectIs, DictsAre DEF PlainOK, Holds, Has, Object, None
  <2> QED BY <1>1, <2>1, <2>2, ObjectIs DEF Fits, New, ObjectOK, Plain, Object
<1>2. Fits(New(Object("Mocker"), data, None), data)
  <2>1. MockerOK(Object("Mocker"), data, data) /\ MockerOK([Object("Mocker") EXCEPT !.ref = 2], data, data)
    BY DEF MockerOK, Holds, Has
  <2>2. "Mocker" \in Classes
    BY DEF Classes
  <2> QED BY <2>1, <2>2, ObjectIs DEF Fits, New, ObjectOK, Plain, Object
<1> QED BY <1>1, <1>2 DEF DictObject, OrderedDictObject, Mocker, Plain

\* A named tuple holds the values of its fields.
LEMMA NewTupleFits ==
  ASSUME NEW type, type.fields \in Seq(AttrKeys), type.read_only \in BOOLEAN, NEW values \in Dicts
  PROVE  Fits(NamedTuple(type, values), values)
<1> DEFINE o == [Object("namedtuple") EXCEPT !.base = values, !.fields = type.fields, !.read_only = type.read_only]
<1>1. <<>> \in Dicts /\ DOMAIN <<>> = {}
  BY DictsAre
<1>2. /\ o \in Objects /\ o.class = "namedtuple" /\ o.ref = 1 /\ o.dict = <<>> /\ o.base = values
      /\ [o EXCEPT !.ref = 2].class = "namedtuple" /\ [o EXCEPT !.ref = 2].dict = <<>>
      /\ [o EXCEPT !.ref = 2].base = values
  BY <1>1 DEF Object, Objects, None, Modes, Classes
<1>3. NamedTuple(type, values) = New(o, <<>>, <<>>)
  BY DEF NamedTuple, None
<1> HIDE DEF o
<1>4. TupleOK(o, <<>>, values) /\ TupleOK([o EXCEPT !.ref = 2], <<>>, values)
  BY <1>1, <1>2 DEF TupleOK, Has
<1> QED BY <1>1, <1>2, <1>3, <1>4 DEF Fits, New, ObjectOK, Plain

\* A value for each of the names: the one given, where one is.
LEMMA GivenIs ==
  ASSUME NEW values \in Dicts, NEW names \in SUBSET Keys
  PROVE  /\ Given(values, names) \in Dicts /\ DOMAIN Given(values, names) = names
         /\ \A k \in names \cap DOMAIN values : Given(values, names)[k] = values[k]
<1>1. Given(values, names) \in [names -> Values]
  BY DictsAre DEF Given, Has, Values
<1> QED BY <1>1, DictsAre DEF Given, Has

\* What a dictionary has for the fields.
LEMMA OfFieldsIs ==
  ASSUME NEW data \in Dicts
  PROVE  /\ OfFields(data) \in Dicts /\ DOMAIN OfFields(data) = FieldNames \cap DOMAIN data
         /\ \A k \in DOMAIN OfFields(data) : OfFields(data)[k] = data[k]
<1>1. OfFields(data) \in [FieldNames \cap DOMAIN data -> Values]
  BY DictsAre DEF OfFields, Restrict
<1>2. FieldNames \cap DOMAIN data \in SUBSET Keys
  BY DictsAre
<1> QED BY <1>1, <1>2, DictsAre DEF OfFields, Restrict

\* A Dictable made of a dictionary holds what that has for the fields.
LEMMA NewDictableFits ==
  ASSUME NEW data \in Dicts
  PROVE  Fits(DictableFromDict(data), OfFields(data))
<1> DEFINE l == OfFields(data)
           f == Given(l, FieldNames)
           o == [Object("dictable") EXCEPT !.dict = f]
<1>1. /\ f \in Dicts /\ l \in Dicts /\ <<>> \in Dicts
      /\ \A k \in DOMAIN l : k \in DOMAIN f /\ f[k] = l[k]
  <2>1. l \in Dicts /\ DOMAIN l \subseteq FieldNames
    BY OfFieldsIs
  <2>2. FieldNames \in SUBSET Keys
    BY Distinct
  <2> HIDE DEF l
  <2> QED BY <2>1, <2>2, GivenIs, DictsAre
<1>2. DictableFromDict(data) = New(o, <<>>, <<>>)
  BY DEF DictableFromDict, Dictable, None
<1> HIDE DEF f, l
<1>3. /\ o \in Objects /\ o.class = "dictable" /\ o.ref = 1 /\ o.dict = f
      /\ [o EXCEPT !.ref = 2].class = "dictable" /\ [o EXCEPT !.ref = 2].dict = f
  <2>1. <<>> \in Seq(AttrKeys)
    OBVIOUS
  <2> QED BY <1>1, <2>1 DEF Object, Objects, None, Modes, Classes
<1> HIDE DEF o
<1>4. DictableOK(o, <<>>, l) /\ DictableOK([o EXCEPT !.ref = 2], <<>>, l)
  BY <1>1, <1>3 DEF DictableOK, Holds, Has
<1> QED BY <1>1, <1>2, <1>3, <1>4 DEF Fits, New, ObjectOK, Plain, l

\* A DictDataClass made of a dictionary holds all of it, or what it has for the fields.
LEMMA NewDataFits ==
  ASSUME NEW data \in Dicts, NEW raw \in BOOLEAN, NEW mode \in Modes
  PROVE  Fits(DataFromDict(data, raw, mode), IF raw THEN data ELSE OfFields(data))
<1> DEFINE l == IF raw THEN data ELSE OfFields(data)
           f == Given(OfFields(data), IF raw THEN Fields ELSE FieldNames)
           lates == Given(OfFields(data), LateFields)
           d == IF raw THEN Update(data, lates) ELSE <<>>
           o == [Object("dataclass") EXCEPT !.dict = f, !.raw = raw, !.mode = mode]
<1>1. DataFromDict(data, raw, mode) = New(o, d, <<>>)
  BY DEF DataFromDict, DictDataClass, None
<1>2. /\ OfFields(data) \in Dicts /\ DOMAIN OfFields(data) = FieldNames \cap DOMAIN data
      /\ \A k \in DOMAIN OfFields(data) : OfFields(data)[k] = data[k]
  BY OfFieldsIs
<1>3. /\ f \in Dicts /\ DOMAIN f = IF raw THEN Fields ELSE FieldNames
      /\ \A k \in DOMAIN f \cap DOMAIN data : f[k] = data[k]
  <2>1. (IF raw THEN Fields ELSE FieldNames) \in SUBSET Keys /\ Fields \subseteq FieldNames
    BY Distinct
  <2> QED BY <1>2, <2>1, GivenIs
<1>4. lates \in Dicts /\ DOMAIN lates = LateFields
  BY <1>2, GivenIs, Distinct
<1>5. /\ d \in Dicts /\ l \in Dicts
      /\ raw => \A k \in DOMAIN data \ LateFields : k \in DOMAIN d /\ d[k] = data[k]
  <2> HIDE DEF lates
  <2>1. /\ Update(data, lates) \in Dicts /\ DOMAIN Update(data, lates) = DOMAIN data \cup LateFields
        /\ \A k \in DOMAIN data \ LateFields : Update(data, lates)[k] = data[k]
    BY <1>4, UpdateIs
  <2> QED BY <1>2, <2>1, DictsAre
<1>6. DOMAIN l = (IF raw THEN DOMAIN data ELSE FieldNames \cap DOMAIN data) /\ \A k \in DOMAIN l : l[k] = data[k]
  BY <1>2
<1> HIDE DEF f, d, l, lates
<1>7. /\ o \in Objects /\ o.class = "dataclass" /\ o.ref = 1 /\ o.dict = f /\ o.raw = raw
      /\ [o EXCEPT !.ref = 2].class = "dataclass" /\ [o EXCEPT !.ref = 2].dict = f
      /\ [o EXCEPT !.ref = 2].raw = raw
  <2>1. <<>> \in Dicts /\ <<>> \in Seq(AttrKeys)
    BY DictsAre
  <2> QED BY <1>3, <2>1 DEF Object, Objects, None, Modes, Classes
<1> HIDE DEF o
<1>8. ASSUME NEW x, x.dict = f, x.raw = raw PROVE DataOK(x, d, l)
  BY <1>3, <1>5, <1>6, <1>8 DEF DataOK, Holds, Has
<1>9. DataOK(o, d, l) /\ DataOK([o EXCEPT !.ref = 2], d, l)
  BY <1>7, <1>8
<1>10. ObjectOK(o, d, l) /\ ObjectOK([o EXCEPT !.ref = 2], d, l)
  BY <1>7, <1>9 DEF ObjectOK, Plain
<1>11. Fits(New(o, d, <<>>), l)
  BY <1>5, <1>7, <1>10 DEF Fits, New
<1> QED BY <1>1, <1>11 DEF l

-----------------------------------------------------------------------------

\* The fields in the order they are declared.
LEMMA FieldOrder == SetToSeq(FieldNames) \in Seq(AttrKeys)
<1>1. PICK n \in Nat : ExistsBijection(1..n, FieldNames)
  BY RecordsAssumption, FS_CountingElements, FS_CardinalityType DEF RecordsAssumption
<1>2. n = Cardinality(FieldNames)
  BY <1>1, RecordsAssumption, FS_CountingElements, FS_CardinalityType DEF RecordsAssumption
<1>3. \E f \in [1..Cardinality(FieldNames) -> FieldNames] : IsInjective(f)
  BY <1>1, <1>2 DEF ExistsBijection, Bijection, Injection, IsInjective
<1>4. SetToSeq(FieldNames) \in [1..Cardinality(FieldNames) -> FieldNames]
  BY <1>3 DEF SetToSeq
<1>5. SetToSeq(FieldNames) \in [1..n -> AttrKeys]
  BY <1>2, <1>4, Distinct
<1> QED BY <1>5

\* The object there is at first holds what it was made of.
LEMMA RecordsStart == RecordsInit => RecordsInv
<1> SUFFICES ASSUME RecordsInit PROVE RecordsInv
  OBVIOUS
<1>1. ASSUME NEW new, NEW given, Begins(new, given), Fits(new, given)
      PROVE  RecordsInv
  <2>1. /\ objs \in Seq(Objects) /\ items \in Seq(Dicts) /\ last \in Seq(Dicts)
        /\ Len(objs) = 1 /\ Len(items) = 1 /\ Len(last) = 1
        /\ objs[1] = new.object /\ items[1] = new.dict /\ last[1] = given
    BY <1>1 DEF Begins, Fits
  <2> QED BY <1>1, <2>1 DEF Fits, RecordsInv, RecordsTypeOK, Sharing
<1>2. PICK keys \in SUBSET AttrKeys, v \in Vals, raw \in BOOLEAN, read_only \in BOOLEAN, mode \in Modes :
        LET data == [k \in keys |-> v]
            type == dictable_namedtuple(SetToSeq(FieldNames), read_only)
        IN  \/ /\ keys \subseteq Methods \cup Extras
               /\ \E new \in {DictObject(data), OrderedDictObject(data), Mocker(None, data)} : Begins(new, data)
            \/ /\ keys = FieldNames
               /\ Begins(NamedTuple(type, data), data)
            \/ Begins(DictableFromDict(data), OfFields(data))
            \/ Begins(DataFromDict(data, raw, mode), IF raw THEN data ELSE OfFields(data))
  BY DEF RecordsInit
<1> DEFINE data == [k \in keys |-> v]
           type == dictable_namedtuple(SetToSeq(FieldNames), read_only)
<1>3. data \in Dicts
  <2>1. data \in [keys -> Values] /\ keys \in SUBSET Keys
    BY DEF Keys, Values
  <2> QED BY <2>1 DEF Dicts
<1>4. type.fields \in Seq(AttrKeys) /\ type.read_only \in BOOLEAN
  BY FieldOrder DEF dictable_namedtuple, make_dict_tuple
<1>5. \/ \E new \in {DictObject(data), OrderedDictObject(data), Mocker(None, data)} : Begins(new, data)
      \/ Begins(NamedTuple(type, data), data)
      \/ Begins(DictableFromDict(data), OfFields(data))
      \/ Begins(DataFromDict(data, raw, mode), IF raw THEN data ELSE OfFields(data))
  BY <1>2
<1> HIDE DEF data, type
<1>6. CASE \E new \in {DictObject(data), OrderedDictObject(data), Mocker(None, data)} : Begins(new, data)
  BY <1>1, <1>3, <1>6, NewObjectsFit
<1>7. CASE Begins(NamedTuple(type, data), data)
  BY <1>1, <1>3, <1>4, <1>7, NewTupleFits
<1>8. CASE Begins(DictableFromDict(data), OfFields(data))
  BY <1>1, <1>3, <1>8, NewDictableFits
<1>9. CASE Begins(DataFromDict(data, raw, mode), IF raw THEN data ELSE OfFields(data))
  BY <1>1, <1>3, <1>9, NewDataFits
<1> QED BY <1>5, <1>6, <1>7, <1>8, <1>9

\* Appending to a sequence of one.
LEMMA SecondIs ==
  ASSUME NEW S, NEW s \in Seq(S), NEW x \in S
  PROVE  /\ Append(s, x) \in Seq(S)
         /\ Len(s) = 1 => Len(Append(s, x)) = 2 /\ Append(s, x)[1] = s[1] /\ Append(s, x)[2] = x
<1>1. /\ Append(s, x) \in Seq(S) /\ Len(Append(s, x)) = Len(s) + 1
      /\ \A i \in 1..Len(s) : Append(s, x)[i] = s[i]
      /\ Append(s, x)[Len(s) + 1] = x
  BY AppendProperties
<1> DEFINE t == Append(s, x)
<1>2. t \in Seq(S) /\ Len(t) = Len(s) + 1 /\ (\A i \in 1..Len(s) : t[i] = s[i]) /\ t[Len(s) + 1] = x
  BY <1>1
<1> HIDE DEF t
<1>3. Len(s) = 1 => Len(t) = 2 /\ t[1] = s[1] /\ t[2] = x
  BY <1>2
<1> QED BY <1>2, <1>3 DEF t

\* One more object, with dicts of its own.
LEMMA AddsStep ==
  ASSUME RecordsInv, Len(objs) = 1, NEW new, NEW given, Fits(new, given), Adds(new, given)
  PROVE  RecordsInv'
<1> DEFINE o == [new.object EXCEPT !.ref = 2]
<1>1. /\ objs \in Seq(Objects) /\ items \in Seq(Dicts) /\ last \in Seq(Dicts)
      /\ Len(items) = 1 /\ Len(last) = 1 /\ objs[1].ref = 1
  BY DEF RecordsInv, RecordsTypeOK
<1>2. o \in Objects /\ o.ref = 2
  BY DEF Fits, Objects
<1>3. ObjectOK(o, new.dict, given) /\ new.dict \in Dicts /\ given \in Dicts
  BY DEF Fits
<1>4. objs' = Append(objs, o) /\ items' = Append(items, new.dict) /\ last' = Append(last, given)
  BY DEF Adds
<1> HIDE DEF o
<1>5. /\ objs' \in Seq(Objects) /\ items' \in Seq(Dicts) /\ last' \in Seq(Dicts)
      /\ Len(objs') = 2 /\ Len(items') = 2 /\ Len(last') = 2
      /\ objs'[1] = objs[1] /\ items'[1] = items[1] /\ last'[1] = last[1]
      /\ objs'[2] = o /\ items'[2] = new.dict /\ last'[2] = given
  <2>1. objs' \in Seq(Objects) /\ Len(objs') = 2 /\ objs'[1] = objs[1] /\ objs'[2] = o
    BY <1>1, <1>2, <1>4, SecondIs
  <2>2. items' \in Seq(Dicts) /\ Len(items') = 2 /\ items'[1] = items[1] /\ items'[2] = new.dict
    BY <1>1, <1>3, <1>4, SecondIs
  <2>3. last' \in Seq(Dicts) /\ Len(last') = 2 /\ last'[1] = last[1] /\ last'[2] = given
    BY <1>1, <1>3, <1>4, SecondIs
  <2> QED BY <2>1, <2>2, <2>3
<1>6. \A i \in 1..Len(objs') : i = 1 \/ i = 2
  BY <1>5
<1>7. RecordsTypeOK' /\ Sharing'
  BY <1>1, <1>2, <1>5, <1>6 DEF RecordsTypeOK, Sharing
<1>8. ObjectOK(objs[1], items[1], last[1])
  BY <1>1 DEF RecordsInv
<1>9. \A i \in 1..Len(objs') : ObjectOK(objs'[i], items'[objs'[i].ref], last'[objs'[i].ref])
  BY <1>1, <1>2, <1>3, <1>5, <1>6, <1>8
<1> QED BY <1>7, <1>9 DEF RecordsInv

\* Every step keeps the invariant.
LEMMA RecordsStep ==
  ASSUME RecordsInv, [RecordsNext]_recordVars
  PROVE  RecordsInv'
<1>1. CASE SetAttr
  <2>1. PICK i \in 1..Len(objs), v \in Vals :
          \E k \in KeysOf(objs[i].class) : Write(i, k, v, AttrPlace(objs[i], k))
    BY <1>1 DEF SetAttr
  <2>2. PICK k \in KeysOf(objs[i].class) : Write(i, k, v, AttrPlace(objs[i], k))
    BY <2>1
  <2>3. k \notin Numbers
    BY Distinct DEF KeysOf
  <2>4. k \in KeysOf(objs[i].class) \cup Numbers
    OBVIOUS
  <2> DEFINE place == AttrPlace(objs[i], k)
  <2>5. place \in {AttrPlace(objs[i], k), ItemPlace(objs[i], k)} /\ Write(i, k, v, place)
    BY <2>2
  <2> HIDE DEF place
  <2> QED BY <2>3, <2>4, <2>5, WriteStep
<1>2. CASE SetItem
  <2>1. PICK i \in 1..Len(objs), v \in Vals : \E k \in KeysOf(objs[i].class) \cup Numbers :
          /\ k \in Numbers => objs[i].class = "dataclass" /\ objs[i].raw
          /\ Write(i, k, v, ItemPlace(objs[i], k))
    BY <1>2 DEF SetItem
  <2>2. PICK k \in KeysOf(objs[i].class) \cup Numbers :
          /\ k \in Numbers => objs[i].class = "dataclass" /\ objs[i].raw
          /\ Write(i, k, v, ItemPlace(objs[i], k))
    BY <2>1
  <2> DEFINE place == ItemPlace(objs[i], k)
  <2>3. place \in {AttrPlace(objs[i], k), ItemPlace(objs[i], k)} /\ Write(i, k, v, place)
    BY <2>2
  <2> HIDE DEF place
  <2> QED BY <2>2, <2>3, WriteStep
<1>3. CASE add_mock_module \/ add_mock_modules \/ UNCHANGED recordVars
  <2>1. objs' = objs /\ items' = items /\ last' = last
    BY <1>3 DEF add_mock_module, add_mock_modules, recordVars
  <2> QED BY <2>1 DEF RecordsInv, RecordsTypeOK, Sharing
<1>4. CASE _duplicate_ins
  <2>1. /\ Len(objs) = 1 /\ objs[1].class = "Mocker" /\ objs' = Append(objs, objs[1])
        /\ items' = items /\ last' = last
    BY <1>4 DEF _duplicate_ins
  <2>2. objs \in Seq(Objects) /\ objs[1] \in Objects
    BY <2>1 DEF RecordsInv, RecordsTypeOK
  <2>3. objs' \in Seq(Objects) /\ Len(objs') = 2 /\ \A i \in 1..Len(objs') : objs'[i] = objs[1]
    <3>1. objs' \in Seq(Objects) /\ Len(objs') = 2 /\ objs'[1] = objs[1] /\ objs'[2] = objs[1]
      BY <2>1, <2>2, SecondIs
    <3>2. \A i \in 1..2 : i = 1 \/ i = 2
      OBVIOUS
    <3> QED BY <3>1, <3>2
  <2> QED BY <2>1, <2>3 DEF RecordsInv, RecordsTypeOK, Sharing
<1>5. CASE make_mock_class
  <2>1. PICK keys \in SUBSET Extras, v \in Vals :
          Adds(Mocker(None, [k \in keys |-> v]), [k \in keys |-> v])
    BY <1>5 DEF make_mock_class
  <2> DEFINE attributes == [k \in keys |-> v]
  <2>2. attributes \in Dicts
    <3>1. attributes \in [keys -> Values] /\ keys \in SUBSET Keys
      BY Distinct DEF Values
    <3> QED BY <3>1 DEF Dicts
  <2>3. Adds(Mocker(None, attributes), attributes) /\ Len(objs) = 1
    BY <1>5, <2>1 DEF make_mock_class
  <2> HIDE DEF attributes
  <2>4. Fits(Mocker(None, attributes), attributes)
    BY <2>2, NewObjectsFit
  <2> QED BY <2>3, <2>4, AddsStep
<1>6. CASE convert_dictable_namedtuple
  <2> DEFINE o == objs[1]
             base == TupleIter(o)
  <2>1. /\ Len(objs) = 1 /\ o.class = "namedtuple" /\ Range(o.fields) = DOMAIN o.base
        /\ o \in Objects
    BY <1>6 DEF convert_dictable_namedtuple, RecordsInv, RecordsTypeOK
  <2>2. base \in Dicts
    <3>1. o.base \in Dicts
      BY <2>1 DEF Objects
    <3>2. base \in [DOMAIN o.base -> Values]
      BY <2>1, <3>1, DictsAre DEF TupleIter, TupleGetAttr, Has
    <3> QED BY <3>1, <3>2, DictsAre
  <2>3. PICK read_only \in BOOLEAN :
          Adds(NamedTuple(subclass_dictable_namedtuple(dictable_namedtuple(o.fields, o.read_only), read_only), base),
               base)
    BY <1>6 DEF convert_dictable_namedtuple
  <2> DEFINE type == subclass_dictable_namedtuple(dictable_namedtuple(o.fields, o.read_only), read_only)
  <2>4. type.fields \in Seq(AttrKeys) /\ type.read_only \in BOOLEAN
    BY <2>1 DEF subclass_dictable_namedtuple, dictable_namedtuple, make_dict_tuple, Objects
  <2>5. Adds(NamedTuple(type, base), base)
    BY <2>3
  <2> HIDE DEF type, base
  <2>6. Fits(NamedTuple(type, base), base)
    BY <2>2, <2>4, NewTupleFits
  <2> QED BY <2>1, <2>5, <2>6, AddsStep
<1> QED
  BY <1>1, <1>2, <1>3, <1>4, <1>5, <1>6 DEF RecordsNext

\* ReadsLastWrite for any fields, names and values: whatever is written to an object of
\* collections.py by attribute or by item, and in whatever order, is read back both ways,
\* but for the names Hidden lists (DictObject, Mocker, make_dict_tuple, Dictable and
\* DictDataClass).
THEOREM WritesAreReadBack == RecordsSpec => []ReadsLastWrite
<1>1. RecordsInit => RecordsInv
  BY RecordsStart
<1>2. RecordsInv /\ [RecordsNext]_recordVars => RecordsInv'
  BY RecordsStep
<1>3. RecordsInv => ReadsLastWrite
  <2> SUFFICES ASSUME RecordsInv, NEW i \in 1..Len(objs) PROVE Reads(objs[i])
    BY DEF ReadsLastWrite, Reads
  <2>1. /\ objs[i] \in Objects /\ items[objs[i].ref] \in Dicts /\ last[objs[i].ref] \in Dicts
        /\ ObjectOK(objs[i], items[objs[i].ref], last[objs[i].ref])
    BY DEF RecordsInv, RecordsTypeOK
  <2> QED BY <2>1, ReadsOK
<1> QED
  BY <1>1, <1>2, <1>3, PTL DEF RecordsSpec

-----------------------------------------------------------------------------
(* Lists of addresses *)

\* The least of some numbers.
LEMMA Least ==
  ASSUME NEW S, S \subseteq Nat, S # {}
  PROVE  \E m \in S : \A n \in S : m <= n
<1> DEFINE R == {ss \in Nat \X Nat : ss[1] < ss[2]}
<1>1. IsWellFoundedOn(R, Nat)
  BY NatLessThanWellFounded DEF OpToRel
<1>2. PICK m \in S : \A n \in S : <<n, m>> \notin R
  <2> HIDE DEF R
  <2> QED
    BY <1>1, WFMin
<1>3. ASSUME NEW n \in S PROVE m <= n
  <2>1. <<n, m>> \in Nat \X Nat /\ <<n, m>>[1] = n /\ <<n, m>>[2] = m
    OBVIOUS
  <2>2. n < m => <<n, m>> \in R
    <3> SUFFICES ASSUME n < m PROVE <<n, m>> \in R
      OBVIOUS
    <3>1. <<n, m>>[1] < <<n, m>>[2]
      BY <2>1
    <3> QED
      BY ONLY <2>1, <3>1
  <2> QED
    BY <1>2, <2>2
<1> QED
  BY <1>3

\* The places up to m.
UpTo(places, m) == {j \in places : j <= m}

\* No place is up to 0; up to m there are those up to m - 1, and m if it is one.
LEMMA UpToGrows ==
  ASSUME NEW places, \A j \in places : j \in Nat /\ 1 <= j
  PROVE  /\ UpTo(places, 0) = {}
         /\ \A m \in Nat : /\ m \in places => UpTo(places, m) = UpTo(places, m - 1) \cup {m}
                           /\ m \notin places => UpTo(places, m) = UpTo(places, m - 1)
<1>1. UpTo(places, 0) = {}
  <2>1. \A j \in places : ~(j <= 0)
    OBVIOUS
  <2> QED
    BY <2>1 DEF UpTo
<1>2. ASSUME NEW m \in Nat, m \in places
      PROVE  UpTo(places, m) = UpTo(places, m - 1) \cup {m}
  <2>1. \A j \in places : j <= m <=> j <= m - 1 \/ j = m
    OBVIOUS
  <2> QED
    BY <1>2, <2>1 DEF UpTo
<1>3. ASSUME NEW m \in Nat, m \notin places
      PROVE  UpTo(places, m) = UpTo(places, m - 1)
  <2>1. \A j \in places : j <= m <=> j <= m - 1
    BY <1>3
  <2> QED
    BY <2>1 DEF UpTo
<1> QED
  BY <1>1, <1>2, <1>3

\* There is a k-th place, and it is one of the places: the first up to which there are k.
LEMMA KthIs ==
  ASSUME NEW n \in Nat, NEW places \in SUBSET (1..n), NEW k \in 1..Cardinality(places)
  PROVE  Kth(places, k) \in places
<1> DEFINE size(m) == Cardinality(UpTo(places, m))
           enough == {m \in 0..n : size(m) >= k}
<1>1. \A j \in places : j \in Nat /\ 1 <= j /\ j <= n
  OBVIOUS
<1>2. IsFiniteSet(places) /\ Cardinality(places) \in Nat
  <2>1. IsFiniteSet(1..n)
    BY FS_Interval
  <2> QED
    BY <2>1, FS_Subset, FS_CardinalityType
<1>3. UpTo(places, n) = places
  BY <1>1 DEF UpTo
<1>4. \A m : IsFiniteSet(UpTo(places, m)) /\ size(m) \in Nat
  <2>1. \A m : UpTo(places, m) \subseteq places
    BY DEF UpTo
  <2>2. \A m : IsFiniteSet(UpTo(places, m))
    BY <1>2, <2>1, FS_Subset
  <2> QED
    BY <2>2, FS_CardinalityType
<1>5. ASSUME NEW m \in Nat
      PROVE  /\ m \in places => size(m) = size(m - 1) + 1
             /\ m \notin places => size(m) = size(m - 1)
  <2>1. CASE m \in places
    <3>1. UpTo(places, m) = UpTo(places, m - 1) \cup {m}
      BY <1>1, <2>1, UpToGrows
    <3>2. m \notin UpTo(places, m - 1)
      BY DEF UpTo
    <3>3. size(m) = size(m - 1) + 1
      BY <1>4, <3>1, <3>2, FS_AddElement
    <3> QED
      BY ONLY <2>1, <3>3
  <2>2. CASE m \notin places
    <3>1. UpTo(places, m) = UpTo(places, m - 1)
      BY <1>1, <2>2, UpToGrows
    <3> QED
      BY <2>2, <3>1
  <2> QED
    BY <2>1, <2>2
<1>6. size(n) = Cardinality(places) /\ size(0) = 0
  <2>1. UpTo(places, 0) = {}
    BY <1>1, UpToGrows
  <2> QED
    BY <1>3, <2>1, FS_EmptySet
<1>7. \A m : size(m) \in Nat
  BY <1>4
<1> HIDE DEF size
<1>8. PICK m \in enough : \A l \in enough : m <= l
  <2>1. n \in enough /\ enough \subseteq Nat
    BY <1>2, <1>6
  <2> HIDE DEF enough
  <2> QED
    BY <2>1, Least
<1>9. m \in Nat /\ m <= n /\ size(m) >= k /\ k >= 1 /\ k \in Nat
  BY <1>2, <1>8
<1>10. m # 0
  BY <1>6, <1>9
<1>11. size(m - 1) < k
  <2>1. m - 1 \in 0..n /\ ~(m <= m - 1)
    BY <1>9, <1>10
  <2>2. m - 1 \notin enough
    <3> HIDE DEF enough
    <3> QED
      BY <1>8, <2>1
  <2>3. size(m - 1) \in Nat
    BY <1>7
  <2> QED
    BY <1>9, <2>1, <2>2, <2>3
<1>12. m \in places /\ size(m) = k
  <2>1. size(m) \in Nat /\ size(m - 1) \in Nat
    BY <1>7
  <2>2. /\ m \in places => size(m) = size(m - 1) + 1
        /\ m \notin places => size(m) = size(m - 1)
    BY <1>5, <1>9
  <2> HIDE DEF enough
  <2> QED
    BY <1>9, <1>11, <2>1, <2>2
<1> QED
  BY <1>12 DEF Kth, size, UpTo

\* A function from the first numbers is a list.
LEMMA FunctionsAreLists ==
  \A R : \A m \in Nat : \A w \in [1..m -> R] : w \in Seq(R) /\ Len(w) = m
OBVIOUS

\* What is kept of a list is in the list, at one of the places.
LEMMA KeptIs ==
  ASSUME NEW S, NEW list \in Seq(S), NEW places \in SUBSET DOMAIN list
  PROVE  /\ Kept(list, places) \in Seq(S)
         /\ \A k \in 1..Len(Kept(list, places)) : \E i \in places : Kept(list, places)[k] = list[i]
<1>1. DOMAIN list = 1..Len(list) /\ Len(list) \in Nat
  OBVIOUS
<1>2. Cardinality(places) \in Nat
  <2>1. IsFiniteSet(1..Len(list))
    BY <1>1, FS_Interval
  <2> QED
    BY <1>1, <2>1, FS_Subset, FS_CardinalityType
<1>3. \A k \in 1..Cardinality(places) : Kth(places, k) \in places
  BY <1>1, KthIs
<1>4. \A i \in places : list[i] \in S
  OBVIOUS
<1>5. Kept(list, places) \in [1..Cardinality(places) -> S]
  BY <1>3, <1>4 DEF Kept
<1>6. Kept(list, places) \in Seq(S) /\ Len(Kept(list, places)) = Cardinality(places)
  BY <1>2, <1>5
<1> QED
  BY <1>3, <1>6 DEF Kept

-----------------------------------------------------------------------------
(* Resolving *)

\* sock_ver leaves a version, or no demand for one, as it is.
LEMMA SockVer == \A v \in Versions : sock_ver(v) = v
BY DEF Versions, sock_ver, ip_ver_to_int

\* The families of addresses, and that they are addresses.
LEMMA Families ==
  /\ Family("v4") = V4 /\ Family("v6") = V6 \cup Mapped /\ Family("any") = V4 \cup V6
  /\ \A v \in Versions : Family(v) \subseteq Literals
BY DEF Versions, Family, Literals

\* An address suits a demand for a version: it is of that version, and an IPv4 address in
\* disguise only if that was allowed or asked for.
IsFit(ip, addr, version, v4_convert) ==
  /\ ip \in Literals
  /\ version # "any" => ip \in Family(version)
  /\ ip \in Mapped => v4_convert \/ ip = addr

\* An address of another version than the one asked for.
Wrong(addr, version) == addr \in Literals /\ version # "any" /\ addr \notin Family(version)

\* What the DNS may say.
Answer(version, heard) == heard = Fault \/ heard \in Seq(Family(version))

\* How a function ended.
LEMMA HowItEnds ==
  /\ \A v : Value(v).raises = "" /\ Value(v).value = v /\ Ok(Value(v))
  /\ \A e : Raise(e).raises = e /\ Raise(e).value = Nothing /\ (e # "" => ~Ok(Raise(e)))
BY DEF Value, Raise, Ok

\* What is_ip says of an address, and of a name.
LEMMA IsIp ==
  ASSUME NEW addr \in Hosts, NEW version \in Versions
  PROVE  /\ Wrong(addr, version) => is_ip(addr, version) = Raise("AttributeError")
         /\ addr \in Literals /\ ~Wrong(addr, version) => is_ip(addr, version) = Value(addr)
         /\ addr \notin Literals => is_ip(addr, version) = Value(Nothing)
BY AddressAssumption
DEF AddressAssumption, Hosts, is_ip, sock_validate_ip, Versions, ip_is_v4, Family, Literals, Wrong,
    Raise, Value

\* resolve_ips raises for an address of the wrong version, and otherwise returns addresses
\* that suit.
LEMMA Resolves ==
  ASSUME NEW addr \in Hosts, NEW version \in Versions, NEW v4_convert \in BOOLEAN,
         NEW heard, Answer(version, heard)
  PROVE  LET r == resolve_ips(addr, version, v4_convert, heard)
         IN  /\ Wrong(addr, version) => r = Raise("AttributeError")
             /\ ~Wrong(addr, version) =>
                  /\ Ok(r) /\ r.value \in Seq(Literals)
                  /\ \A k \in 1..Len(r.value) : IsFit(r.value[k], addr, version, v4_convert)
<1> DEFINE r == resolve_ips(addr, version, v4_convert, heard)
<1>1. CASE Wrong(addr, version)
  <2>1. is_ip(addr, version) = Raise("AttributeError") /\ ~Ok(Raise("AttributeError"))
    BY <1>1, IsIp, HowItEnds
  <2> QED
    BY <1>1, <2>1, SockVer DEF resolve_ips
<1>2. CASE addr \in Literals /\ ~Wrong(addr, version)
  <2>1. is_ip(addr, version) = Value(addr) /\ Ok(Value(addr)) /\ Value(addr).value # Nothing
    BY <1>2, IsIp, HowItEnds, NoneAssumption DEF NoneAssumption, Hosts
  <2>2. r = Value(<<addr>>)
    BY <2>1, SockVer DEF resolve_ips
  <2>3. <<addr>> \in Seq(Literals) /\ Len(<<addr>>) = 1 /\ <<addr>>[1] = addr
    BY <1>2
  <2>4. IsFit(addr, addr, version, v4_convert)
    BY <1>2 DEF IsFit, Wrong
  <2>5. Ok(r) /\ r.value = <<addr>>
    BY <2>2, HowItEnds
  <2> HIDE DEF r
  <2> QED
    BY <1>2, <2>3, <2>4, <2>5 DEF r
<1>3. CASE addr \notin Literals
  <2>1. is_ip(addr, version) = Value(Nothing) /\ Ok(Value(Nothing)) /\ Value(Nothing).value = Nothing
    BY <1>3, IsIp, HowItEnds
  <2>2. CASE heard = Fault
    <3>1. r = Value(<<>>)
      BY <2>1, <2>2, SockVer DEF resolve_ips
    <3>2. Ok(r) /\ r.value = <<>>
      BY <3>1, HowItEnds
    <3>3. <<>> \in Seq(Literals) /\ Len(<<>>) = 0
      OBVIOUS
    <3> HIDE DEF r
    <3> QED
      BY <1>3, <3>2, <3>3 DEF r, Wrong
  <2>3. CASE heard # Fault
    <3> DEFINE places == {i \in DOMAIN heard : v4_convert \/ heard[i] \notin Mapped}
               kept == Kept(heard, places)
    <3>1. heard \in Seq(Family(version))
      BY <2>3 DEF Answer
    <3>2. r = Value(kept)
      BY <2>1, <2>3, SockVer DEF resolve_ips
    <3>3. \A i \in places : i \in DOMAIN heard /\ IsFit(heard[i], addr, version, v4_convert)
      BY <3>1, Families DEF IsFit
    <3>4. places \in SUBSET DOMAIN heard
      OBVIOUS
    <3> HIDE DEF places
    <3>5. kept \in Seq(Family(version)) /\ \A k \in 1..Len(kept) : \E i \in places : kept[k] = heard[i]
      BY <3>1, <3>4, KeptIs
    <3>6. Ok(r) /\ r.value = kept
      BY <3>2, HowItEnds
    <3> HIDE DEF kept, r
    <3>7. kept \in Seq(Literals)
      BY <3>5, Families
    <3>8. \A k \in 1..Len(kept) : IsFit(kept[k], addr, version, v4_convert)
      BY <3>3, <3>5
    <3> QED
      BY <1>3, <3>6, <3>7, <3>8 DEF Wrong, r
  <2> QED
    BY <2>2, <2>3
<1> QED
  BY <1>1, <1>2, <1>3

\* resolve_ip gives the first of them, if any.
LEMMA ResolvesOne ==
  ASSUME NEW addr \in Hosts, NEW version \in Versions, NEW v4_convert \in BOOLEAN,
         NEW heard, Answer(version, heard)
  PROVE  LET r == resolve_ip(addr, version, v4_convert, heard)
         IN  /\ Wrong(addr, version) => r = Raise("AttributeError")
             /\ ~Wrong(addr, version) =>
                  Ok(r) /\ (r.value = Nothing \/ IsFit(r.value, addr, version, v4_convert))
<1> DEFINE s == resolve_ips(addr, version, v4_convert, heard)
           r == resolve_ip(addr, version, v4_convert, heard)
<1>1. r = First(s)
  BY DEF resolve_ip
<1>2. CASE Wrong(addr, version)
  BY <1>1, <1>2, Resolves, HowItEnds DEF First
<1>3. CASE ~Wrong(addr, version)
  <2>1. /\ Ok(s) /\ s.value \in Seq(Literals)
        /\ \A k \in 1..Len(s.value) : IsFit(s.value[k], addr, version, v4_convert)
    BY <1>3, Resolves
  <2> HIDE DEF s, r
  <2>2. CASE s.value = <<>>
    BY <1>1, <1>3, <2>1, <2>2, HowItEnds DEF First, r
  <2>3. CASE s.value # <<>>
    <3>1. 1 \in 1..Len(s.value)
      BY <2>1, <2>3
    <3>2. r = Value(s.value[1])
      BY <1>1, <2>1, <2>3 DEF First
    <3> QED
      BY <1>3, <2>1, <3>1, <3>2, HowItEnds DEF r
  <2> QED
    BY <2>2, <2>3
<1> QED
  BY <1>2, <1>3

-----------------------------------------------------------------------------
(* Checks of hosts *)

\* A check of a host ends with TRUE just if a server was met over the version asked for.
Shown(o) == o.met \in BOOLEAN /\ (o.result = Value(TRUE) <=> o.met)

\* What resolving a host's name comes to, for a check of it.
Found(ip, version) ==
  \/ ip.raises # ""
  \/ Ok(ip) /\ (ip.value = Nothing \/ (ip.value \in Literals /\ (version # "any" => ip.value \in Family(version))))

\* The only result that is TRUE is the value TRUE: no other value, and no exception.
LEMMA TrueOnly ==
  /\ \A b \in BOOLEAN : Value(b) = Value(TRUE) <=> b
  /\ \A e : e # "" => Raise(e) # Value(TRUE)
<1>1. \A b \in BOOLEAN : Value(b) = Value(TRUE) <=> b
  <2>1. Value(TRUE).value = TRUE /\ Value(FALSE).value = FALSE
    BY HowItEnds, Zenon
  <2>2. Value(FALSE) # Value(TRUE)
    BY <2>1, Zenon
  <2> QED
    BY <2>2
<1>2. \A e : Raise(e).raises = e /\ Value(TRUE).raises = ""
  BY HowItEnds
<1> QED
  BY <1>1, <1>2

\* A check that says TRUE has met a server; one that does not has met none.
LEMMA ReachedShown ==
  /\ Shown(Reached(Value(TRUE), TRUE))
  /\ \A r : r # Value(TRUE) => Shown(Reached(r, FALSE))
<1>1. \A r, met : Reached(r, met).result = r /\ Reached(r, met).met = met
  BY DEF Reached
<1>2. Shown(Reached(Value(TRUE), TRUE))
  BY <1>1, Zenon DEF Shown
<1>3. \A r : r # Value(TRUE) => Shown(Reached(r, FALSE))
  BY <1>1, Zenon DEF Shown
<1> QED
  BY <1>2, <1>3

\* So it is once there is an address, of the version asked for.
LEMMA ConnectionShown ==
  ASSUME NEW ip, NEW version \in Versions, NEW throw \in BOOLEAN, NEW server \in Servers,
         server = "answers" /\ version # "any" => ip \in Family(version)
  PROVE  Shown(Connection(ip, version, throw, server))
<1>1. CASE server = "answers"
  <2>1. sock_ver(version) = version
    BY SockVer
  <2>2. Connection(ip, version, throw, server) = Reached(Value(TRUE), TRUE)
    BY <1>1, <2>1 DEF Connection
  <2> QED
    BY <2>2, ReachedShown
<1>2. CASE server = "refuses"
  <2>1. Connection(ip, version, throw, server) =
          Reached(IF throw THEN Raise("ConnectionRefusedError") ELSE Value(FALSE), FALSE)
    BY <1>2 DEF Connection
  <2>2. Value(FALSE) # Value(TRUE) /\ Raise("ConnectionRefusedError") # Value(TRUE)
    BY TrueOnly
  <2> QED
    BY <2>1, <2>2, ReachedShown
<1>3. CASE server = "fails"
  <2>1. Connection(ip, version, throw, server) = Reached(Raise("OSError"), FALSE)
    BY <1>3 DEF Connection
  <2>2. Raise("OSError") # Value(TRUE)
    BY TrueOnly
  <2> QED
    BY <2>1, <2>2, ReachedShown
<1> QED
  BY <1>1, <1>2, <1>3 DEF Servers

\* So it is for whatever the host's name resolves to.
LEMMA ResolvedShown ==
  ASSUME NEW ip, NEW version \in Versions, NEW throw \in BOOLEAN, NEW server \in Servers,
         Found(ip, version)
  PROVE  Shown(Resolved(ip, version, throw, server))
<1>1. CASE ~Ok(ip)
  <2>1. Resolved(ip, version, throw, server) = Reached(ip, FALSE) /\ ip.raises # ""
    BY <1>1 DEF Resolved, Ok
  <2>2. ip # Value(TRUE)
    BY <2>1, HowItEnds
  <2> QED
    BY <2>1, <2>2, ReachedShown
<1>2. CASE Ok(ip) /\ ip.value = Nothing
  <2>1. Resolved(ip, version, throw, server) = Reached(Raise("ValueError"), FALSE)
    BY <1>2 DEF Resolved
  <2>2. Raise("ValueError") # Value(TRUE)
    BY TrueOnly
  <2> QED
    BY <2>1, <2>2, ReachedShown
<1>3. CASE Ok(ip) /\ ip.value # Nothing
  <2>1. Resolved(ip, version, throw, server) = Connection(ip.value, version, throw, server)
    BY <1>3 DEF Resolved
  <2>2. version # "any" => ip.value \in Family(version)
    BY <1>3 DEF Found, Ok
  <2> QED
    BY <2>1, <2>2, ConnectionShown
<1> QED
  BY <1>1, <1>2, <1>3

\* What a check hears of the DNS is addresses of the version asked for, or an exception.
LEMMA HeardAnswers ==
  ASSUME NEW version \in Versions, NEW heard \in HeardOf(version)
  PROVE  Answer(version, heard)
<1>1. sock_ver(version) = version
  BY SockVer
<1>2. <<>> \in Seq(Family(version))
  OBVIOUS
<1>3. \A h \in [1..1 -> Family(version)] : h \in Seq(Family(version))
  <2>1. 1 \in Nat
    OBVIOUS
  <2> QED
    BY <2>1, SeqDef
<1> QED
  BY <1>1, <1>2, <1>3 DEF HeardOf, Answer

\* Whichever function checks a host, it says TRUE just if the host answered.
LEMMA ChecksShown ==
  ASSUME NEW host \in Hosts, NEW version \in Versions, NEW throw \in BOOLEAN,
         NEW heard \in HeardOf(version), NEW server \in Servers
  PROVE  /\ Shown(base_check_host(host, version, throw, heard, server))
         /\ Shown(check_host(host, version, throw, heard, server))
         /\ Shown(check_host_async(host, version, throw, heard, server))
         /\ Shown(base_check_host_async(host, version, throw, heard, server))
<1>1. Found(resolve_ip(host, version, FALSE, heard), version)
  <2>1. Answer(version, heard)
    BY HeardAnswers
  <2>2. CASE Wrong(host, version)
    <3>1. resolve_ip(host, version, FALSE, heard) = Raise("AttributeError")
      BY <2>1, <2>2, ResolvesOne
    <3>2. resolve_ip(host, version, FALSE, heard).raises # ""
      BY <3>1, HowItEnds
    <3> QED
      BY <3>2 DEF Found
  <2>3. CASE ~Wrong(host, version)
    BY <2>1, <2>3, ResolvesOne DEF Found, IsFit
  <2> QED
    BY <2>2, <2>3
<1>2. resolve_ip_async(host, version, FALSE, heard) = resolve_ip(host, version, FALSE, heard)
  BY DEF resolve_ip, resolve_ip_async, resolve_ips_async
<1>3. Shown(Resolved(resolve_ip(host, version, FALSE, heard), version, throw, server))
  BY <1>1, ResolvedShown
<1>4. Shown(base_check_host_async(host, version, throw, heard, server))
  <2>1. CASE version = "any"
    BY <1>2, <1>3, <2>1, SockVer DEF base_check_host_async
  <2>2. CASE version # "any"
    <3> DEFINE ips == IF host \in Literals THEN <<host>> ELSE heard
               known == ips # Fault /\ ips # <<>> /\ ips[1] \in Family(version)
    <3>1. base_check_host_async(host, version, throw, heard, server) =
            IF known THEN Connection(ips[1], version, throw, server)
            ELSE Connection(Nothing, version, throw, "refuses")
      BY <2>2, SockVer DEF base_check_host_async
    <3>2. known => Shown(Connection(ips[1], version, throw, server))
      BY ConnectionShown
    <3>3. Shown(Connection(Nothing, version, throw, "refuses"))
      BY ConnectionShown DEF Servers
    <3> HIDE DEF ips
    <3> QED
      BY <3>1, <3>2, <3>3
  <2> QED
    BY <2>1, <2>2
<1> QED
  BY <1>2, <1>3, <1>4 DEF base_check_host, check_host, check_host_async

\* A test of a host and a port says TRUE just if the host answered, and that of a bad port never.
LEMMA TestsShown ==
  ASSUME NEW t \in Targets, NEW version \in Versions,
         NEW heard \in HeardOf(version), NEW server \in Servers
  PROVE  /\ Shown(_test_host(t, version, heard, server))
         /\ Shown(_test_host_async(t, version, heard, server))
<1>1. t.host \in Hosts
  BY DEF Targets
<1>2. Shown(Reached(Raise("ValueError"), FALSE))
  BY TrueOnly, ReachedShown
<1> QED
  BY <1>1, <1>2, ChecksShown
  DEF _test_host, _test_host_async, check_host_http, check_host_http_async

-----------------------------------------------------------------------------
(* The hosts to try *)

\* A finite set has its elements in a sequence.
LEMMA SetToSeqIs ==
  ASSUME NEW S, IsFiniteSet(S)
  PROVE  SetToSeq(S) \in Seq(S)
<1>1. \E f \in [1..Cardinality(S) -> S] : IsInjective(f)
  <2>1. PICK f : f \in Bijection(1..Cardinality(S), S)
    BY FS_CardinalityType DEF ExistsBijection
  <2>2. f \in [1..Cardinality(S) -> S] /\ \A i, j \in 1..Cardinality(S) : f[i] = f[j] => i = j
    BY <2>1, Zenon DEF Bijection, Injection, IsInjective
  <2> QED
    BY <2>2 DEF IsInjective
<1>2. SetToSeq(S) \in [1..Cardinality(S) -> S]
  BY <1>1 DEF SetToSeq
<1>3. Cardinality(S) \in Nat
  BY FS_CardinalityType
<1> QED
  BY <1>2, <1>3

\* No more than max hosts are tried, and each is a host and a port.
LEMMA Tried ==
  ASSUME NEW hosts \in Seq(Targets), NEW version, NEW max \in Nat, NEW left \in ToTry(hosts, version, max)
  PROVE  left \in Seq(Targets) /\ Len(left) <= max
<1>1. \A S \in {V4_TEST_HOSTS, V6_TEST_HOSTS} : \A s \in SUBSET S : SetToSeq(s) \in Seq(Targets)
  <2> SUFFICES ASSUME NEW S \in {V4_TEST_HOSTS, V6_TEST_HOSTS}, NEW s \in SUBSET S
               PROVE  SetToSeq(s) \in Seq(Targets)
    OBVIOUS
  <2>1. IsFiniteSet(S) /\ S \subseteq Targets
    BY HostChecksAssumption DEF HostChecksAssumption
  <2>2. SetToSeq(s) \in Seq(s)
    BY <2>1, FS_Subset, SetToSeqIs
  <2> QED
    BY <2>1, <2>2
<1>2. ASSUME NEW h \in Defaults(version, max)
      PROVE  h \in Seq(Targets)
  <2>1. CASE version = "v4"
    <3>1. PICK s \in SUBSET V4_TEST_HOSTS : h = SetToSeq(s)
      BY <1>2, <2>1 DEF Defaults, kSubset
    <3> QED
      BY <1>1, <3>1
  <2>2. CASE version = "v6"
    <3>1. PICK s \in SUBSET V6_TEST_HOSTS : h = SetToSeq(s)
      BY <1>2, <2>2 DEF Defaults, kSubset
    <3> QED
      BY <1>1, <3>1
  <2>3. CASE version \notin {"v4", "v6"}
    <3>1. PICK s \in SUBSET V4_TEST_HOSTS, t \in SUBSET V6_TEST_HOSTS :
            h = SetToSeq(s) \o SetToSeq(t)
      BY <1>2, <2>3 DEF Defaults, kSubset
    <3> QED
      BY <1>1, <3>1
  <2> QED
    BY <2>1, <2>2, <2>3
<1>3. PICK h \in Seq(Targets) : left = Cut(h, max)
  BY <1>2 DEF ToTry
<1>4. CASE Len(h) > max
  BY <1>3, <1>4 DEF Cut
<1>5. CASE ~(Len(h) > max)
  BY <1>3, <1>5 DEF Cut
<1> QED
  BY <1>4, <1>5

-----------------------------------------------------------------------------
(* Verdicts *)

\* The places of verdicts: for each version, in the cache of each adapter.
VerdictSlots == {"v4", "v6"} \X BOOLEAN

\* A verdict in the cache is that of a test of at most max_hosts hosts.
GoodVerdict(v) ==
  /\ plan.max_hosts \in Nat
  /\ v.met \in Nat /\ v.met <= plan.max_hosts
  /\ v.verdict \in BOOLEAN /\ (v.verdict <=> v.met >= NET_CHECK_HOST_COUNT)
  /\ v.at \in Nat /\ v.at <= clock
  /\ v.until = v.at + NET_CHECK_TIMEOUT

\* A test has counted as working the hosts that were met, and has no more than max_hosts to count.
GoodJob(j) ==
  /\ plan.max_hosts \in Nat
  /\ j \in [op : plan.ops, version : Versions, left : Seq(Targets), working : Nat, met : Nat]
  /\ j.version = VersionOf(j.op)
  /\ j.working = j.met
  /\ j.met + Len(j.left) <= plan.max_hosts

\* What VerdictJustified asks of what one caller was told.
Justified(t) ==
  \/ plan.max_hosts = NoLimit /\ t.verdict = Raise("TypeError") /\ t.met = 0
  \/ /\ t.verdict = Value(TRUE) <=> t.met >= Needed(t.version)
     /\ t.age <= NET_CHECK_TIMEOUT
     /\ t.version # "one" => Ok(t.verdict) /\ t.met <= plan.max_hosts

\* All the verdicts of the cache, all jobs and all that callers were told are good.
HostsInv ==
  /\ plan \in Plans /\ clock \in Nat
  /\ DOMAIN verdicts = VerdictSlots
  /\ \A slot \in VerdictSlots : verdicts[slot] # Nothing => GoodVerdict(verdicts[slot])
  /\ DOMAIN job = Callers
  /\ \A u \in Callers : job[u] # Nothing => GoodJob(job[u])
  /\ DOMAIN told = Callers
  /\ \A u \in Callers : told[u] # Nothing => Justified(told[u])

\* What a caller is told leaves what the others were told as it is.
LEMMA Told ==
  ASSUME HostsInv, NEW u \in Callers, NEW version, NEW verdict, NEW met, NEW at,
         Tell(u, version, verdict, met, at), UNCHANGED plan,
         Justified([version |-> version, verdict |-> verdict, met |-> met, age |-> clock - at])
  PROVE  DOMAIN told' = Callers /\ \A w \in Callers : told[w]' # Nothing => Justified(told[w])'
<1> DEFINE t == [version |-> version, verdict |-> verdict, met |-> met, age |-> clock - at]
<1>1. told' = [told EXCEPT ![u] = t] /\ DOMAIN told = Callers
  BY DEF Tell, HostsInv
<1>2. Justified(t)
  OBVIOUS
<1> HIDE DEF t
<1>3. DOMAIN told' = Callers /\ \A w \in Callers : told'[w] = IF w = u THEN t ELSE told[w]
  BY <1>1
<1>4. \A w \in Callers : told[w] # Nothing => Justified(told[w])
  BY DEF HostsInv
<1>5. \A w \in Callers : told'[w] # Nothing => Justified(told'[w])
  BY <1>2, <1>3, <1>4
<1> QED
  BY <1>3, <1>5 DEF Justified

\* A caller's new job, or none, leaves the others' jobs as they are.
LEMMA Jobs ==
  ASSUME HostsInv, NEW u \in Callers, NEW j, job' = [job EXCEPT ![u] = j], UNCHANGED plan,
         j # Nothing => GoodJob(j)
  PROVE  DOMAIN job' = Callers /\ \A w \in Callers : job[w]' # Nothing => GoodJob(job[w])'
<1>1. DOMAIN job' = Callers /\ \A w \in Callers : job'[w] = IF w = u THEN j ELSE job[w]
  BY DEF HostsInv
<1>2. \A w \in Callers : job'[w] # Nothing => GoodJob(job'[w])
  BY <1>1 DEF HostsInv
<1> QED
  BY <1>1, <1>2 DEF GoodJob

\* Neither time nor the other callers' calls spoil a verdict or a job.
LEMMA VerdictsKeep ==
  ASSUME HostsInv, UNCHANGED <<plan, verdicts>>, clock' \in Nat, clock' >= clock
  PROVE  DOMAIN verdicts' = VerdictSlots /\ \A slot \in VerdictSlots : verdicts[slot]' # Nothing => GoodVerdict(verdicts[slot])'
<1>1. \A slot \in VerdictSlots : verdicts[slot] # Nothing => GoodVerdict(verdicts[slot])
  BY DEF HostsInv
<1>2. \A v : GoodVerdict(v) => /\ plan'.max_hosts \in Nat
                               /\ v.met \in Nat /\ v.met <= plan'.max_hosts
                               /\ v.verdict \in BOOLEAN /\ (v.verdict <=> v.met >= NET_CHECK_HOST_COUNT)
                               /\ v.at \in Nat /\ v.at <= clock'
                               /\ v.until = v.at + NET_CHECK_TIMEOUT
  BY DEF HostsInv, GoodVerdict
<1> QED
  BY <1>1, <1>2 DEF HostsInv, GoodVerdict

\* Jobs nobody touches stay good.
LEMMA JobsKeep ==
  ASSUME HostsInv, UNCHANGED <<plan, job>>
  PROVE  DOMAIN job' = Callers /\ \A w \in Callers : job[w]' # Nothing => GoodJob(job[w])'
BY DEF HostsInv, GoodJob

\* What callers were told stays justified: the plan never changes.
LEMMA ToldKeep ==
  ASSUME HostsInv, UNCHANGED <<plan, told>>
  PROVE  DOMAIN told' = Callers /\ \A w \in Callers : told[w]' # Nothing => Justified(told[w])'
BY DEF HostsInv, Justified

\* An operation is for a version or for none; one that keeps verdicts has a place for its own.
LEMMA OfVersion ==
  /\ \A op : VersionOf(op) \in Versions
  /\ \A op \in Cached : Slot(op) \in VerdictSlots
BY DEF VersionOf, Versions, Cached, Slot, VerdictSlots

\* A verdict of the cache was that of a test, and is not yet past its time.
LEMMA CachedVerdictKeeps ==
  ASSUME HostsInv, NEW u \in Callers, CachedVerdict(u)
  PROVE  HostsInv'
<1>1. PICK op \in plan.ops \cap Cached :
        /\ Current(op)
        /\ Tell(u, VersionOf(op), Value(verdicts[Slot(op)].verdict), verdicts[Slot(op)].met, verdicts[Slot(op)].at)
  BY DEF CachedVerdict
<1> DEFINE v == verdicts[Slot(op)]
<1>2. UNCHANGED <<plan, clock, verdicts, job>>
  BY DEF CachedVerdict
<1>3. GoodVerdict(v) /\ v.until >= clock /\ clock \in Nat
  BY <1>1, OfVersion DEF Current, HostsInv
<1> DEFINE t == [version |-> VersionOf(op), verdict |-> Value(v.verdict), met |-> v.met, age |-> clock - v.at]
<1>4. Tell(u, VersionOf(op), Value(v.verdict), v.met, v.at)
  BY <1>1
<1> HIDE DEF v
<1>5. Justified(t)
  <2>1. v.verdict \in BOOLEAN /\ (v.verdict <=> v.met >= NET_CHECK_HOST_COUNT)
    BY <1>3 DEF GoodVerdict
  <2>2. Value(v.verdict) = Value(TRUE) <=> v.verdict
    BY <2>1, TrueOnly, Zenon
  <2>3. Value(v.verdict) = Value(TRUE) <=> v.met >= NET_CHECK_HOST_COUNT
    BY <2>1, <2>2
  <2>4. VersionOf(op) # "one"
    BY OfVersion DEF Versions
  <2>5. clock - v.at <= NET_CHECK_TIMEOUT
    BY <1>3, HostChecksAssumption DEF GoodVerdict, HostChecksAssumption
  <2>6. v.met <= plan.max_hosts
    BY <1>3 DEF GoodVerdict
  <2>7. Ok(Value(v.verdict))
    BY HowItEnds, Zenon
  <2>8. /\ t.verdict = Value(v.verdict) /\ t.met = v.met /\ t.version = VersionOf(op)
        /\ t.age = clock - v.at
    OBVIOUS
  <2> HIDE DEF t
  <2> QED
    BY <2>3, <2>4, <2>5, <2>6, <2>8, <2>7 DEF Justified, Needed
<1>6. DOMAIN told' = Callers /\ \A w \in Callers : told[w]' # Nothing => Justified(told[w])'
  BY <1>2, <1>4, <1>5, Told
<1> QED
  BY <1>2, <1>3, <1>6, VerdictsKeep, JobsKeep DEF HostsInv

\* A test begins with nothing counted and no more than max_hosts to try.
LEMMA StartTestKeeps ==
  ASSUME HostsInv, NEW u \in Callers, StartTest(u)
  PROVE  HostsInv'
<1>1. PICK op \in plan.ops \ Checks, hosts \in plan.lists \cup {<<>>} :
        IF plan.max_hosts = NoLimit
        THEN UNCHANGED job /\ Tell(u, VersionOf(op), Raise("TypeError"), 0, clock)
        ELSE /\ UNCHANGED told
             /\ \E left \in ToTry(hosts, VersionOf(op), plan.max_hosts) :
                  job' = [job EXCEPT ![u] = [op |-> op, version |-> VersionOf(op),
                                             left |-> left, working |-> 0, met |-> 0]]
  BY DEF StartTest
<1>2. UNCHANGED <<plan, clock, verdicts>> /\ clock \in Nat
  BY DEF StartTest, HostsInv
<1>3. CASE plan.max_hosts = NoLimit
  <2>1. Tell(u, VersionOf(op), Raise("TypeError"), 0, clock) /\ UNCHANGED job
    BY <1>1, <1>3
  <2>2. Justified([version |-> VersionOf(op), verdict |-> Raise("TypeError"), met |-> 0, age |-> clock - clock])
    BY <1>3 DEF Justified
  <2>3. DOMAIN told' = Callers /\ \A w \in Callers : told[w]' # Nothing => Justified(told[w])'
    BY <1>2, <2>1, <2>2, Told
  <2> QED
    BY <1>2, <2>1, <2>3, VerdictsKeep, JobsKeep DEF HostsInv
<1>4. CASE plan.max_hosts # NoLimit
  <2>1. plan \in Plans /\ plan.max_hosts \in Nat /\ hosts \in Seq(Targets)
    <3>1. plan \in Plans
      BY DEF HostsInv
    <3>2. plan.max_hosts \in Nat \cup {NoLimit} /\ plan.lists \subseteq Seq(Targets)
      BY <3>1, HostChecksAssumption DEF HostChecksAssumption
    <3>3. <<>> \in Seq(Targets)
      OBVIOUS
    <3>4. hosts \in Seq(Targets)
      BY <3>2, <3>3, Zenon
    <3>5. plan.max_hosts \in Nat
      BY <1>4, <3>2
    <3> QED
      BY <3>1, <3>4, <3>5
  <2>2. UNCHANGED told
    BY <1>1, <1>4
  <2>3. PICK left \in ToTry(hosts, VersionOf(op), plan.max_hosts) :
          job' = [job EXCEPT ![u] = [op |-> op, version |-> VersionOf(op),
                                     left |-> left, working |-> 0, met |-> 0]]
    BY <1>1, <1>4
  <2>4. left \in Seq(Targets) /\ Len(left) <= plan.max_hosts
    BY <2>1, Tried
  <2>5. GoodJob([op |-> op, version |-> VersionOf(op), left |-> left, working |-> 0, met |-> 0])
    BY <2>1, <2>4, OfVersion DEF GoodJob
  <2>6. DOMAIN job' = Callers /\ \A w \in Callers : job[w]' # Nothing => GoodJob(job[w])'
    BY <1>2, <2>3, <2>5, Jobs
  <2> QED
    BY <1>2, <2>2, <2>6, VerdictsKeep, ToldKeep DEF HostsInv
<1> QED
  BY <1>3, <1>4

\* A host counted: what is left is one less, and the counts stay the same.
LEMMA Counted ==
  ASSUME NEW j, GoodJob(j), NEW o, Shown(o), NEW left \in Seq(Targets), Len(left) = Len(j.left) - 1
  PROVE  GoodJob(Count(j, left, o))
<1> DEFINE n == IF o.met THEN 1 ELSE 0
<1>1. (IF o.result = Value(TRUE) THEN 1 ELSE 0) = n
  BY DEF Shown
<1>2. n \in {0, 1}
  OBVIOUS
<1> HIDE DEF n
<1> DEFINE c == [j EXCEPT !.left = left, !.working = @ + n, !.met = @ + n]
<1>3. Count(j, left, o) = c
  BY <1>1 DEF Count, n
<1>4. /\ j \in [op : plan.ops, version : Versions, left : Seq(Targets), working : Nat, met : Nat]
      /\ j.version = VersionOf(j.op) /\ j.working = j.met /\ j.met \in Nat
      /\ j.met + Len(j.left) <= plan.max_hosts /\ plan.max_hosts \in Nat
      /\ j.left \in Seq(Targets)
  BY DEF GoodJob
<1>5. /\ c.op = j.op /\ c.version = j.version /\ c.left = left
      /\ c.working = j.working + n /\ c.met = j.met + n
  BY <1>4
<1>6. c \in [op : plan.ops, version : Versions, left : Seq(Targets), working : Nat, met : Nat]
  <2>1. j.working + n \in Nat /\ j.met + n \in Nat
    BY <1>2, <1>4
  <2> QED
    BY <1>4, <2>1
<1>7. Len(j.left) \in Nat
  BY <1>4
<1> HIDE DEF c
<1>8. c.met + Len(c.left) <= plan.max_hosts
  BY <1>2, <1>4, <1>5, <1>7
<1>9. GoodJob(c)
  BY <1>4, <1>5, <1>6, <1>8 DEF GoodJob
<1> QED
  BY <1>3, <1>9

\* One host after another, or any of them: each is counted if it answered.
LEMMA TestHostsKeeps ==
  ASSUME HostsInv, NEW u \in Callers, test_hosts(u) \/ test_hosts_async(u)
  PROVE  HostsInv'
<1>1. UNCHANGED <<plan, clock, verdicts, told>> /\ clock \in Nat /\ GoodJob(job[u])
  BY DEF test_hosts, test_hosts_async, HostsInv
<1> DEFINE todo == job[u].left
<1>2. todo \in Seq(Targets) /\ job[u].version \in Versions
  BY <1>1 DEF GoodJob
<1>3. PICK left, o : /\ left \in Seq(Targets) /\ Len(left) = Len(todo) - 1 /\ Shown(o)
                     /\ job' = [job EXCEPT ![u] = Count(job[u], left, o)]
  <2>1. CASE test_hosts(u)
    <3>1. todo # <<>>
      BY <2>1 DEF test_hosts
    <3>2. PICK heard \in HeardOf(job[u].version), server \in Servers :
            job' = [job EXCEPT ![u] = Count(job[u], Tail(todo),
                                            _test_host(Head(todo), job[u].version, heard, server))]
      BY <2>1 DEF test_hosts
    <3>3. Head(todo) \in Targets /\ Tail(todo) \in Seq(Targets) /\ Len(Tail(todo)) = Len(todo) - 1
      BY <1>2, <3>1
    <3>4. Shown(_test_host(Head(todo), job[u].version, heard, server))
      BY <1>2, <3>3, TestsShown
    <3> HIDE DEF todo
    <3> QED
      BY <3>2, <3>3, <3>4
  <2>2. CASE test_hosts_async(u)
    <3>1. PICK i \in 1..Len(todo), heard \in HeardOf(job[u].version), server \in Servers :
            job' = [job EXCEPT ![u] = Count(job[u], RemoveAt(todo, i),
                                            _test_host_async(todo[i], job[u].version, heard, server))]
      BY <2>2 DEF test_hosts_async
    <3> HIDE DEF todo
    <3>2. todo[i] \in Targets /\ RemoveAt(todo, i) \in Seq(Targets)
          /\ Len(RemoveAt(todo, i)) = Len(todo) - 1
      <4> DEFINE before == SubSeq(todo, 1, i - 1)
                 after == SubSeq(todo, i + 1, Len(todo))
      <4>1. before \in Seq(Targets) /\ Len(before) = i - 1
        BY <1>2, SubSeqProperties
      <4>2. after \in Seq(Targets) /\ Len(after) = Len(todo) - i
        BY <1>2, SubSeqProperties
      <4>3. RemoveAt(todo, i) = before \o after
        BY DEF RemoveAt
      <4> HIDE DEF before, after
      <4> QED
        BY <1>2, <4>1, <4>2, <4>3
    <3>3. Shown(_test_host_async(todo[i], job[u].version, heard, server))
      BY <1>2, <3>2, TestsShown
    <3> QED
      BY <3>1, <3>2, <3>3
  <2> QED
    BY <2>1, <2>2
<1>4. GoodJob(Count(job[u], left, o))
  BY <1>1, <1>3, Counted
<1>5. DOMAIN job' = Callers /\ \A w \in Callers : job[w]' # Nothing => GoodJob(job[w])'
  BY <1>1, <1>3, <1>4, Jobs
<1> QED
  BY <1>1, <1>5, VerdictsKeep, ToldKeep DEF HostsInv

\* The verdict of a test in which every host is counted, told and kept in the cache.
LEMMA VerdictKeeps ==
  ASSUME HostsInv, NEW u \in Callers, Verdict(u)
  PROVE  HostsInv'
<1> DEFINE j == job[u]
           works == j.working >= NET_CHECK_HOST_COUNT
           v == [verdict |-> works, met |-> j.met, at |-> clock, until |-> clock + NET_CHECK_TIMEOUT]
<1>1. GoodJob(j) /\ UNCHANGED <<plan, clock>> /\ clock \in Nat
  BY DEF Verdict, HostsInv
<1>2. /\ Tell(u, j.version, Value(works), j.met, clock)
      /\ verdicts' = IF j.op \in Cached THEN [verdicts EXCEPT ![Slot(j.op)] = v] ELSE verdicts
      /\ job' = [job EXCEPT ![u] = Nothing]
  BY DEF Verdict, Works
<1>3. j.working = j.met /\ j.met \in Nat /\ plan.max_hosts \in Nat /\ j.met <= plan.max_hosts
      /\ j.version \in Versions
  <2>1. j.met \in Nat /\ j.left \in Seq(Targets) /\ plan.max_hosts \in Nat
    BY <1>1 DEF GoodJob
  <2>2. Len(j.left) \in Nat
    BY <2>1
  <2> QED
    BY <1>1, <2>1, <2>2 DEF GoodJob
<1> HIDE DEF j
<1>4. Justified([version |-> j.version, verdict |-> Value(works), met |-> j.met, age |-> clock - clock])
  <2>1. works \in BOOLEAN /\ (works <=> j.met >= NET_CHECK_HOST_COUNT)
    BY <1>3
  <2> HIDE DEF works
  <2>2. Value(works) = Value(TRUE) <=> j.met >= NET_CHECK_HOST_COUNT
    BY <2>1, TrueOnly
  <2>3. clock - clock <= NET_CHECK_TIMEOUT
    BY <1>1, HostChecksAssumption DEF HostChecksAssumption
  <2>4. Ok(Value(works))
    BY HowItEnds, Zenon
  <2>5. j.version # "one"
    BY <1>3 DEF Versions
  <2> QED
    BY <1>3, <2>2, <2>3, <2>5, <2>4 DEF Justified, Needed
<1>5. DOMAIN told' = Callers /\ \A w \in Callers : told[w]' # Nothing => Justified(told[w])'
  BY <1>1, <1>2, <1>4, Told
<1>6. DOMAIN job' = Callers /\ \A w \in Callers : job[w]' # Nothing => GoodJob(job[w])'
  BY <1>1, <1>2, Jobs
<1>7. GoodVerdict(v)
  <2>1. works \in BOOLEAN /\ (works <=> j.met >= NET_CHECK_HOST_COUNT)
    BY <1>3
  <2> HIDE DEF works
  <2>2. v.verdict = works
    BY Zenon
  <2>3. v.met = j.met /\ v.at = clock /\ v.until = clock + NET_CHECK_TIMEOUT
    OBVIOUS
  <2> HIDE DEF v
  <2>4. v.verdict \in BOOLEAN /\ (v.verdict <=> v.met >= NET_CHECK_HOST_COUNT)
    <3>1. v.verdict \in BOOLEAN
      BY <2>1, <2>2, Zenon
    <3>2. v.verdict <=> works
      BY <2>2, Zenon
    <3> QED
      BY <2>1, <2>3, <3>1, <3>2
  <2> QED
    BY <1>1, <1>3, <2>3, <2>4 DEF GoodVerdict
<1> HIDE DEF v
<1>8. /\ DOMAIN verdicts' = VerdictSlots
      /\ \A slot \in VerdictSlots : verdicts'[slot] # Nothing => GoodVerdict(verdicts'[slot])
  <2>1. \A slot \in VerdictSlots : verdicts'[slot] = verdicts[slot] \/ verdicts'[slot] = v
    BY <1>2 DEF HostsInv
  <2>2. DOMAIN verdicts' = VerdictSlots
    BY <1>2 DEF HostsInv
  <2> QED
    BY <1>7, <2>1, <2>2 DEF HostsInv
<1>9. \A slot \in VerdictSlots : verdicts[slot]' # Nothing => GoodVerdict(verdicts[slot])'
  BY <1>1, <1>8 DEF GoodVerdict
<1> QED
  BY <1>1, <1>5, <1>6, <1>8, <1>9 DEF HostsInv

\* A check of one host is told as it ended.
LEMMA CheckOneKeeps ==
  ASSUME HostsInv, NEW u \in Callers, CheckOne(u)
  PROVE  HostsInv'
<1>1. PICK op \in plan.ops \cap Checks, host \in Hosts, version \in {"any", "v4", "v6"}, throw \in BOOLEAN :
        \E heard \in HeardOf(version), server \in Servers :
          LET o == CheckBy(op, host, version, throw, heard, server)
          IN  Tell(u, "one", o.result, IF o.met THEN 1 ELSE 0, clock)
  BY DEF CheckOne
<1>2. PICK heard \in HeardOf(version), server \in Servers :
        LET o == CheckBy(op, host, version, throw, heard, server)
        IN  Tell(u, "one", o.result, IF o.met THEN 1 ELSE 0, clock)
  BY <1>1
<1> DEFINE o == CheckBy(op, host, version, throw, heard, server)
<1>3. Tell(u, "one", o.result, IF o.met THEN 1 ELSE 0, clock)
  BY <1>2
<1>4. Shown(o)
  BY ChecksShown DEF CheckBy, Versions
<1>5. UNCHANGED <<plan, clock, verdicts, job>> /\ clock \in Nat
  BY DEF CheckOne, HostsInv
<1> HIDE DEF o
<1> DEFINE n == IF o.met THEN 1 ELSE 0
<1>6. n \in Nat /\ (o.result = Value(TRUE) <=> n >= 1)
  <2> HIDE DEF o
  <2>1. o.result = Value(TRUE) <=> o.met
    BY <1>4, Zenon DEF Shown
  <2>2. CASE o.met
    <3>1. n = 1
      BY <2>2, Zenon
    <3>2. o.result = Value(TRUE)
      BY <2>2, <2>1, Zenon
    <3> HIDE DEF n
    <3> QED
      BY <3>1, <3>2
  <2>3. CASE ~o.met
    <3>1. n = 0
      BY <2>3, Zenon
    <3>2. o.result # Value(TRUE)
      BY <2>3, <2>1, Zenon
    <3> HIDE DEF n
    <3>3. n \in Nat /\ ~(n >= 1)
      BY <3>1
    <3> QED
      BY <3>2, <3>3, Zenon
  <2> QED
    BY <2>2, <2>3
<1>7. Tell(u, "one", o.result, n, clock)
  BY <1>3
<1> HIDE DEF n
<1>8. Justified([version |-> "one", verdict |-> o.result, met |-> n, age |-> clock - clock])
  <2>1. clock - clock <= NET_CHECK_TIMEOUT
    BY <1>5, HostChecksAssumption DEF HostChecksAssumption
  <2> QED
    BY <1>6, <2>1 DEF Justified, Needed
<1>9. DOMAIN told' = Callers /\ \A w \in Callers : told[w]' # Nothing => Justified(told[w])'
  BY <1>5, <1>7, <1>8, Told
<1> QED
  BY <1>5, <1>9, VerdictsKeep, JobsKeep DEF HostsInv

\* Whatever a caller is told is so: a version works if and only if enough of the hosts
\* answered over it, no more than max_hosts being tried, at a test that is not older than
\* a verdict may be (net/common.py: test_hosts, test_hosts_async, check_v4, check_v6,
\* their asyncio versions, and the checks of one host).
THEOREM VerdictsAreJustified == HostsSpec => []VerdictJustified
<1>1. HostsInit => HostsInv
  <2> SUFFICES ASSUME HostsInit PROVE HostsInv
    OBVIOUS
  <2>1. \A slot \in VerdictSlots : verdicts[slot] = Nothing
    BY DEF HostsInit, VerdictSlots
  <2> QED
    BY <2>1 DEF HostsInit, HostsInv, VerdictSlots
<1>2. HostsInv /\ [HostsNext]_hostVars => HostsInv'
  <2> SUFFICES ASSUME HostsInv, [HostsNext]_hostVars PROVE HostsInv'
    OBVIOUS
  <2>1. CASE \E u \in Callers : CachedVerdict(u)
    BY <2>1, CachedVerdictKeeps
  <2>2. CASE \E u \in Callers : StartTest(u)
    BY <2>2, StartTestKeeps
  <2>3. CASE \E u \in Callers : test_hosts(u) \/ test_hosts_async(u)
    BY <2>3, TestHostsKeeps
  <2>4. CASE \E u \in Callers : Verdict(u)
    BY <2>4, VerdictKeeps
  <2>5. CASE \E u \in Callers : CheckOne(u)
    BY <2>5, CheckOneKeeps
  <2>6. CASE Tick
    <3>1. UNCHANGED <<plan, verdicts, job, told>> /\ clock' \in Nat /\ clock' >= clock
      BY <2>6 DEF Tick, HostsInv
    <3> QED
      BY <3>1, VerdictsKeep, JobsKeep, ToldKeep DEF HostsInv
  <2>7. CASE UNCHANGED hostVars
    <3>1. UNCHANGED <<plan, verdicts, job, told, clock>> /\ clock \in Nat
      BY <2>7 DEF hostVars, HostsInv
    <3> QED
      BY <3>1, VerdictsKeep, JobsKeep, ToldKeep DEF HostsInv
  <2> QED
    BY <2>1, <2>2, <2>3, <2>4, <2>5, <2>6, <2>7 DEF HostsNext
<1>3. HostsInv => VerdictJustified
  BY DEF HostsInv, VerdictJustified, Justified
<1> QED
  BY <1>1, <1>2, <1>3, PTL DEF HostsSpec

-----------------------------------------------------------------------------
(* Requests and answers *)

\* The functions of one address.
OneAddress == {"resolve_ip", "resolve_ip_async", "get_rdns_async", "geolocate_ip", "asn_to_name",
               "ip_to_rdns", "geoip_manager", "ping"}

\* Lists of hosts have one host at least; single ones have just one.
LEMMA ListsAre ==
  /\ \A s \in Lists : s \in Seq(Hosts) /\ Len(s) >= 1
  /\ \A s \in Single : s \in Seq(Hosts) /\ Len(s) = 1
<1>1. \A n \in Nat : \A s \in [1..n -> Hosts] : s \in Seq(Hosts) /\ Len(s) = n
  OBVIOUS
<1>2. \A n \in 1..MaxAddrs : n \in Nat /\ n >= 1
  BY LookupsAssumption DEF LookupsAssumption
<1>3. ASSUME NEW s \in Lists
      PROVE  s \in Seq(Hosts) /\ Len(s) >= 1
  <2>1. PICK n \in 1..MaxAddrs : s \in [1..n -> Hosts]
    BY DEF Lists
  <2> QED
    BY <1>1, <1>2, <2>1
<1>4. ASSUME NEW s \in Single
      PROVE  s \in Seq(Hosts) /\ Len(s) = 1
  <2>1. 1 \in Nat /\ s \in [1..1 -> Hosts]
    BY DEF Single
  <2> QED
    BY ONLY <1>1, <2>1
<1> QED
  BY <1>3, <1>4

\* What a call has: addresses, a version, and what its function needs besides.
LEMMA RequestsAre ==
  ASSUME NEW r \in Requests
  PROVE  /\ r.addrs \in Seq(Hosts) /\ Len(r.addrs) >= 1
         /\ r.version \in Versions /\ r.v4_convert \in BOOLEAN
         /\ r.op \in OneAddress => Len(r.addrs) = 1
         /\ r.op = "ip_to_rdns" => r.v4_boundary \in Boundaries /\ r.v6_boundary \in Boundaries
         /\ r.op = "geoip_manager" => r.kind \in Readers \cup {Nothing}
<1>1. "any" \in Versions /\ FALSE \in BOOLEAN
  BY DEF Versions
<1> DEFINE R2 == {ResolveCall(o, s, v, c) :
                    o \in {"resolve_ips_multi", "resolve_ips_multi_async"}, s \in Lists, v \in Versions, c \in BOOLEAN}
           R3 == {ResolveCall(o, s, v, c) :
                    o \in {"resolve_ip", "resolve_ip_async"}, s \in Single, v \in Versions, c \in BOOLEAN}
           R4 == {ThrowCall("get_rdns_async", s, v, t) :
                    s \in Single, v \in Versions, t \in BOOLEAN}
           R5 == {ThrowCall(o, s, "any", t) :
                    o \in {"get_rdns_multi", "geolocate_ips"}, s \in Lists, t \in BOOLEAN}
           R6 == {ThrowCall(o, s, "any", t) :
                    o \in {"geolocate_ip", "asn_to_name"}, s \in Single, t \in BOOLEAN}
           R7 == {PointerCall(s, b, four, six) :
                    s \in Single, b \in BOOLEAN, four \in Boundaries, six \in Boundaries}
           R8 == {[Call("geoip_manager", s) EXCEPT !.kind = k] :
                    s \in Single, k \in Readers \cup {Nothing}}
           R9 == {[Call("ping", s) EXCEPT !.timeout = n] : s \in Single, n \in {0, 1}}
<1>2. CASE r \in R2
  <2>1. PICK o \in {"resolve_ips_multi", "resolve_ips_multi_async"}, s \in Lists, v \in Versions, c \in BOOLEAN :
          r = ResolveCall(o, s, v, c)
    BY <1>2
  <2> QED
    BY <2>1, ListsAre DEF Call, ResolveCall, ThrowCall, PointerCall, OneAddress
<1>3. CASE r \in R3
  <2>1. PICK o \in {"resolve_ip", "resolve_ip_async"}, s \in Single, v \in Versions, c \in BOOLEAN :
          r = ResolveCall(o, s, v, c)
    BY <1>3
  <2> QED
    BY <2>1, ListsAre DEF Call, ResolveCall, ThrowCall, PointerCall
<1>4. CASE r \in R4
  <2>1. PICK s \in Single, v \in Versions, t \in BOOLEAN :
          r = ThrowCall("get_rdns_async", s, v, t)
    BY <1>4
  <2> QED
    BY <1>1, <2>1, ListsAre DEF Call, ResolveCall, ThrowCall, PointerCall
<1>5. CASE r \in R5
  <2>1. PICK o \in {"get_rdns_multi", "geolocate_ips"}, s \in Lists, t \in BOOLEAN :
          r = ThrowCall(o, s, "any", t)
    BY <1>5
  <2> QED
    BY <1>1, <2>1, ListsAre DEF Call, ResolveCall, ThrowCall, PointerCall, OneAddress
<1>6. CASE r \in R6
  <2>1. PICK o \in {"geolocate_ip", "asn_to_name"}, s \in Single, t \in BOOLEAN :
          r = ThrowCall(o, s, "any", t)
    BY <1>6
  <2> QED
    BY <1>1, <2>1, ListsAre DEF Call, ResolveCall, ThrowCall, PointerCall
<1>7. CASE r \in R7
  <2>1. PICK s \in Single, b \in BOOLEAN, four \in Boundaries, six \in Boundaries :
          r = PointerCall(s, b, four, six)
    BY <1>7
  <2>2. /\ r.op = "ip_to_rdns" /\ r.addrs = s /\ r.version = "any" /\ r.v4_convert = FALSE
        /\ r.v4_boundary = four /\ r.v6_boundary = six
    BY <2>1 DEF Call, PointerCall
  <2>3. /\ r.addrs \in Seq(Hosts) /\ Len(r.addrs) = 1 /\ Len(r.addrs) >= 1
        /\ r.version \in Versions /\ r.v4_boundary \in Boundaries /\ r.v6_boundary \in Boundaries
    <3>1. r.addrs \in Seq(Hosts) /\ Len(r.addrs) = 1
      BY <2>1, <2>2, ListsAre
    <3>2. r.version \in Versions /\ r.v4_boundary \in Boundaries /\ r.v6_boundary \in Boundaries
      BY <1>1, <2>1, <2>2
    <3> QED
      BY <3>1, <3>2
  <2>4. r.v4_convert \in BOOLEAN
    BY <2>2, Zenon
  <2>5. r.op # "geoip_manager"
    BY <2>2
  <2> QED
    BY <2>3, <2>4, <2>5, Zenon
<1>8. CASE r \in R8
  <2>1. PICK s \in Single, k \in Readers \cup {Nothing} : r = [Call("geoip_manager", s) EXCEPT !.kind = k]
    BY <1>8
  <2> QED
    BY <1>1, <2>1, ListsAre DEF Call, ResolveCall, ThrowCall, PointerCall
<1>9. CASE r \in R9
  <2>1. PICK s \in Single, n \in {0, 1} : r = [Call("ping", s) EXCEPT !.timeout = n]
    BY <1>9
  <2> QED
    BY <1>1, <2>1, ListsAre DEF Call, ResolveCall, ThrowCall, PointerCall
<1>10. r \in R2 \/ r \in R3 \/ r \in R4 \/ r \in R5 \/ r \in R6 \/ r \in R7 \/ r \in R8 \/ r \in R9
  BY DEF Requests
<1> HIDE DEF R2, R3, R4, R5, R6, R7, R8, R9
<1> QED
  BY <1>2, <1>3, <1>4, <1>5, <1>6, <1>7, <1>8, <1>9, <1>10

\* One list after another.
LEMMA Longer ==
  ASSUME NEW s, s \in Seq(Range(s)), NEW t, t \in Seq(Range(t))
  PROVE  /\ s \o t \in Seq(Range(s \o t))
         /\ Len(s \o t) = Len(s) + Len(t) /\ Len(s) \in Nat /\ Len(t) \in Nat
         /\ \A k \in 1..Len(s) : (s \o t)[k] = s[k]
         /\ \A k \in 1..Len(t) : (s \o t)[Len(s) + k] = t[k]
<1> DEFINE S == Range(s) \cup Range(t)
<1>1. s \in Seq(S) /\ t \in Seq(S)
  BY SeqDef
<1> HIDE DEF S
<1>2. s \o t \in Seq(S) /\ Len(s \o t) = Len(s) + Len(t) /\ Len(s) \in Nat /\ Len(t) \in Nat
  BY <1>1
<1>3. /\ \A k \in 1..Len(s) : (s \o t)[k] = s[k]
      /\ \A k \in 1..Len(t) : (s \o t)[Len(s) + k] = t[k]
  BY <1>1, <1>2
<1>4. \A w \in Seq(S) : w \in [1..Len(w) -> Range(w)] /\ Len(w) \in Nat
  BY DEF Range
<1>5. s \o t \in [1..Len(s \o t) -> Range(s \o t)] /\ Len(s \o t) \in Nat
  BY <1>2, <1>4
<1>6. \A R, w : \A m \in Nat : w \in [1..m -> R] => w \in Seq(R)
  BY SeqDef
<1>7. s \o t \in Seq(Range(s \o t))
  BY <1>5, <1>6, Zenon
<1> QED
  BY <1>2, <1>3, <1>7

\* How far a call is, and that its answers are in the order of the addresses.
InPlace ==
  /\ req \in Requests
  /\ pos \in 1..Len(req.addrs) + 1
  /\ end = "running" => pos <= Len(req.addrs)
  /\ answers \in Seq(Range(answers))
  /\ InOrder

\* What is below q but not below p is p, if q is the number after p.
LEMMA NextNumber ==
  ASSUME NEW p \in Int, NEW q \in {p, p + 1}, NEW i \in 1..q - 1, i \notin 1..p - 1
  PROVE  i = p /\ q # p
OBVIOUS

\* Answers for the address the call is at come after the others'.
LEMMA GrowsInPlace ==
  ASSUME InPlace, end = "running", UNCHANGED req,
         NEW t, t \in Seq(Range(t)), \A k \in 1..Len(t) : t[k].addr = Here,
         answers' = answers \o t,
         \/ pos' = pos + 1 /\ Len(t) >= 1 /\ end' = IF pos = Len(req.addrs) THEN "done" ELSE "running"
         \/ pos' = pos /\ end' # "running"
  PROVE  InPlace'
<1> DEFINE n == Len(answers)
           N == Len(req.addrs)
<1>1. /\ answers' \in Seq(Range(answers')) /\ Len(answers') = n + Len(t) /\ n \in Nat /\ Len(t) \in Nat
      /\ \A k \in 1..n : answers'[k] = answers[k]
      /\ \A k \in 1..Len(t) : answers'[n + k] = t[k]
  BY Longer DEF InPlace
<1>2. N \in Nat /\ pos \in 1..N
  BY RequestsAre DEF InPlace
<1>3. pos' = pos \/ (pos' = pos + 1 /\ Len(t) >= 1)
  OBVIOUS
<1>4. end' = "running" => pos' = pos + 1 /\ pos # N
  OBVIOUS
<1>5. /\ pos' \in 1..N + 1 /\ (end' = "running" => pos' <= N) /\ pos' \in {pos, pos + 1}
      /\ pos' # pos => Len(t) >= 1
  BY <1>2, <1>3, <1>4
<1>6. \A i \in 1..pos' - 1 : \E k \in 1..Len(answers') : answers'[k].addr = req.addrs[i]
  <2> SUFFICES ASSUME NEW i \in 1..pos' - 1
               PROVE  \E k \in 1..Len(answers') : answers'[k].addr = req.addrs[i]
    OBVIOUS
  <2>1. CASE i \in 1..pos - 1
    <3>1. PICK k \in 1..n : answers[k].addr = req.addrs[i]
      BY <2>1 DEF InPlace, InOrder
    <3>2. k \in 1..Len(answers') /\ answers'[k] = answers[k]
      BY <1>1
    <3> QED
      BY <3>1, <3>2
  <2>2. CASE i \notin 1..pos - 1
    <3>1. i \in 1..pos' - 1 /\ i \notin 1..pos - 1
      BY <2>2
    <3>2. pos \in Int /\ pos' \in {pos, pos + 1}
      BY <1>2, <1>5
    <3>3. i = pos /\ pos' # pos
      BY ONLY <3>1, <3>2, NextNumber
    <3>4. i = pos /\ Len(t) >= 1
      BY ONLY <1>5, <3>3
    <3>5. n + 1 \in 1..Len(answers') /\ answers'[n + 1] = t[1] /\ t[1].addr = Here
      BY <1>1, <3>4
    <3>6. answers'[n + 1].addr = req.addrs[i]
      BY <3>4, <3>5 DEF Here
    <3> QED
      BY <3>5, <3>6
  <2> QED
    BY <2>1, <2>2
<1>7. \E at \in [1..Len(answers') -> 1..N] :
        /\ \A k \in DOMAIN at : answers'[k].addr = req.addrs[at[k]] /\ at[k] <= pos'
        /\ \A k, l \in DOMAIN at : k < l => at[k] <= at[l]
  <2>1. PICK at \in [1..n -> 1..N] :
          /\ \A k \in DOMAIN at : answers[k].addr = req.addrs[at[k]] /\ at[k] <= pos
          /\ \A k, l \in DOMAIN at : k < l => at[k] <= at[l]
    BY DEF InPlace, InOrder
  <2> DEFINE more == [k \in 1..Len(answers') |-> IF k <= n THEN at[k] ELSE pos]
  <2>2. more \in [1..Len(answers') -> 1..N]
    BY <1>1, <1>2, <2>1
  <2>3. ASSUME NEW k \in 1..Len(answers')
        PROVE  answers'[k].addr = req.addrs[more[k]] /\ more[k] <= pos
    <3>1. CASE k <= n
      <4>1. k \in 1..n /\ more[k] = at[k] /\ answers'[k] = answers[k]
        BY <1>1, <3>1
      <4> QED
        BY <2>1, <4>1
    <3>2. CASE ~(k <= n)
      <4>1. k - n \in 1..Len(t) /\ n + (k - n) = k /\ more[k] = pos
        BY <1>1, <3>2
      <4>2. answers'[k] = t[k - n]
        BY <1>1, <4>1
      <4> QED
        BY <1>2, <4>1, <4>2 DEF Here
    <3> QED
      BY <3>1, <3>2
  <2>4. ASSUME NEW k \in 1..Len(answers'), NEW l \in 1..Len(answers'), k < l
        PROVE  more[k] <= more[l]
    <3>1. CASE l <= n
      <4>1. k \in 1..n /\ l \in 1..n /\ more[k] = at[k] /\ more[l] = at[l]
        BY <1>1, <2>4, <3>1
      <4> QED
        BY <2>1, <2>4, <4>1
    <3>2. CASE ~(l <= n)
      <4>1. more[l] = pos
        BY <3>2
      <4> HIDE DEF more
      <4> QED
        BY <2>3, <4>1
    <3> QED
      BY <3>1, <3>2
  <2>5. DOMAIN more = 1..Len(answers') /\ \A k \in 1..Len(answers') : more[k] \in 1..N
    BY <2>2, Zenon
  <2>6. /\ pos <= pos' /\ DOMAIN more = 1..Len(answers')
        /\ \A k \in 1..Len(answers') : more[k] \in Int
    <3> HIDE DEF more
    <3>1. \A i \in 1..N : i \in Int
      BY <1>2
    <3> QED
      BY <1>2, <1>5, <2>5, <3>1
  <2> HIDE DEF more
  <2>7. \A k \in DOMAIN more : answers'[k].addr = req.addrs[more[k]] /\ more[k] <= pos'
    BY <1>2, <1>5, <2>3, <2>6
  <2> QED
    BY <2>2, <2>4, <2>6, <2>7
<1> QED
  BY <1>1, <1>5, <1>6, <1>7 DEF InPlace, InOrder

\* A call that ends with an exception leaves its answers as they are.
LEMMA FailsInPlace ==
  ASSUME InPlace, end = "running", UNCHANGED <<req, pos, answers>>
  PROVE  InPlace'
BY DEF InPlace, InOrder

\* What is yielded is answers for the address the call is at.
LEMMA Yields ==
  ASSUME InPlace, end = "running", UNCHANGED req, NEW v, Yield(<<v>>)
  PROVE  /\ InPlace' /\ pos' = pos + 1 /\ end' = IF pos = Len(req.addrs) THEN "done" ELSE "running"
         /\ Len(answers') = Len(answers) + 1 /\ Len(answers) \in Nat
         /\ \A k \in 1..Len(answers) : answers'[k] = answers[k]
         /\ answers'[Len(answers) + 1] = [addr |-> Here, value |-> v]
<1> DEFINE a == [addr |-> Here, value |-> v]
           t == [i \in 1..Len(<<v>>) |-> [addr |-> Here, value |-> <<v>>[i]]]
<1>1. t = <<a>>
  <2>1. Len(<<v>>) = 1 /\ <<v>>[1] = v
    OBVIOUS
  <2>2. DOMAIN t = 1..1 /\ t[1] = a
    BY <2>1
  <2>3. t = [i \in 1..1 |-> a]
    BY <2>1
  <2> HIDE DEF t, a
  <2> QED
    BY <2>3
<1>2. answers' = answers \o <<a>> /\ pos' = pos + 1
      /\ end' = IF pos = Len(req.addrs) THEN "done" ELSE "running"
  BY <1>1 DEF Yield
<1>3. <<a>> \in Seq(Range(<<a>>)) /\ Len(<<a>>) = 1 /\ <<a>>[1] = a
  BY DEF Range
<1>4. a.addr = Here
  OBVIOUS
<1> HIDE DEF a
<1>5. \A k \in 1..Len(<<a>>) : <<a>>[k].addr = Here
  BY <1>3, <1>4
<1>6. pos' = pos + 1 /\ Len(<<a>>) >= 1 /\ end' = IF pos = Len(req.addrs) THEN "done" ELSE "running"
  BY <1>2, <1>3
<1>7. InPlace'
  BY <1>2, <1>3, <1>5, <1>6, GrowsInPlace, Zenon
<1>8. /\ Len(answers') = Len(answers) + 1 /\ Len(answers) \in Nat
      /\ \A k \in 1..Len(answers) : answers'[k] = answers[k]
      /\ answers'[Len(answers) + 1] = a
  BY <1>2, <1>3, Longer DEF InPlace
<1> QED
  BY <1>2, <1>7, <1>8 DEF a

-----------------------------------------------------------------------------
(* Names of the reverse DNS *)

\* Some labels the wrong way round with one more at the end are a suffix of more of them.
LEMMA SuffixOf ==
  ASSUME NEW S, NEW p \in Seq(S), NEW n \in 0..Len(p), NEW x \in S
  PROVE  /\ IsSuffix(Reverse(SubSeq(p, 1, n)) \o <<x>>, Reverse(p) \o <<x>>)
         /\ Len(Reverse(SubSeq(p, 1, n)) \o <<x>>) = n + 1
<1> DEFINE Name(q) == Reverse(q) \o <<x>>
<1>1. ASSUME NEW q \in Seq(S)
      PROVE  /\ Name(q) \in Seq(S) /\ Len(Name(q)) = Len(q) + 1 /\ Len(q) \in Nat
             /\ Reverse(Name(q)) \in Seq(S) /\ Len(Reverse(Name(q))) = Len(q) + 1
             /\ Reverse(Name(q))[1] = x
             /\ \A k \in 2..Len(q) + 1 : Reverse(Name(q))[k] = q[k - 1]
  <2>1. Len(q) \in Nat /\ \A k \in 1..Len(q) : q[k] \in S
    OBVIOUS
  <2>2. Reverse(q) = [k \in 1..Len(q) |-> q[(Len(q) - k) + 1]]
    BY DEF Reverse
  <2>3. Reverse(q) \in Seq(S) /\ Len(Reverse(q)) = Len(q)
    <3>1. \A k \in 1..Len(q) : (Len(q) - k) + 1 \in 1..Len(q)
      BY <2>1
    <3>2. Reverse(q) \in [1..Len(q) -> S]
      BY <2>1, <2>2, <3>1
    <3> QED
      BY <2>1, <3>2
  <2>4. /\ Name(q) \in Seq(S) /\ Len(Name(q)) = Len(q) + 1
        /\ Name(q)[Len(q) + 1] = x
        /\ \A k \in 1..Len(q) : Name(q)[k] = Reverse(q)[k]
    BY <2>1, <2>3
  <2> DEFINE w == Name(q)
  <2> HIDE DEF Name
  <2>5. Reverse(w) = [k \in 1..Len(q) + 1 |-> w[(Len(q) + 1 - k) + 1]]
    BY <2>4 DEF Reverse
  <2>6. \A k \in 1..Len(q) + 1 : w[k] \in S
    BY <2>4
  <2>7. Reverse(w) \in Seq(S) /\ Len(Reverse(w)) = Len(q) + 1
    <3>1. \A k \in 1..Len(q) + 1 : (Len(q) + 1 - k) + 1 \in 1..Len(q) + 1
      BY <2>1
    <3>2. Reverse(w) \in [1..Len(q) + 1 -> S]
      BY <2>1, <2>5, <2>6, <3>1
    <3> QED
      BY <2>1, <3>2
  <2>8. Reverse(w)[1] = x
    BY <2>1, <2>4, <2>5
  <2>9. ASSUME NEW k \in 2..Len(q) + 1
        PROVE  Reverse(w)[k] = q[k - 1]
    <3> DEFINE m == (Len(q) + 1 - k) + 1
    <3>1. m \in 1..Len(q) /\ (Len(q) - m) + 1 = k - 1 /\ k \in 1..Len(q) + 1
      BY <2>1
    <3>2. Reverse(w)[k] = w[m]
      BY <2>5, <3>1
    <3> HIDE DEF m
    <3>3. w[m] = Reverse(q)[m]
      BY <2>4, <3>1
    <3>4. Reverse(q)[m] = q[(Len(q) - m) + 1]
      BY <2>2, <3>1
    <3> QED
      BY <3>1, <3>2, <3>3, <3>4
  <2> QED
    BY <2>1, <2>4, <2>7, <2>8, <2>9
<1> DEFINE q == SubSeq(p, 1, n)
           z == Reverse(Name(q))
           f == Reverse(Name(p))
<1>2. q \in Seq(S) /\ Len(q) = n /\ n \in Nat /\ Len(p) \in Nat /\ n <= Len(p)
      /\ \A k \in 1..n : q[k] = p[k]
  OBVIOUS
<1> HIDE DEF q, Name
<1>3. /\ z \in Seq(S) /\ Len(z) = n + 1 /\ z[1] = x /\ \A k \in 2..n + 1 : z[k] = q[k - 1]
      /\ f \in Seq(S) /\ Len(f) = Len(p) + 1 /\ f[1] = x /\ \A k \in 2..Len(p) + 1 : f[k] = p[k - 1]
      /\ Len(Name(q)) = n + 1
  BY <1>1, <1>2
<1> HIDE DEF z, f
<1>4. \A k \in 1..n + 1 : z[k] = f[k]
  <2> SUFFICES ASSUME NEW k \in 1..n + 1 PROVE z[k] = f[k]
    OBVIOUS
  <2>1. CASE k = 1
    BY <1>3, <2>1
  <2>2. CASE k # 1
    <3>1. k \in 2..n + 1 /\ k \in 2..Len(p) + 1 /\ k - 1 \in 1..n
      BY <1>2, <2>2
    <3> QED
      BY <1>2, <1>3, <3>1
  <2> QED
    BY <2>1, <2>2
<1>5. SubSeq(z, 1, Len(z)) = SubSeq(f, 1, Len(z)) /\ Len(z) <= Len(f)
  <2> DEFINE a == SubSeq(z, 1, n + 1)
             b == SubSeq(f, 1, n + 1)
  <2>1. a \in Seq(S) /\ Len(a) = n + 1 /\ \A k \in 1..n + 1 : a[k] = z[k]
    BY <1>2, <1>3
  <2>2. b \in Seq(S) /\ Len(b) = n + 1 /\ \A k \in 1..n + 1 : b[k] = f[k]
    BY <1>2, <1>3
  <2> HIDE DEF a, b
  <2>3. a = b
    BY <1>4, <2>1, <2>2, SeqEqual
  <2> QED
    BY <1>2, <1>3, <2>3 DEF a, b
<1>6. IsSuffix(Name(q), Name(p))
  BY <1>5 DEF IsSuffix, IsPrefix, z, f
<1> QED
  BY <1>3, <1>6 DEF Name, q

\* The zone at a boundary, of the length asked for, is a suffix of the whole name.
IsZoneOf(zone, ip, v6_boundary, v4_boundary) ==
  /\ IsSuffix(zone, ip_to_rdns(ip, FALSE, 32, 24).value)
  /\ IF ip_is_v4(ip) THEN 8 * (Len(zone) - 1) = v4_boundary
                     ELSE 4 * (Len(zone) - 1) = v6_boundary

\* ip_to_rdns at a boundary gives a zone that holds the address.
LEMMA ZoneHolds ==
  ASSUME NEW ip, NEW boundary, boundary, NEW six \in Int, NEW four \in Int,
         Ok(ip_to_rdns(ip, boundary, six, four))
  PROVE  IsZoneOf(ip_to_rdns(ip, boundary, six, four).value, ip, six, four)
<1> DEFINE r == ip_to_rdns(ip, boundary, six, four)
           whole == ip_to_rdns(ip, FALSE, 32, 24)
           S == 1..32 \cup {"in-addr.arpa", "ip6.arpa"}
<1>1. _check_boundaries(four, six) /\ ip \in Literals
  BY HowItEnds DEF ip_to_rdns
<1>2. CASE ip_is_v6(ip)
  <2> DEFINE n == six \div 4
             p == Parts(ip)
  <2>1. ~ip_is_v4(ip)
    BY <1>2, AddressAssumption DEF AddressAssumption, ip_is_v4, ip_is_v6
  <2>2. p \in Seq(S) /\ Len(p) = 32
    <3>1. p = [i \in 1..32 |-> i]
      BY <2>1 DEF Parts
    <3>2. p \in [1..32 -> S] /\ 32 \in Nat
      BY <3>1
    <3> HIDE DEF p, S
    <3> QED
      BY ONLY <3>2, FunctionsAreLists
  <2>3. n \in 0..32 /\ 4 * n = six
    BY <1>1 DEF _check_boundaries
  <2>4. r = Value(Reverse(SubSeq(p, 1, n)) \o <<"ip6.arpa">>) /\ whole = Value(Reverse(p) \o <<"ip6.arpa">>)
    BY <1>1, <1>2 DEF ip_to_rdns, ip6_to_rdns
  <2> HIDE DEF p, n, r, whole
  <2>5. /\ r.value = Reverse(SubSeq(p, 1, n)) \o <<"ip6.arpa">>
        /\ whole.value = Reverse(p) \o <<"ip6.arpa">>
    BY <2>4, HowItEnds
  <2>6. "ip6.arpa" \in S
    OBVIOUS
  <2> HIDE DEF S
  <2>7. p \in Seq(S) /\ n \in 0..Len(p)
    BY <2>2, <2>3
  <2>8. /\ IsSuffix(Reverse(SubSeq(p, 1, n)) \o <<"ip6.arpa">>, Reverse(p) \o <<"ip6.arpa">>)
         /\ Len(Reverse(SubSeq(p, 1, n)) \o <<"ip6.arpa">>) = n + 1
    BY <2>6, <2>7, SuffixOf
  <2>9. IsSuffix(r.value, whole.value) /\ Len(r.value) = n + 1
    BY <2>5, <2>8, Zenon
  <2>10. 4 * (Len(r.value) - 1) = six
    BY <2>3, <2>9
  <2> QED
    BY <2>1, <2>9, <2>10 DEF IsZoneOf, r, whole
<1>3. CASE ~ip_is_v6(ip)
  <2> DEFINE n == four \div 8
             p == Parts(ip)
  <2>1. ip_is_v4(ip)
    BY <1>1, <1>3 DEF ip_is_v4, ip_is_v6, Literals
  <2>2. p \in Seq(S) /\ Len(p) = 4
    <3>1. p = [i \in 1..4 |-> i]
      BY <2>1 DEF Parts
    <3>2. p \in [1..4 -> S] /\ 4 \in Nat
      BY <3>1
    <3> HIDE DEF p, S
    <3> QED
      BY ONLY <3>2, FunctionsAreLists
  <2>3. n \in 0..4 /\ 8 * n = four
    BY <1>1 DEF _check_boundaries
  <2>4. r = Value(Reverse(SubSeq(p, 1, n)) \o <<"in-addr.arpa">>) /\ whole = Value(Reverse(p) \o <<"in-addr.arpa">>)
    BY <1>1, <1>3 DEF ip_to_rdns, ip4_to_rdns
  <2> HIDE DEF p, n, r, whole
  <2>5. /\ r.value = Reverse(SubSeq(p, 1, n)) \o <<"in-addr.arpa">>
        /\ whole.value = Reverse(p) \o <<"in-addr.arpa">>
    BY <2>4, HowItEnds
  <2>6. "in-addr.arpa" \in S
    OBVIOUS
  <2> HIDE DEF S
  <2>7. p \in Seq(S) /\ n \in 0..Len(p)
    BY <2>2, <2>3
  <2>8. /\ IsSuffix(Reverse(SubSeq(p, 1, n)) \o <<"in-addr.arpa">>, Reverse(p) \o <<"in-addr.arpa">>)
         /\ Len(Reverse(SubSeq(p, 1, n)) \o <<"in-addr.arpa">>) = n + 1
    BY <2>6, <2>7, SuffixOf
  <2>9. IsSuffix(r.value, whole.value) /\ Len(r.value) = n + 1
    BY <2>5, <2>8, Zenon
  <2>10. 8 * (Len(r.value) - 1) = four
    BY <2>3, <2>9
  <2> QED
    BY <2>1, <2>9, <2>10 DEF IsZoneOf, r, whole
<1> QED
  BY <1>2, <1>3

-----------------------------------------------------------------------------
(* Look-ups *)

\* The functions that resolve names.
Resolving == {"resolve_ips_multi", "resolve_ips_multi_async"}
ResolvingOne == {"resolve_ip", "resolve_ip_async"}

\* An answer is right for the address it is for.
Right(a) ==
  /\ req.op \in Resolving =>
       /\ a.value = Nothing <=> Refused(a.addr)
       /\ a.value # Nothing => Suits(a.addr, a.value)
  /\ req.op \in ResolvingOne => (a.value # Nothing => Suits(a.addr, <<a.value>>))

\* The domain of an address comes when the call is over, and holds the address.
ZoneInv ==
  req.op = "ip_to_rdns" =>
    /\ end = "running" => Len(answers) = 0
    /\ end = "done" /\ req.boundary =>
         IsZoneOf(answers[1].value, req.addrs[1], req.v6_boundary, req.v4_boundary)

\* The invariant of a call: its answers, and where its block stands.
AnswersInv == InPlace /\ OneByOne /\ (\A k \in 1..Len(answers) : Right(answers[k])) /\ ZoneInv

BlockInv == (req.op # "geoip_manager" => block = "outside") /\ ManagerCloses

LookupInv == AnswersInv /\ BlockInv

\* A call that gives the result of a function, or ends with its exception.
LEMMA Gives ==
  ASSUME AnswersInv, end = "running", UNCHANGED req, NEW r, Give(r), req.op # "geolocate_ips",
         Ok(r) => Right([addr |-> Here, value |-> r.value]),
         req.op \in Many /\ ~Ok(r) => req.op = "get_rdns_multi" /\ req.throw,
         req.op = "ip_to_rdns" => r = ip_to_rdns(Here, req.boundary, req.v6_boundary, req.v4_boundary)
  PROVE  AnswersInv'
<1>1. InPlace /\ pos \in Nat /\ pos >= 1
  BY DEF AnswersInv, InPlace
<1>2. CASE Ok(r)
  <2> DEFINE a == [addr |-> Here, value |-> r.value]
  <2>1. Yield(<<r.value>>)
    BY <1>2 DEF Give
  <2>2. /\ InPlace' /\ pos' = pos + 1 /\ end' = IF pos = Len(req.addrs) THEN "done" ELSE "running"
        /\ Len(answers') = Len(answers) + 1 /\ Len(answers) \in Nat
        /\ \A k \in 1..Len(answers) : answers'[k] = answers[k]
        /\ answers'[Len(answers) + 1] = a
    BY <1>1, <2>1, Yields
  <2>3. Right(a) /\ a.addr = Here /\ a.value = r.value
    BY <1>2
  <2> HIDE DEF a
  <2>4. \A b : Right(b)' <=> Right(b)
    BY DEF Right, Refused, Suits
  <2>5. \A k \in 1..Len(answers') : Right(answers'[k])
    BY <2>2, <2>3 DEF AnswersInv
  <2>6. OneByOne'
    <3>1. CASE req.op \in Many
      <4>1. Len(answers) = pos - 1 /\ \A k \in 1..Len(answers) : answers[k].addr = req.addrs[k]
        BY <3>1 DEF AnswersInv, OneByOne
      <4>2. Len(answers') = pos' - 1 /\ \A k \in 1..Len(answers') : answers'[k].addr = req.addrs[k]
        BY <1>1, <2>2, <2>3, <4>1 DEF Here
      <4>3. end' \in {"running", "done"}
        BY <2>2
      <4> QED
        BY <4>2, <4>3 DEF OneByOne
    <3>2. CASE req.op \notin Many
      BY <3>2 DEF OneByOne
    <3> QED
      BY <3>1, <3>2
  <2>7. ZoneInv'
    <3> SUFFICES ASSUME req.op = "ip_to_rdns" PROVE ZoneInv'
      BY DEF ZoneInv
    <3>1. Len(req.addrs) = 1 /\ req.v4_boundary \in Int /\ req.v6_boundary \in Int
      BY <1>1, RequestsAre, LookupsAssumption DEF OneAddress, InPlace, LookupsAssumption
    <3>2. pos = 1 /\ Len(answers) = 0
      BY <1>1, <3>1 DEF InPlace, AnswersInv, ZoneInv
    <3>3. end' = "done" /\ answers'[1] = a /\ Here = req.addrs[1]
      BY <2>2, <3>1, <3>2 DEF Here
    <3>4. req.boundary => IsZoneOf(r.value, Here, req.v6_boundary, req.v4_boundary)
      BY <1>2, <3>1, ZoneHolds
    <3> QED
      BY <2>3, <3>3, <3>4 DEF ZoneInv, IsZoneOf
  <2> QED
    BY <2>2, <2>4, <2>5, <2>6, <2>7 DEF AnswersInv
<1>3. CASE ~Ok(r)
  <2>1. end' = r.raises /\ UNCHANGED <<pos, answers>>
    BY <1>3 DEF Give, Fail
  <2>2. InPlace'
    BY <1>1, <2>1, FailsInPlace
  <2>3. \A k \in 1..Len(answers') : Right(answers[k])'
    BY <2>1 DEF AnswersInv, Right, Refused, Suits
  <2>4. OneByOne'
    BY <1>3, <2>1 DEF AnswersInv, OneByOne
  <2>5. ZoneInv'
    <3> SUFFICES ASSUME req.op = "ip_to_rdns" PROVE ZoneInv'
      BY DEF ZoneInv
    <3>1. r \in {Raise("BoundaryException"), Raise("ValueError")}
      BY <1>3, HowItEnds DEF ip_to_rdns
    <3>2. end' \notin {"running", "done"}
      BY <2>1, <3>1, HowItEnds
    <3> QED
      BY <3>2 DEF ZoneInv
  <2> QED
    BY <2>2, <2>3, <2>4, <2>5 DEF AnswersInv
<1> QED
  BY <1>2, <1>3

\* Only geoip_manager has a block.
LEMMA BlockKeeps ==
  ASSUME BlockInv, UNCHANGED <<req, block>>, req.op # "geoip_manager"
  PROVE  BlockInv'
BY DEF BlockInv, ManagerCloses

\* An address is refused if it is of the wrong version.
LEMMA RefusedIs ==
  ASSUME req \in Requests, NEW addr
  PROVE  Refused(addr) <=> Wrong(addr, req.version)
BY RequestsAre, SockVer DEF Refused, Wrong

\* A list suits if each of its addresses fits.
LEMMA SuitsIs ==
  ASSUME req \in Requests, NEW addr, NEW ips,
         \A k \in DOMAIN ips : IsFit(ips[k], addr, req.version, req.v4_convert)
  PROVE  Suits(addr, ips)
<1>1. sock_ver(req.version) = req.version
  BY RequestsAre, SockVer
<1>2. \A ip \in Range(ips) : IsFit(ip, addr, req.version, req.v4_convert)
  BY DEF Range
<1> QED
  BY <1>1, <1>2 DEF Suits, IsFit

\* What a call hears of the DNS is addresses of the version asked for, or an exception.
LEMMA HeardIs ==
  ASSUME req \in Requests, NEW heard \in Heard(req.version)
  PROVE  Answer(req.version, heard)
<1>1. sock_ver(req.version) = req.version
  BY RequestsAre, SockVer
<1>2. heard = Fault \/ \E n \in 0..MaxHeard : heard \in [1..n -> Family(req.version)]
  BY <1>1 DEF Heard
<1>3. \A n \in 0..MaxHeard : n \in Nat
  BY LookupsAssumption DEF LookupsAssumption
<1> QED
  BY <1>2, <1>3, FunctionsAreLists DEF Answer

\* Names into addresses, several at a time.
LEMMA ResolvingKeeps ==
  ASSUME LookupInv, resolve_ips_multi \/ resolve_ips_multi_async
  PROVE  LookupInv'
<1>1. /\ req.op \in Resolving /\ end = "running" /\ UNCHANGED <<req, readers, block>>
      /\ req \in Requests /\ pos \in 1..Len(req.addrs)
  BY RequestsAre DEF resolve_ips_multi, resolve_ips_multi_async, Asked, NoReader, Resolving,
     LookupInv, AnswersInv, InPlace
<1>2. PICK heard \in Heard(req.version) : Give(OrNone(resolve_ips(Here, req.version, req.v4_convert, heard)))
  BY DEF resolve_ips_multi, resolve_ips_multi_async, resolve_ips_async
<1> DEFINE s == resolve_ips(Here, req.version, req.v4_convert, heard)
           r == OrNone(s)
<1>3. Here \in Hosts /\ req.version \in Versions /\ req.v4_convert \in BOOLEAN /\ Answer(req.version, heard)
  BY <1>1, HeardIs, RequestsAre DEF Here
<1>4. /\ Wrong(Here, req.version) => s = Raise("AttributeError")
      /\ ~Wrong(Here, req.version) =>
           /\ Ok(s) /\ s.value \in Seq(Literals)
           /\ \A k \in 1..Len(s.value) : IsFit(s.value[k], Here, req.version, req.v4_convert)
  BY <1>3, Resolves
<1> HIDE DEF s
<1>5. Ok(r) /\ Right([addr |-> Here, value |-> r.value])
  <2>1. req.op \notin ResolvingOne
    BY <1>1 DEF Resolving, ResolvingOne
  <2>2. CASE Wrong(Here, req.version)
    <3>1. s.raises = "AttributeError"
      BY <1>4, <2>2, HowItEnds
    <3>2. r = Value(Nothing)
      BY <3>1 DEF OrNone
    <3>3. Ok(r) /\ r.value = Nothing
      BY <3>2, HowItEnds
    <3> HIDE DEF r
    <3> QED
      BY <1>1, <2>1, <2>2, <3>3, RefusedIs DEF Right
  <2>3. CASE ~Wrong(Here, req.version)
    <3>1. s.raises = ""
      BY <1>4, <2>3 DEF Ok
    <3>2. r = s
      BY <3>1 DEF OrNone
    <3>3. Ok(r) /\ r.value \in Seq(Literals) /\ r.value # Nothing
      BY <1>4, <2>3, <3>2, NoneAssumption DEF NoneAssumption
    <3>4. Suits(Here, r.value)
      <4>1. DOMAIN r.value = 1..Len(r.value)
        BY <3>3
      <4> HIDE DEF r
      <4> QED
        BY <1>1, <1>4, <2>3, <3>2, <4>1, SuitsIs
    <3> HIDE DEF r
    <3> QED
      BY <1>1, <2>1, <2>3, <3>3, <3>4, RefusedIs DEF Right
  <2> QED
    BY <2>2, <2>3
<1>6. req.op # "geolocate_ips" /\ req.op # "ip_to_rdns" /\ req.op # "geoip_manager"
  BY <1>1 DEF Resolving
<1>7. Give(r)
  BY <1>2 DEF s
<1> HIDE DEF r
<1>8. AnswersInv'
  BY <1>1, <1>5, <1>6, <1>7, Gives DEF LookupInv
<1> QED
  BY <1>1, <1>6, <1>8, BlockKeeps DEF LookupInv

\* Names into addresses, one at a time.
LEMMA ResolvingOneKeeps ==
  ASSUME LookupInv, ResolveOne
  PROVE  LookupInv'
<1>1. /\ req.op \in ResolvingOne /\ end = "running" /\ UNCHANGED <<req, readers, block>>
      /\ req \in Requests /\ pos \in 1..Len(req.addrs)
  BY RequestsAre DEF ResolveOne, Asked, NoReader, ResolvingOne, LookupInv, AnswersInv, InPlace
<1>2. PICK heard \in Heard(req.version) : Give(resolve_ip(Here, req.version, req.v4_convert, heard))
  BY DEF ResolveOne, resolve_ip_async, resolve_ips_async, resolve_ip
<1> DEFINE r == resolve_ip(Here, req.version, req.v4_convert, heard)
<1>3. Here \in Hosts /\ req.version \in Versions /\ req.v4_convert \in BOOLEAN /\ Answer(req.version, heard)
  BY <1>1, HeardIs, RequestsAre DEF Here
<1>4. /\ Wrong(Here, req.version) => r = Raise("AttributeError")
      /\ ~Wrong(Here, req.version) =>
           Ok(r) /\ (r.value = Nothing \/ IsFit(r.value, Here, req.version, req.v4_convert))
  BY <1>3, ResolvesOne
<1> HIDE DEF r
<1>5. Ok(r) => Right([addr |-> Here, value |-> r.value])
  <2> SUFFICES ASSUME Ok(r) PROVE Right([addr |-> Here, value |-> r.value])
    OBVIOUS
  <2>1. r.value = Nothing \/ IsFit(r.value, Here, req.version, req.v4_convert)
    BY <1>4, HowItEnds
  <2>2. r.value # Nothing => Suits(Here, <<r.value>>)
    <3>1. DOMAIN <<r.value>> = 1..1 /\ <<r.value>>[1] = r.value
      OBVIOUS
    <3>2. r.value # Nothing => \A k \in DOMAIN <<r.value>> : IsFit(<<r.value>>[k], Here, req.version, req.v4_convert)
      BY <2>1, <3>1
    <3> QED
      BY <1>1, <3>2, SuitsIs
  <2>3. req.op \notin Resolving
    BY <1>1 DEF Resolving, ResolvingOne
  <2> QED
    BY <2>2, <2>3 DEF Right
<1>6. req.op # "geolocate_ips" /\ req.op # "ip_to_rdns" /\ req.op # "geoip_manager" /\ req.op \notin Many
  BY <1>1 DEF ResolvingOne, Many
<1>7. AnswersInv'
  BY <1>1, <1>2, <1>5, <1>6, Gives DEF LookupInv, r
<1> QED
  BY <1>1, <1>6, <1>7, BlockKeeps DEF LookupInv

\* The others that give one result for each address.
PlainCalls == {"get_rdns_multi", "get_rdns_async", "asn_to_name", "ip_to_rdns", "ping", "geolocate_ip"}

\* Their results need only be in their place.
LEMMA PlainGives ==
  ASSUME LookupInv, req.op \in PlainCalls, end = "running", UNCHANGED <<req, block>>, NEW r, Give(r),
         req.op = "get_rdns_multi" /\ ~Ok(r) => req.throw,
         req.op = "ip_to_rdns" => r = ip_to_rdns(Here, req.boundary, req.v6_boundary, req.v4_boundary)
  PROVE  LookupInv'
<1>1. /\ req.op # "geolocate_ips" /\ req.op # "geoip_manager"
      /\ req.op \notin Resolving /\ req.op \notin ResolvingOne
      /\ req.op \in Many => req.op = "get_rdns_multi"
  BY DEF PlainCalls, Resolving, ResolvingOne, Many
<1>2. Right([addr |-> Here, value |-> r.value])
  BY <1>1 DEF Right
<1>3. AnswersInv'
  BY <1>1, <1>2, Gives DEF LookupInv
<1> QED
  BY <1>1, <1>3, BlockKeeps DEF LookupInv

\* So it is of every one of them.
LEMMA PlainKeeps ==
  ASSUME LookupInv, get_rdns_multi \/ NameOf \/ asn_to_name \/ PointerName \/ ping \/ LocateOne
  PROVE  LookupInv'
<1>1. CASE get_rdns_multi
  <2>1. PICK answer \in {"name", "herror", "gaierror"} : Give(get_rdns(Here, req.throw, answer))
    BY <1>1 DEF get_rdns_multi
  <2>2. req.op = "get_rdns_multi" /\ end = "running" /\ UNCHANGED <<req, block>>
    BY <1>1 DEF get_rdns_multi, Asked, NoReader
  <2>3. ~req.throw => Ok(get_rdns(Here, req.throw, answer))
    BY HowItEnds DEF get_rdns, Quietly
  <2> QED
    BY <2>1, <2>2, <2>3, PlainGives DEF PlainCalls
<1>2. CASE NameOf
  <2>1. /\ req.op = "get_rdns_async" /\ end = "running" /\ UNCHANGED <<req, block>>
        /\ \E r : Give(r)
    BY <1>2 DEF NameOf, Asked, NoReader
  <2> QED
    BY <2>1, PlainGives DEF PlainCalls
<1>3. CASE asn_to_name
  <2>1. /\ req.op = "asn_to_name" /\ end = "running" /\ UNCHANGED <<req, block>>
        /\ \E r : Give(r)
    BY <1>3 DEF asn_to_name, Asked, NoReader
  <2> QED
    BY <2>1, PlainGives DEF PlainCalls
<1>4. CASE PointerName
  <2>1. /\ req.op = "ip_to_rdns" /\ end = "running" /\ UNCHANGED <<req, block>>
        /\ Give(ip_to_rdns(Here, req.boundary, req.v6_boundary, req.v4_boundary))
    BY <1>4 DEF PointerName, Asked, NoReader
  <2> QED
    BY <2>1, PlainGives DEF PlainCalls
<1>5. CASE ping
  <2>1. /\ req.op = "ping" /\ end = "running" /\ UNCHANGED <<req, block>>
        /\ \E r : Give(r)
    BY <1>5 DEF ping, Asked, NoReader
  <2> QED
    BY <2>1, PlainGives DEF PlainCalls
<1>6. CASE LocateOne
  <2>1. /\ req.op = "geolocate_ip" /\ end = "running" /\ UNCHANGED <<req, block>>
        /\ \E r : Give(r)
    BY <1>6 DEF LocateOne, Asked
  <2> QED
    BY <2>1, PlainGives DEF PlainCalls
<1> QED
  BY <1>1, <1>2, <1>3, <1>4, <1>5, <1>6

\* The list of addresses to locate: the answers of one address, or the None that ends the call.
LEMMA LocatingKeeps ==
  ASSUME LookupInv, geolocate_ips
  PROVE  LookupInv'
<1>1. PICK city, asn \in Finds(Here), data \in GeoIPResult :
        LET r == geolocate_ip(req.throw, city, asn, data)
            res == IF Ok(r) THEN r.value ELSE Nothing
        IN  IF ~Ok(r) /\ req.throw THEN Fail(r.raises)
            ELSE IF res = Nothing
              THEN /\ answers' = Append(answers, [addr |-> Here, value |-> Nothing])
                   /\ end' = "AttributeError"
                   /\ UNCHANGED pos
              ELSE Yield(IF ~res.country /\ res.asn /\ res.location THEN <<Nothing, res>> ELSE <<res>>)
  BY DEF geolocate_ips
<1> DEFINE r == geolocate_ip(req.throw, city, asn, data)
           res == IF Ok(r) THEN r.value ELSE Nothing
           values == IF ~res.country /\ res.asn /\ res.location THEN <<Nothing, res>> ELSE <<res>>
<1>2. \/ ~Ok(r) /\ req.throw /\ Fail(r.raises)
      \/ /\ answers' = Append(answers, [addr |-> Here, value |-> Nothing])
         /\ end' = "AttributeError"
         /\ UNCHANGED pos
      \/ Yield(values)
  BY <1>1
<1>3. \E v, w : values = <<v, w>> \/ values = <<v>>
  OBVIOUS
<1> HIDE DEF r, values
<1>4. req.op = "geolocate_ips" /\ end = "running" /\ UNCHANGED <<req, block>> /\ InPlace
  BY DEF geolocate_ips, Asked, LookupInv, AnswersInv
<1>5. req.op \notin Many /\ req.op # "ip_to_rdns" /\ req.op # "geoip_manager"
      /\ req.op \notin Resolving /\ req.op \notin ResolvingOne
  BY <1>4 DEF Many, Resolving, ResolvingOne
<1>6. (\A k \in 1..Len(answers') : Right(answers[k])') /\ ZoneInv'
  BY <1>4, <1>5 DEF Right, ZoneInv
<1>7. BlockInv'
  BY <1>4, <1>5, BlockKeeps DEF LookupInv
<1>8. CASE ~Ok(r) /\ req.throw /\ Fail(r.raises)
  <2>1. InPlace'
    BY <1>4, <1>8, FailsInPlace DEF Fail
  <2>2. OneByOne'
    BY <1>4, <1>5, <1>8 DEF OneByOne
  <2> QED
    BY <1>6, <1>7, <2>1, <2>2 DEF LookupInv, AnswersInv
<1>9. CASE /\ answers' = Append(answers, [addr |-> Here, value |-> Nothing])
           /\ end' = "AttributeError"
           /\ UNCHANGED pos
  <2> DEFINE a == [addr |-> Here, value |-> Nothing]
  <2>1. a.addr = Here
    OBVIOUS
  <2>2. <<a>> \in Seq(Range(<<a>>)) /\ Len(<<a>>) = 1 /\ <<a>>[1] = a
    BY DEF Range
  <2>3. answers' = answers \o <<a>>
    <3>1. answers \in Seq(Range(answers) \cup {a})
      BY <1>4, SeqDef DEF InPlace
    <3> QED
      BY <1>9, <3>1
  <2>4. end' = "AttributeError" /\ UNCHANGED pos
    BY <1>9
  <2> HIDE DEF a
  <2>5. \A k \in 1..Len(<<a>>) : <<a>>[k].addr = Here
    BY <2>1, <2>2
  <2>6. InPlace'
    BY <1>4, <2>2, <2>3, <2>4, <2>5, GrowsInPlace
  <2>7. Last(answers') = a /\ Here' = Here
    <3>1. Len(answers') = Len(answers) + 1 /\ answers'[Len(answers) + 1] = <<a>>[1]
      BY <1>4, <2>2, <2>3, Longer DEF InPlace
    <3> QED
      BY <1>4, <2>2, <2>4, <3>1 DEF Last, Here
  <2>8. OneByOne'
    BY <1>4, <1>5, <2>7 DEF OneByOne, a
  <2> QED
    BY <1>6, <1>7, <2>6, <2>8 DEF LookupInv, AnswersInv
<1>10. CASE Yield(values)
  <2> DEFINE t == [k \in 1..Len(values) |-> [addr |-> Here, value |-> values[k]]]
  <2>1. Len(values) \in Nat /\ Len(values) >= 1
    <3>1. \A v, w : Len(<<v>>) = 1 /\ Len(<<v, w>>) = 2
      OBVIOUS
    <3>2. Len(values) = 1 \/ Len(values) = 2
      BY <1>3, <3>1, Zenon
    <3> QED
      BY <3>2
  <2>2. /\ answers' = answers \o t /\ pos' = pos + 1
        /\ end' = IF pos = Len(req.addrs) THEN "done" ELSE "running"
    BY <1>10 DEF Yield
  <2>3. \A k \in 1..Len(values) : t[k].addr = Here
    OBVIOUS
  <2>4. t \in [1..Len(values) -> Range(t)]
    BY DEF Range
  <2> HIDE DEF t
  <2>5. t \in Seq(Range(t)) /\ Len(t) = Len(values)
    BY <2>1, <2>4, FunctionsAreLists
  <2>6. InPlace'
    BY <1>4, <2>1, <2>2, <2>3, <2>5, GrowsInPlace
  <2>7. OneByOne'
    BY <1>4, <1>5, <2>2 DEF OneByOne
  <2> QED
    BY <1>6, <1>7, <2>6, <2>7 DEF LookupInv, AnswersInv
<1> QED
  BY <1>2, <1>8, <1>9, <1>10

\* The readers a geoip_manager block or a caller between two answers opens and closes.
LEMMA AnswersKeep ==
  ASSUME AnswersInv, UNCHANGED <<req, pos, answers, end>>
  PROVE  AnswersInv'
BY DEF AnswersInv, InPlace, InOrder, OneByOne, Right, Refused, Suits, ZoneInv, Here

\* Opening and closing readers leaves the answers alone; a block ends with none open.
LEMMA ReadersKeep ==
  ASSUME LookupInv, cleanup \/ EnterManager \/ InManager
  PROVE  LookupInv'
<1>1. CASE cleanup
  <2>1. UNCHANGED <<req, pos, answers, end, block>> /\ req.op # "geoip_manager"
    BY <1>1 DEF cleanup, Asked
  <2> QED
    BY <2>1, AnswersKeep, BlockKeeps DEF LookupInv
<1>2. CASE EnterManager
  <2>1. UNCHANGED <<req, pos, answers, end>> /\ block' = "inside" /\ req.op = "geoip_manager"
        /\ readers' = readers \cup (Readers \cap {req.kind})
    BY <1>2 DEF EnterManager, Asked
  <2>2. req.kind \in Readers \cup {Nothing}
    BY <2>1, RequestsAre DEF LookupInv, AnswersInv, InPlace
  <2>3. BlockInv'
    BY <2>1, <2>2 DEF BlockInv, ManagerCloses
  <2> QED
    BY <2>1, <2>3, AnswersKeep DEF LookupInv
<1>3. CASE InManager
  <2>1. PICK city, asn \in Finds(Here), data \in GeoIPResult :
          LET r == geolocate_ip(TRUE, city, asn, data)
          IN  /\ Give(r)
              /\ block' = IF Ok(r) THEN "left" ELSE "raised"
              /\ readers' = IF Ok(r) THEN {} ELSE Opened(city)
    BY <1>3 DEF InManager
  <2> DEFINE r == geolocate_ip(TRUE, city, asn, data)
  <2>2. /\ Give(r) /\ block' = (IF Ok(r) THEN "left" ELSE "raised")
        /\ readers' = (IF Ok(r) THEN {} ELSE Opened(city))
    BY <2>1
  <2> HIDE DEF r
  <2>3. UNCHANGED req /\ req.op = "geoip_manager" /\ end = "running"
    BY <1>3 DEF InManager, Asked
  <2>4. /\ req.op # "geolocate_ips" /\ req.op # "ip_to_rdns" /\ req.op \notin Many
        /\ req.op \notin Resolving /\ req.op \notin ResolvingOne
    BY <2>3 DEF Many, Resolving, ResolvingOne
  <2>5. Right([addr |-> Here, value |-> r.value])
    BY <2>4 DEF Right
  <2>6. AnswersInv'
    BY <2>2, <2>3, <2>4, <2>5, Gives DEF LookupInv
  <2>7. BlockInv'
    BY <2>2, <2>3 DEF BlockInv, ManagerCloses
  <2> QED
    BY <2>6, <2>7 DEF LookupInv
<1> QED
  BY <1>1, <1>2, <1>3

\* A call begins with no answers.
LEMMA LookupsBegin == LookupInit => LookupInv
<1> SUFFICES ASSUME LookupInit PROVE LookupInv
  OBVIOUS
<1>1. req \in Requests /\ pos = 1 /\ answers = <<>> /\ end = "running" /\ block = "outside"
  BY DEF LookupInit
<1>2. Len(req.addrs) \in Nat /\ Len(req.addrs) >= 1
  BY <1>1, RequestsAre
<1>3. answers \in Seq(Range(answers)) /\ Len(answers) = 0
  BY <1>1
<1>4. InOrder
  <2>1. 1..Len(answers) = {} /\ 1..pos - 1 = {}
    BY <1>1, <1>3
  <2> DEFINE at == [k \in 1..Len(answers) |-> 1]
  <2>2. at \in [1..Len(answers) -> 1..Len(req.addrs)] /\ DOMAIN at = {}
    BY <2>1
  <2> HIDE DEF at
  <2> QED
    BY <2>1, <2>2 DEF InOrder
<1>5. OneByOne
  BY <1>1, <1>3 DEF OneByOne
<1>6. ZoneInv
  BY <1>1, <1>3 DEF ZoneInv
<1>7. BlockInv
  BY <1>1 DEF BlockInv, ManagerCloses
<1> QED
  BY <1>1, <1>2, <1>3, <1>4, <1>5, <1>6, <1>7 DEF LookupInv, AnswersInv, InPlace

\* The answers of a call fit the addresses it was given: in their order, none of them
\* without its answer through another's failure, of the version asked for, None only for
\* one of the other version; a zone of the reverse DNS holds its address; and a block of
\* geoip_manager leaves no reader open (net/dns.py, net/util.py, geoip.py).
THEOREM AnswersFitAddresses == LookupSpec => []AnswersFit
<1>1. LookupInv /\ [LookupNext]_lookupVars => LookupInv'
  <2> SUFFICES ASSUME LookupInv, [LookupNext]_lookupVars PROVE LookupInv'
    OBVIOUS
  <2>1. CASE resolve_ips_multi \/ resolve_ips_multi_async
    BY <2>1, ResolvingKeeps
  <2>2. CASE ResolveOne
    BY <2>2, ResolvingOneKeeps
  <2>3. CASE get_rdns_multi \/ NameOf \/ asn_to_name \/ PointerName \/ ping \/ LocateOne
    BY <2>3, PlainKeeps
  <2>4. CASE geolocate_ips
    BY <2>4, LocatingKeeps
  <2>5. CASE cleanup \/ EnterManager \/ InManager
    BY <2>5, ReadersKeep
  <2>6. CASE UNCHANGED lookupVars
    <3>1. UNCHANGED <<req, pos, answers, end, readers, block>>
      BY <2>6 DEF lookupVars
    <3>2. BlockInv'
      BY <3>1 DEF LookupInv, BlockInv, ManagerCloses
    <3> QED
      BY <3>1, <3>2, AnswersKeep DEF LookupInv
  <2> QED
    BY <2>1, <2>2, <2>3, <2>4, <2>5, <2>6 DEF LookupNext
<1>2. LookupInv => AnswersFit
  <2> SUFFICES ASSUME LookupInv PROVE AnswersFit
    OBVIOUS
  <2>1. InOrder /\ OneByOne /\ ManagerCloses /\ \A k \in 1..Len(answers) : Right(answers[k])
    BY DEF LookupInv, AnswersInv, InPlace, BlockInv
  <2>2. ZoneHoldsAddress
    BY DEF LookupInv, AnswersInv, ZoneInv, ZoneHoldsAddress, IsZoneOf
  <2> QED
    BY <2>1, <2>2 DEF AnswersFit, Right, Resolving, ResolvingOne
<1> QED
  BY <1>1, <1>2, LookupsBegin, PTL DEF LookupSpec

-----------------------------------------------------------------------------
(* Threads that loop until an event stops them *)

\* The events the current reading has yet to look at.
Ahead == {Flags(pc)[i] : i \in index..Len(Flags(pc))}

Spare(e) == late[e] < allowed[e]

\* e is set: if there is no loop() left for it to let through, the reading under way
\* will find it set.
Caught(e) ==
    /\ late[e] <= allowed[e]
    /\ e \in EventsOf(StopEvents) =>
         /\ pc = "stop" => Spare(e) \/ found \/ e \in Ahead
         /\ pc \in {"pause", "held", "nap", "loop"} => Spare(e)
    /\ e \in EventsOf(PauseEvents) =>
         /\ pc \in {"pause", "held"} => Spare(e) \/ found \/ e \in Ahead
         /\ pc = "loop" => Spare(e)

IInv == TypeOK /\ \A e \in Events : flag[e] => Caught(e)

-----------------------------------------------------------------------------

\* Both lists have a first event, and a position in them names one of the events.
LEMMA FlagsType ==
    ASSUME NEW label \in Reading
    PROVE  /\ Len(Flags(label)) \in Nat /\ 1 \in 1..Len(Flags(label))
           /\ \A i \in 1..Len(Flags(label)) : Flags(label)[i] \in Events
  BY SafeLoopAssumption DEF Flags, Events, EventsOf

\* The thread is created with its types.
LEMMA TypeInit ==
    ASSUME Init
    PROVE  TypeOK
<1>1. flag \in [Events -> BOOLEAN] /\ index \in Nat /\ found \in BOOLEAN /\ refused \in BOOLEAN
  BY DEF Init
<1>2. pc \in Reading \cup {"new", "nap", "loop", "rest", "dead"} /\ pc \notin Reading
  BY DEF Init, Reading
<1>3. late \in [Events -> 0..2] /\ allowed \in [Events -> 0..1]
  BY DEF Init
<1> QED BY <1>1, <1>2, <1>3 DEF TypeOK

\* Every step keeps the types, the index of a reading within its list.
LEMMA TypeStep ==
    ASSUME TypeOK, [Next]_vars
    PROVE  TypeOK'
<1> USE DEF TypeOK, Reading
<1>1. \A label \in Reading : 1 \in 1..Len(Flags(label)) /\ Len(Flags(label)) \in Nat
  BY FlagsType
<1>2. CASE ReadFlag
  <2>1. pc \in Reading /\ index \in 1..Len(Flags(pc)) /\ Flags(pc)[index] \in Events
    BY <1>2, FlagsType DEF ReadFlag
  <2> DEFINE answer == found \/ flag[Flags(pc)[index]]
  <2>2. answer \in BOOLEAN
    BY <2>1
  <2>3. CASE index = Len(Flags(pc))
    <3>1. Decide(answer) /\ UNCHANGED <<flag, refused, late, allowed>>
      BY <1>2, <2>3 DEF ReadFlag
    <3>2. found' \in BOOLEAN
      BY <2>1, <3>1, Zenon DEF Decide, Read
    <3>3. /\ index' = 1
          /\ pc' \in {"pause", "held", "dead", "loop", "nap"}
      <4>1. CASE pc = "stop"
        BY <3>1, <4>1 DEF Decide, Read
      <4>2. CASE pc = "pause"
        BY <3>1, <4>2 DEF Decide, Read
      <4>3. CASE pc = "held"
        BY <3>1, <4>3 DEF Decide, Read
      <4> QED BY <2>1, <4>1, <4>2, <4>3
    <3>4. flag' = flag /\ refused' = refused /\ late' = late /\ allowed' = allowed
      BY <3>1
    <3> HIDE DEF Reading
    <3>5. pc' \in Reading => index' \in 1..Len(Flags(pc'))
      BY <1>1, <3>3
    <3> QED BY <3>2, <3>3, <3>4, <3>5 DEF Reading
  <2>4. CASE index # Len(Flags(pc))
    BY <1>1, <1>2, <2>1, <2>2, <2>4 DEF ReadFlag
  <2> QED BY <2>3, <2>4
<1>3. CASE Nap
  BY <1>1, <1>3 DEF Nap, Read
<1>4. CASE Loop
  BY <1>4 DEF Loop
<1>5. CASE Rest
  BY <1>1, <1>5 DEF Rest, Read
<1>6. CASE Start
  BY <1>1, <1>6 DEF Start, Read
<1>7. CASE StartAgain
  BY <1>7 DEF StartAgain
<1>8. ASSUME NEW e \in Events, SetEvent(e) PROVE TypeOK'
  BY <1>8 DEF SetEvent
<1>9. ASSUME NEW e \in Events, ClearEvent(e) PROVE TypeOK'
  BY <1>9 DEF ClearEvent
<1>10. CASE UNCHANGED vars
  BY <1>10 DEF vars
<1> QED
  BY <1>2, <1>3, <1>4, <1>5, <1>6, <1>7, <1>8, <1>9, <1>10 DEF Next, Run

\* The type invariant holds for every list of events: in particular no reading runs
\* past the end of its list (should_stop, should_pause).
THEOREM TypeCorrect == Spec => []TypeOK
<1>1. Init => TypeOK
  BY TypeInit
<1>2. TypeOK /\ [Next]_vars => TypeOK'
  BY TypeStep
<1> QED
  BY <1>1, <1>2, PTL DEF Spec

-----------------------------------------------------------------------------

\* A reading that begins has all of its events ahead of it.
LEMMA ReadAhead ==
    ASSUME NEW label \in Reading, Read(label)
    PROVE  /\ pc' = label /\ ~found'
           /\ label = "stop" => Ahead' = EventsOf(StopEvents)
           /\ label # "stop" => Ahead' = EventsOf(PauseEvents)
  BY DEF Read, Ahead, Flags, EventsOf, Reading

\* The reading of a flag keeps a set event caught: it goes past the event only by
\* finding it, and an answer that finds nothing leaves no event without a loop to spare.
LEMMA ReadStep ==
    ASSUME IInv, ReadFlag, NEW e \in Events, flag[e]
    PROVE  Caught(e)'
<1> DEFINE answer == found \/ flag[Flags(pc)[index]]
<1>1. /\ pc \in Reading /\ index \in 1..Len(Flags(pc)) /\ Len(Flags(pc)) \in Nat
      /\ Caught(e) /\ late' = late /\ allowed' = allowed /\ (Spare(e)' <=> Spare(e))
  BY FlagsType DEF IInv, TypeOK, ReadFlag, Spare
<1>2. CASE index # Len(Flags(pc))
  <2>1. pc' = pc /\ index' = index + 1 /\ (found' <=> answer)
    BY <1>2, Zenon DEF ReadFlag
  <2>2. e \in Ahead => answer \/ e \in Ahead'
    BY <1>1, <2>1 DEF Ahead, Flags
  <2>3. found \/ e \in Ahead => found' \/ e \in Ahead'
    BY <2>1, <2>2
  <2> QED
    BY <1>1, <2>1, <2>3 DEF Caught, Reading
<1>3. CASE index = Len(Flags(pc))
  <2>1. Decide(answer)
    BY <1>3 DEF ReadFlag
  <2>2. e \in Ahead \/ found => answer
    BY <1>1, <1>3 DEF Ahead
  <2>3. CASE pc = "stop"
    <3>1. answer => pc' = "dead"
      BY <2>1, <2>3 DEF Decide
    <3>2. ~answer => Read("pause")
      BY <2>1, <2>3 DEF Decide
    <3>3. CASE answer
      BY <1>1, <3>1, <3>3 DEF Caught
    <3>4. CASE ~answer
      <4>1. e \in EventsOf(StopEvents) => Spare(e)
        BY <1>1, <2>2, <2>3, <3>4 DEF Caught
      <4>2. pc' = "pause" /\ Ahead' = EventsOf(PauseEvents)
        BY <3>2, <3>4, ReadAhead DEF Reading
      <4> QED BY <1>1, <4>1, <4>2 DEF Caught
    <3> QED BY <3>3, <3>4
  <2>4. CASE pc = "pause"
    <3>1. answer => Read("held")
      BY <2>1, <2>4 DEF Decide
    <3>2. ~answer => pc' = "loop"
      BY <2>1, <2>4 DEF Decide
    <3>3. CASE answer
      <4>1. pc' = "held" /\ Ahead' = EventsOf(PauseEvents)
        BY <3>1, <3>3, ReadAhead DEF Reading
      <4> QED BY <1>1, <2>4, <4>1 DEF Caught
    <3>4. CASE ~answer
      BY <1>1, <2>2, <2>4, <3>2, <3>4 DEF Caught
    <3> QED BY <3>3, <3>4
  <2>5. CASE pc = "held"
    <3>1. pc' = IF answer THEN "nap" ELSE "loop"
      BY <2>1, <2>5 DEF Decide
    <3> QED BY <1>1, <2>2, <2>5, <3>1 DEF Caught
  <2> QED BY <1>1, <2>3, <2>4, <2>5 DEF Reading
<1> QED BY <1>2, <1>3

\* LateLoops for every list of stop and pause events: once an event is set and stays
\* set, at most one more loop() begins, and none when it was set before start().
THEOREM AtMostOneLateLoop == Spec => []LateLoops
<1>1. Init => IInv
  <2> SUFFICES ASSUME Init PROVE IInv
    OBVIOUS
  <2>1. TypeOK
    BY TypeInit
  <2>2. ASSUME NEW e \in Events PROVE Caught(e)
    BY DEF Init, Caught
  <2> QED BY <2>1, <2>2 DEF IInv
<1>2. IInv /\ [Next]_vars => IInv'
  <2> SUFFICES ASSUME IInv, [Next]_vars PROVE IInv'
    OBVIOUS
  <2>1. TypeOK /\ TypeOK'
    BY TypeStep DEF IInv
  <2> SUFFICES ASSUME NEW e \in Events, flag'[e] PROVE Caught(e)'
    BY <2>1 DEF IInv
  <2>2. flag[e] => Caught(e)
    BY DEF IInv
  <2>3. CASE ReadFlag
    <3>1. flag' = flag
      BY <2>3 DEF ReadFlag
    <3> QED BY <2>3, <3>1, ReadStep
  <2>4. CASE Nap
    <3>1. pc = "nap" /\ Read("held") /\ flag' = flag /\ late' = late /\ allowed' = allowed
      BY <2>4 DEF Nap
    <3>2. pc' = "held" /\ Ahead' = EventsOf(PauseEvents)
      BY <3>1, ReadAhead DEF Reading
    <3> QED BY <2>2, <3>1, <3>2 DEF Caught, Spare
  <2>5. CASE Loop
    <3>1. /\ pc = "loop" /\ pc' = "rest" /\ flag[e] /\ allowed' = allowed
          /\ late'[e] = IF late[e] < 2 THEN late[e] + 1 ELSE late[e]
      BY <2>5 DEF Loop
    <3>2. Spare(e)
      BY <2>2, <3>1 DEF Caught, Events
    <3> QED BY <2>1, <3>1, <3>2 DEF Caught, Spare, TypeOK
  <2>6. CASE Rest
    <3>1. pc = "rest" /\ Read("stop") /\ flag' = flag /\ late' = late /\ allowed' = allowed
      BY <2>6 DEF Rest
    <3>2. pc' = "stop" /\ Ahead' = EventsOf(StopEvents)
      BY <3>1, ReadAhead DEF Reading
    <3> QED BY <2>2, <3>1, <3>2 DEF Caught, Spare
  <2>7. CASE Start
    <3>1. pc = "new" /\ Read("stop") /\ flag' = flag /\ late' = late /\ allowed' = allowed
      BY <2>7 DEF Start
    <3>2. pc' = "stop" /\ Ahead' = EventsOf(StopEvents)
      BY <3>1, ReadAhead DEF Reading
    <3> QED BY <2>2, <3>1, <3>2 DEF Caught, Spare
  <2>8. CASE StartAgain
    BY <2>2, <2>8 DEF StartAgain, Caught, Spare, Ahead, Flags
  <2>9. ASSUME NEW x \in Events, SetEvent(x) PROVE Caught(e)'
    <3>1. /\ flag' = [flag EXCEPT ![x] = TRUE] /\ late' = [late EXCEPT ![x] = 0]
          /\ allowed' = [allowed EXCEPT ![x] = IF pc = "new" THEN 0 ELSE 1]
          /\ pc' = pc /\ index' = index /\ (found' <=> found)
      BY <2>9, Zenon DEF SetEvent
    <3>2. Ahead' = Ahead
      BY <3>1 DEF Ahead, Flags
    <3>3. CASE e = x
      <4>1. late'[e] = 0 /\ allowed'[e] = IF pc = "new" THEN 0 ELSE 1
        BY <2>1, <3>1, <3>3 DEF TypeOK
      <4> QED BY <3>1, <4>1 DEF Caught, Spare
    <3>4. CASE e # x
      <4>1. flag[e] /\ late'[e] = late[e] /\ allowed'[e] = allowed[e]
        BY <2>1, <3>1, <3>4 DEF TypeOK
      <4> QED BY <2>2, <3>1, <3>2, <4>1 DEF Caught, Spare
    <3> QED BY <3>3, <3>4
  <2>10. ASSUME NEW x \in Events, ClearEvent(x) PROVE Caught(e)'
    <3>1. /\ flag' = [flag EXCEPT ![x] = FALSE] /\ late' = [late EXCEPT ![x] = 0]
          /\ allowed' = [allowed EXCEPT ![x] = 0]
          /\ pc' = pc /\ index' = index /\ (found' <=> found)
      BY <2>10, Zenon DEF ClearEvent
    <3>2. e # x /\ flag[e] /\ late'[e] = late[e] /\ allowed'[e] = allowed[e]
      BY <2>1, <3>1 DEF TypeOK
    <3>3. Ahead' = Ahead
      BY <3>1 DEF Ahead, Flags
    <3> QED BY <2>2, <3>1, <3>2, <3>3 DEF Caught, Spare
  <2>11. CASE UNCHANGED vars
    BY <2>2, <2>11 DEF vars, Caught, Spare, Ahead, Flags
  <2> QED
    BY <2>3, <2>4, <2>5, <2>6, <2>7, <2>8, <2>9, <2>10, <2>11 DEF Next, Run
<1>3. IInv => LateLoops
  BY DEF IInv, Caught, LateLoops
<1> QED
  BY <1>1, <1>2, <1>3, PTL DEF Spec

-----------------------------------------------------------------------------
(* Retry *)

\* How many of the calls that were made are not accounted for by the two counters: the
\* last one, as long as no further call follows it.
Uncounted(c) == IF stage[c] \in {"except", "done"} THEN 1 ELSE 0

\* The limits bound the sum of the counters, because each retry starts below both: at most
\* MaxIgnore of ignored, and at most MaxRetries - 1 of retries.
CallsInv(c) ==
    MaxIgnore # Unlimited =>
        /\ retries[c] + ignored[c] <= MaxRetries + MaxIgnore
        /\ callsMade[c] = retries[c] + ignored[c] + Uncounted(c)

\* While the calls go on, each exception that counts has taken one retry, except the one
\* that is being dealt with.
FailuresInv(c) ==
    /\ stage[c] = "call" => failures[c] = retries[c]
    /\ stage[c] = "except" =>
          /\ outcome[c] \in {"fail", "ignored", "error"}
          /\ failures[c] = retries[c] + (IF outcome[c] = "ignored" THEN 0 ELSE 1)
    /\ stage[c] = "done" /\ outcome[c] = "error" /\ ~TooManyIgnored(c) =>
          failures[c] = MaxRetries + 1

\* The invariant.
RetryInv == RetryTypeOK /\ \A c \in Retriers : CallsInv(c) /\ FailuresInv(c)

\* The cap of the history counters is a number.
LEMMA CapType == CallCap \in Nat /\ CallCap >= MaxRetries + 2
<1>1. CASE MaxIgnore = Unlimited
  BY <1>1, RetryAssumption DEF CallCap
<1>2. CASE MaxIgnore # Unlimited
  <2>1. MaxIgnore \in Nat /\ CallCap = MaxRetries + 2 + MaxIgnore
    BY <1>2, RetryAssumption DEF CallCap
  <2> QED
    BY <2>1, RetryAssumption
<1> QED
  BY <1>1, <1>2

\* Retry's variables start in their types.
LEMMA RetryStartTypes == RetryInit => RetryTypeOK
BY CapType, RetryAssumption DEF RetryInit, RetryTypeOK, Outcomes

\* The same of each step.
LEMMA RetryStepTypes == RetryTypeOK /\ [RetryNext]_retryVars => RetryTypeOK'
<1> SUFFICES ASSUME RetryTypeOK, [RetryNext]_retryVars PROVE RetryTypeOK'
  OBVIOUS
<1> USE CapType, RetryAssumption
<1>1. CASE UNCHANGED retryVars
  BY <1>1 DEF RetryTypeOK, retryVars
<1>2. ASSUME NEW c \in Retriers, Begin(c) PROVE RetryTypeOK'
  BY <1>2 DEF Begin, Goto, RetryTypeOK
<1>3. ASSUME NEW c \in Retriers, CallFunction(c) PROVE RetryTypeOK'
  <2>1. PICK o \in Outcomes :
            /\ outcome' = [outcome EXCEPT ![c] = o]
            /\ Goto(c, IF o \in {"value", "base"} THEN "done" ELSE "except")
            /\ failures' = [failures EXCEPT ![c] = CountUp(@, o \in {"fail", "error"})]
    BY <1>3 DEF CallFunction
  <2>2. CountUp(failures[c], o \in {"fail", "error"}) \in 0..CallCap
    BY DEF RetryTypeOK, CountUp
  <2>3. CountUp(callsMade[c], TRUE) \in 0..CallCap
    BY DEF RetryTypeOK, CountUp
  <2> QED
    BY <1>3, <2>1, <2>2, <2>3 DEF CallFunction, Goto, RetryTypeOK
<1>4. ASSUME NEW c \in Retriers, RunAgain(c) PROVE RetryTypeOK'
  BY <1>4 DEF RunAgain, Again, TooManyIgnored, Retried, Goto, RetryTypeOK
<1>5. ASSUME NEW c \in Retriers, GiveUp(c) PROVE RetryTypeOK'
  BY <1>5 DEF GiveUp, Goto, RetryTypeOK
<1>6. ASSUME NEW c \in Retriers, Interrupt(c) PROVE RetryTypeOK'
  BY <1>6 DEF Interrupt, Goto, RetryTypeOK, Outcomes
<1> QED
  BY <1>1, <1>2, <1>3, <1>4, <1>5, <1>6 DEF RetryNext, Step

\* A caller's counters do not change in another caller's steps.
LEMMA RetryOthersStep ==
    ASSUME RetryTypeOK, NEW c \in Retriers, NEW d \in Retriers, c # d,
           Begin(c) \/ Step(c) \/ Interrupt(c)
    PROVE  UNCHANGED <<stage[d], outcome[d], retries[d], ignored[d], callsMade[d], failures[d]>>
BY DEF RetryTypeOK, Begin, Step, CallFunction, RunAgain, GiveUp, Interrupt, Retried, Goto

\* The step of a caller keeps its own part of the invariant.
LEMMA RetryOwnStep ==
    ASSUME RetryTypeOK, NEW c \in Retriers, CallsInv(c), FailuresInv(c),
           Begin(c) \/ Step(c) \/ Interrupt(c)
    PROVE  CallsInv(c)' /\ FailuresInv(c)'
<1> USE CapType, RetryAssumption DEF RetryTypeOK
<1>1. CASE Begin(c)
  BY <1>1 DEF Begin, Goto, CallsInv, FailuresInv, Uncounted
<1>2. CASE CallFunction(c)
  <2>1. PICK o \in Outcomes :
            /\ outcome' = [outcome EXCEPT ![c] = o]
            /\ Goto(c, IF o \in {"value", "base"} THEN "done" ELSE "except")
            /\ failures' = [failures EXCEPT ![c] = CountUp(@, o \in {"fail", "error"})]
    BY <1>2 DEF CallFunction
  <2>2. stage[c] = "call" /\ stage'[c] \in {"except", "done"}
        /\ (stage'[c] = "done" => o \in {"value", "base"})
        /\ (stage'[c] = "except" => o \in {"fail", "ignored", "error"})
    BY <1>2, <2>1 DEF CallFunction, Goto, Outcomes
  <2>3. retries' = retries /\ ignored' = ignored /\ outcome'[c] = o
    BY <1>2, <2>1 DEF CallFunction
  <2>4. CallsInv(c)'
    <3> SUFFICES ASSUME MaxIgnore # Unlimited
                 PROVE  /\ retries[c] + ignored[c] <= MaxRetries + MaxIgnore
                        /\ callsMade'[c] = retries[c] + ignored[c] + 1
      BY <2>2, <2>3 DEF CallsInv, Uncounted
    <3>1. callsMade[c] = retries[c] + ignored[c] /\ retries[c] + ignored[c] <= MaxRetries + MaxIgnore
      BY <2>2 DEF CallsInv, Uncounted
    <3>2. callsMade[c] < CallCap
      BY <3>1 DEF CallCap
    <3>3. callsMade'[c] = CountUp(callsMade[c], TRUE)
      BY <1>2 DEF CallFunction
    <3> QED
      BY <3>1, <3>2, <3>3 DEF CountUp
  <2>5. FailuresInv(c)'
    <3>1. failures[c] = retries[c] /\ failures[c] < CallCap
      BY <2>2 DEF FailuresInv
    <3>2. failures'[c] = CountUp(failures[c], o \in {"fail", "error"})
      BY <2>1
    <3>3. failures'[c] = retries[c] + (IF o \in {"fail", "error"} THEN 1 ELSE 0)
      BY <3>1, <3>2 DEF CountUp
    <3> QED
      BY <2>2, <2>3, <3>3 DEF FailuresInv
  <2> QED
    BY <2>4, <2>5
<1>3. CASE RunAgain(c)
  <2>1. /\ stage[c] = "except" /\ stage'[c] = "call" /\ retries[c] < MaxRetries
        /\ (MaxIgnore # Unlimited => ignored[c] <= MaxIgnore)
        /\ outcome[c] \in {"ignored", "error"}
    BY <1>3 DEF RunAgain, Again, TooManyIgnored, Goto, FailuresInv
  <2>2. /\ retries'[c] = IF outcome[c] = "ignored" THEN retries[c] ELSE retries[c] + 1
        /\ ignored'[c] = IF outcome[c] = "ignored" THEN ignored[c] + 1 ELSE ignored[c]
        /\ callsMade' = callsMade /\ failures' = failures
    BY <1>3 DEF RunAgain, Retried
  <2> QED
    BY <2>1, <2>2 DEF CallsInv, FailuresInv, Uncounted
<1>4. CASE GiveUp(c)
  <2>1. /\ stage[c] = "except" /\ stage'[c] = "done"
        /\ outcome[c] = "fail" \/ TooManyIgnored(c) \/ retries[c] >= MaxRetries
    BY <1>4 DEF GiveUp, Again, Goto
  <2>2. UNCHANGED <<outcome, retries, ignored, callsMade, failures>>
    BY <1>4 DEF GiveUp
  <2> QED
    BY <2>1, <2>2 DEF CallsInv, FailuresInv, Uncounted, TooManyIgnored
<1>5. CASE Interrupt(c)
  BY <1>5 DEF Interrupt, Goto, CallsInv, FailuresInv, Uncounted
<1> QED
  BY <1>1, <1>2, <1>3, <1>4, <1>5 DEF Step

\* The invariant of each caller.
LEMMA RetryInvariant == RetrySpec => []RetryInv
<1>1. RetryInit => RetryInv
  BY RetryStartTypes, RetryAssumption DEF RetryInit, RetryInv, CallsInv, FailuresInv, Uncounted
<1>2. RetryInv /\ [RetryNext]_retryVars => RetryInv'
  <2> SUFFICES ASSUME RetryInv, [RetryNext]_retryVars PROVE RetryInv'
    OBVIOUS
  <2>1. RetryTypeOK'
    BY RetryStepTypes DEF RetryInv
  <2>2. ASSUME NEW d \in Retriers PROVE CallsInv(d)' /\ FailuresInv(d)'
    <3>1. CASE UNCHANGED retryVars
      BY <3>1 DEF RetryInv, retryVars, CallsInv, FailuresInv, Uncounted, TooManyIgnored
    <3>2. ASSUME NEW c \in Retriers, Begin(c) \/ Step(c) \/ Interrupt(c), c # d
          PROVE  CallsInv(d)' /\ FailuresInv(d)'
      BY <3>2, RetryOthersStep DEF RetryInv, CallsInv, FailuresInv, Uncounted, TooManyIgnored
    <3>3. ASSUME Begin(d) \/ Step(d) \/ Interrupt(d)
          PROVE  CallsInv(d)' /\ FailuresInv(d)'
      BY <3>3, RetryOwnStep DEF RetryInv
    <3> QED
      BY <3>1, <3>2, <3>3 DEF RetryNext
  <2> QED
    BY <2>1, <2>2 DEF RetryInv
<1> QED
  BY <1>1, <1>2, PTL DEF RetrySpec

\* The counters of retry_on_err and async_retry stay within their limits: retries never
\* passes max_retries, and ignore_count passes max_ignore by one at most.
THEOREM RetryTypeCorrect == RetrySpec => []RetryTypeOK
<1>1. RetryInv => RetryTypeOK
  BY DEF RetryInv
<1> QED
  BY <1>1, RetryInvariant, PTL

\* One call of the decorated function calls it 1 + max_retries + max_ignore times at most,
\* for any limits, in whatever order the exceptions come.
THEOREM CallsBounded == RetrySpec => []CallBound
<1>1. RetryInv => CallBound
  <2> SUFFICES ASSUME RetryInv, MaxIgnore # Unlimited, NEW c \in Retriers
               PROVE  callsMade[c] <= MaxRetries + MaxIgnore + 1
    BY DEF CallBound
  <2>1. /\ MaxRetries \in Nat /\ MaxIgnore \in Nat
        /\ retries[c] \in Nat /\ ignored[c] \in Nat
    BY RetryAssumption DEF RetryInv, RetryTypeOK
  <2>2. /\ retries[c] + ignored[c] <= MaxRetries + MaxIgnore
        /\ callsMade[c] = retries[c] + ignored[c] + Uncounted(c)
    BY DEF RetryInv, CallsInv
  <2> QED
    BY <2>1, <2>2 DEF Uncounted
<1> QED
  BY <1>1, RetryInvariant, PTL

\* An exception that is retried at all is raised only after max_retries others were, for
\* any number of callers of the same decorated function and any limits.
THEOREM RetriesExact == RetrySpec => []ExactRetries
<1>1. RetryInv => ExactRetries
  BY DEF RetryInv, ExactRetries, FailuresInv
<1> QED
  BY <1>1, RetryInvariant, PTL

=============================================================================
