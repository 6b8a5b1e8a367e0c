----------------------------- MODULE ClassCopies -----------------------------
(***************************************************************************)
(* Copies of classes: copy_class, copy_class_simple and what Mocker makes  *)
(* of itself (collections.py).  An attribute of a class is a reference to  *)
(* an object; a copy has the same object, or a deep copy of it.            *)
(***************************************************************************)
EXTENDS Integers, Sequences, FiniteSets

CONSTANTS
  Public,       \* attributes that can be copied deeply
  Stubborn,     \* public attributes that cannot
  Allowed,      \* private ones (__name) in DEFAULT_ALLOWED_DUPE
  Private,      \* the other private ones
  Slots,        \* the descriptors of a class with __slots__
  MaxClasses,   \* bound of the classes
  MaxAppends    \* bound of the changes

Dunder == Allowed \cup Private
Attrs == Public \cup Stubborn \cup Dunder \cup Slots

CopiesAssumption ==
  /\ Public \cap (Stubborn \cup Dunder \cup Slots) = {} /\ Stubborn \cap (Dunder \cup Slots) = {}
  /\ Dunder \cap Slots = {} /\ Allowed \cap Private = {}
  /\ IsFiniteSet(Attrs)
  /\ MaxClasses \in Nat /\ MaxAppends \in Nat
ASSUME CopiesAssumption

VARIABLES
  classes,  \* [slotted, refs]: whether it has __slots__, and the object of each attribute
  objects,  \* what is in each object: the number of values appended to it
  promised, \* what each class should find in its attributes if copies are apart
  together, \* the classes copied without deep_copy, and their originals
  appends   \* number of values appended so far

copyVars == <<classes, objects, promised, together, appends>>

(* An object for each of the attributes, numbered from the one after n. *)
Numbered(attrs, n) ==
  CHOOSE f \in [attrs -> n + 1..n + Cardinality(attrs)] : \A a, b \in attrs : f[a] = f[b] => a = b

CopiesInit ==
  \E slotted \in BOOLEAN :
    LET have == IF slotted THEN Attrs ELSE Attrs \ Slots
    IN  /\ classes = <<[slotted |-> slotted, refs |-> Numbered(have, 0)]>>
        /\ objects = [n \in 1..Cardinality(have) |-> 0]
        /\ promised = <<[a \in have |-> 0]>>
        /\ together = {} /\ appends = 0

(* Mutant: the test of the key's leading underscores is lost. *)
_q_copy_unnamed(a, keyed, deep_private) ==
  /\ keyed => deep_private
  /\ a \notin Stubborn \cup Slots

(* Whether an attribute is copied deeply: never when its key is known to be *)
(* private, and not when that fails, unless the caller wants the exception; *)
(* the deep copy of the descriptor of a slot is that descriptor.            *)
_q_copy(a, keyed, deep_private) ==
  /\ keyed /\ a \in Dunder => deep_private
  /\ a \notin Stubborn \cup Slots

(* The new class has the attributes kept, each of those severed an object of its own. *)
Made(i, kept, severed) ==
  LET refs == classes[i].refs
      fresh == Numbered(severed, Len(objects))
      origin == [n \in Len(objects) + 1..Len(objects) + Cardinality(severed) |->
                   refs[CHOOSE a \in severed : fresh[a] = n]]
  IN  /\ classes' = Append(classes, [slotted |-> FALSE,
                                     refs |-> [a \in kept |-> IF a \in severed THEN fresh[a] ELSE refs[a]]])
      /\ objects' = [n \in 1..Len(objects) + Cardinality(severed) |->
                       IF n <= Len(objects) THEN objects[n] ELSE objects[origin[n]]]
      /\ promised' = Append(promised, [a \in kept |-> objects[refs[a]]])
      /\ UNCHANGED appends

Room == Len(classes) < MaxClasses

(* Without deep_copy the class is made of the original's own __dict__. *)
_copy_class_dict(i, deep_copy, deep_private) ==
  LET kept == DOMAIN classes[i].refs
  IN  Made(i, kept, {a \in kept : deep_copy /\ _q_copy(a, TRUE, deep_private)})

(* The members of __slots__ are left out: __slots__ itself is not copied. *)
_copy_class_slotted(i, deep_copy, deep_private) ==
  LET kept == DOMAIN classes[i].refs \ Slots
  IN  Made(i, kept, {a \in kept : deep_copy /\ _q_copy(a, TRUE, deep_private)})

copy_class ==
  /\ Room
  /\ \E i \in 1..Len(classes), deep_copy, deep_private, fail \in BOOLEAN :
       /\ fail => ~deep_copy \/ Stubborn \cap DOMAIN classes[i].refs = {}
       /\ IF classes[i].slotted THEN _copy_class_slotted(i, deep_copy, deep_private)
                                ELSE _copy_class_dict(i, deep_copy, deep_private)
       /\ together' = IF deep_copy THEN together ELSE together \cup {i, Len(classes) + 1}

(* Private attributes only when they are allowed; _q_copy does not get the key. *)
copy_class_simple ==
  /\ Room
  /\ \E i \in 1..Len(classes), allow_attrs \in SUBSET Private, ban_attrs \in SUBSET Allowed :
       LET kept == {a \in DOMAIN classes[i].refs \ ban_attrs :
                      a \in Dunder => a \in Allowed \cup allow_attrs}
       IN  Made(i, kept, {a \in kept : _q_copy(a, FALSE, FALSE)})
  /\ UNCHANGED together

(* A Mocker of another name is a simple copy with nothing banned. *)
_create_mocker_copy ==
  /\ Room
  /\ \E i \in 1..Len(classes) :
       LET kept == DOMAIN classes[i].refs \ Private
       IN  Made(i, kept, {a \in kept : _q_copy(a, FALSE, TRUE)})
  /\ UNCHANGED together

(* A class without bases and attributes but those given. *)
generate_class ==
  /\ Room
  /\ classes' = Append(classes, [slotted |-> FALSE, refs |-> [a \in {} |-> 0]])
  /\ promised' = Append(promised, [a \in {} |-> 0])
  /\ UNCHANGED <<objects, together, appends>>

(* Somebody appends to the object of a class's attribute; a descriptor does not change. *)
AppendTo ==
  /\ appends < MaxAppends
  /\ appends' = appends + 1
  /\ \E i \in 1..Len(classes) : \E a \in DOMAIN classes[i].refs \ Slots :
       /\ objects' = [objects EXCEPT ![classes[i].refs[a]] = @ + 1]
       /\ promised' = [promised EXCEPT ![i][a] = @ + 1]
  /\ UNCHANGED <<classes, together>>

CopiesNext ==
  copy_class \/ copy_class_simple \/ _create_mocker_copy \/ generate_class \/ AppendTo

CopiesSpec == CopiesInit /\ [][CopiesNext]_copyVars

(***************************************************************************)
(* Properties                                                              *)
(***************************************************************************)
\* What is appended to a public attribute of a copy does not show in the original
\* nor in another copy, and the other way round, in whatever order classes are
\* copied and changed; only an attribute that cannot be copied, a private one, and
\* a class copied with deep_copy=False may share (copy_class, copy_class_simple).
CopiesApart ==
  \A i \in 1..Len(classes) \ together : \A a \in DOMAIN classes[i].refs \cap Public :
    objects[classes[i].refs[a]] = promised[i][a]
=============================================================================
