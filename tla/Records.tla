------------------------------- MODULE Records -------------------------------
(***************************************************************************)
(* The objects of collections.py that are read and written by attribute    *)
(* and by item: DictObject and OrderedDictObject, Mocker,                  *)
(* dictable_namedtuple, Dictable and DictDataClass.                        *)
(*                                                                         *)
(* An object keeps values in three places: its instance __dict__; the      *)
(* items, a dict of its own or one it shares with another object           *)
(* (mock_attrs, _extra_items, raw_data or the dict it is); and, in a named *)
(* tuple, the tuple itself.                                                *)
(***************************************************************************)
EXTENDS Integers, Sequences, SequencesExt

CONSTANTS
  Fields,       \* the fields of a tuple, and those declared before raw_data
  LateFields,   \* the fields declared after raw_data
  Methods,      \* names of methods: every class has an attribute of that name
  Extras,       \* names nobody declared
  Numbers,      \* items that are integers
  Vals,         \* values; Default is that of a field nobody gave one
  Default,
  Absent       \* no value: AttributeError or KeyError

FieldNames == Fields \cup LateFields
AttrKeys == FieldNames \cup Methods \cup Extras

RecordsAssumption ==
  /\ Fields \cap LateFields = {} /\ FieldNames \cap (Methods \cup Extras) = {}
  /\ Methods \cap Extras = {} /\ AttrKeys \cap Numbers = {}
  /\ IsFiniteSet(FieldNames)
  /\ Default \notin Vals /\ Absent \notin Vals \cup {Default}
ASSUME RecordsAssumption

VARIABLES
  objs,     \* the objects
  items,    \* the dicts, each under a number
  mods,     \* mock_modules, under the number of the dict that goes with them
  last      \* the value last written to each key of each dict's objects

recordVars == <<objs, items, mods, last>>

None == <<>>        \* the empty dict

\* The names used with an object: only some classes have fields.
KeysOf(class) == IF class \in {"namedtuple", "dictable", "dataclass"} THEN AttrKeys ELSE Methods \cup Extras

Has(f, k) == k \in DOMAIN f
Look(f, k) == IF Has(f, k) THEN f[k] ELSE Absent

\* What a dict f updated with g holds, and f with v under k: @@ of the module TLC, of
\* which the prover has no definition.
Update(f, g) == [k \in DOMAIN f \cup DOMAIN g |-> IF Has(g, k) THEN g[k] ELSE f[k]]
With(f, k, v) == [x \in DOMAIN f \cup {k} |-> IF x = k THEN v ELSE f[x]]

Method == "method"
MockFunction == "function"
Module == "module"
ADict == "dict"

Object(class) ==
  [class |-> class, dict |-> None, base |-> None, fields |-> <<>>, read_only |-> FALSE,
   raw |-> FALSE, mode |-> "merge_dc", ref |-> 1]

\* A new object, the dict its items are in, and the modules that go with it.
New(object, dict, modules) == [object |-> object, dict |-> dict, modules |-> modules]

(***************************************************************************)
(* DictObject and OrderedDictObject: attributes are items, but for names   *)
(* dict itself has                                                         *)
(***************************************************************************)
DictObject(data) == New(Object("DictObject"), data, None)
OrderedDictObject(data) == New(Object("OrderedDictObject"), data, None)

DictGetAttr(o, k) ==
  IF Has(o.dict, k) THEN o.dict[k]
  ELSE IF k \in Methods THEN Method
  ELSE Look(items[o.ref], k)

DictSetAttr(o, k) == IF k \in Methods THEN "dict" ELSE "items"

(***************************************************************************)
(* Mocker: whatever it is asked for, it has                                *)
(***************************************************************************)
Mocker(modules, attributes) == New(Object("Mocker"), attributes, modules)

MockGetAttr(o, k) ==
  IF k \in Methods THEN Method
  ELSE IF Has(mods[o.ref], k) THEN mods[o.ref][k]
  ELSE IF Has(items[o.ref], k) THEN items[o.ref][k]
  ELSE MockFunction

MockSetAttr(o, k) == "items"

(***************************************************************************)
(* dictable_namedtuple.  A field of the tuple is read from the tuple and   *)
(* cannot be written; the other names are in _extra_items when first set,  *)
(* and from then on in __dict__, which is looked into first.               *)
(***************************************************************************)
TupleGetAttr(o, k) ==
  IF Has(o.base, k) THEN o.base[k]
  ELSE IF Has(o.dict, k) THEN o.dict[k]
  ELSE IF k \in Methods THEN Method
  ELSE Look(items[o.ref], k)

\* By its index, a field is looked for in __dict__ only.
TupleGetIndex(o, i) ==
  LET k == o.fields[i] IN IF Has(o.base, k) THEN o.base[k] ELSE Look(o.dict, k)

(* Mutant: a name that is no field of the tuple always goes to _extra_items. *)
TupleSetExtra(o, k) ==
  IF Has(o.base, k) \/ (o.read_only /\ k \notin Range(o.fields)) THEN "refused" ELSE "items"

TupleSetAttr(o, k) ==
  IF Has(o.base, k) THEN "refused"
  ELSE IF k \in Range(o.fields) THEN "dict"
  ELSE IF o.read_only THEN "refused"
  ELSE "items"

TupleSetItem(o, k) ==
  IF Has(o.base, k) THEN "refused"
  ELSE IF TupleGetAttr(o, k) # Absent THEN "dict"
  ELSE IF o.read_only THEN "refused"
  ELSE "items"

TupleFields(o, k, place) ==
  IF place = "items" /\ k \notin Range(o.fields) THEN Append(o.fields, k) ELSE o.fields

TupleIter(o) == [k \in Range(o.fields) |-> TupleGetAttr(o, k)]

\* The three that make a type out of its field names, and an instance of a type.
make_dict_tuple(fields, read_only) == [fields |-> fields, read_only |-> read_only]
dictable_namedtuple(fields, read_only) == make_dict_tuple(fields, read_only)
subclass_dictable_namedtuple(type, read_only) == make_dict_tuple(type.fields, read_only)

NamedTuple(type, values) ==
  New([Object("namedtuple") EXCEPT !.base = values, !.fields = type.fields, !.read_only = type.read_only],
      None, None)

(***************************************************************************)
(* Dictable: items are attributes                                          *)
(***************************************************************************)
Given(values, names) == [k \in names |-> IF Has(values, k) THEN values[k] ELSE Default]

\* What a dictionary has for the fields.
OfFields(data) == Restrict(data, FieldNames \cap DOMAIN data)

Dictable(values) == New([Object("dictable") EXCEPT !.dict = Given(values, FieldNames)], None, None)

DictableGetItem(o, k) ==
  IF Has(o.dict, k) THEN o.dict[k]
  ELSE IF k \in Methods THEN Method
  ELSE IF k \in FieldNames THEN Default
  ELSE Absent

DictableSetItem(o, k) == "dict"

DictableGet(o, k) == IF k \in FieldNames THEN DictableGetItem(o, k) ELSE Absent

DictableIter(o) == o.dict

\* Keys that are no parameter of the class are dropped.
DictableFromDict(data) == Dictable(OfFields(data))

(***************************************************************************)
(* DictDataClass.  What a field declared after raw_data is given goes to   *)
(* raw_data, as any new attribute does once there is one; and its class    *)
(* has the default for an attribute, which is found first.                 *)
(***************************************************************************)
\* The fields are set in the order of their declaration, given or not: those before
\* raw_data become attributes, those after it are written into raw_data.
DictDataClass(values, raw, raw_data, mode) ==
  New([Object("dataclass") EXCEPT !.dict = Given(values, IF raw THEN Fields ELSE FieldNames),
                                  !.raw = raw, !.mode = mode],
      IF raw THEN Update(raw_data, Given(values, LateFields)) ELSE None, None)

DataGetAttr(o, k) ==
  IF Has(o.dict, k) THEN o.dict[k]
  ELSE IF k \in Methods THEN Method
  ELSE IF k \in FieldNames THEN Default
  ELSE IF o.raw THEN Look(items[o.ref], k)
  ELSE Absent

DataGetItem(o, k) ==
  IF o.raw /\ k \in Numbers THEN Look(items[o.ref], k)
  ELSE IF DataGetAttr(o, k) # Absent THEN DataGetAttr(o, k)
  ELSE IF o.raw THEN Look(items[o.ref], k)
  ELSE Absent

DataSetAttr(o, k) ==
  IF Has(o.dict, k) THEN "dict"
  ELSE IF o.raw THEN "items"
  ELSE "dict"

DataSetItem(o, k) ==
  IF o.raw /\ (k \in Numbers \/ Has(items[o.ref], k)) THEN "items" ELSE DataSetAttr(o, k)

\* raw_data is a copy of the whole dictionary.
DataFromDict(data, raw, mode) == DictDataClass(OfFields(data), raw, data, mode)

Modes == {"merge_dc", "merge_rd", "raw", "none"}

DataIter(o) ==
  LET dict_dc == [k \in FieldNames |-> DataGetAttr(o, k)]
      dict_rd == IF o.raw THEN items[o.ref] ELSE None
  IN  CASE o.mode = "merge_dc"  -> Update(dict_rd, dict_dc)
        [] o.mode = "merge_rd"  -> Update(dict_dc, dict_rd)
        [] o.mode = "raw"       -> dict_rd
        [] OTHER                -> dict_dc

(***************************************************************************)
(* Reading and writing, of whatever class                                  *)
(***************************************************************************)
GetAttr(o, k) ==
  CASE o.class \in {"DictObject", "OrderedDictObject"}  -> DictGetAttr(o, k)
    [] o.class = "Mocker"                               -> MockGetAttr(o, k)
    [] o.class = "namedtuple"                           -> TupleGetAttr(o, k)
    [] o.class = "dictable"                             -> DictableGetItem(o, k)
    [] o.class = "dataclass"                            -> DataGetAttr(o, k)

GetItem(o, k) ==
  CASE o.class \in {"DictObject", "OrderedDictObject"}  -> Look(items[o.ref], k)
    [] o.class = "Mocker"                               -> MockGetAttr(o, k)
    [] o.class = "namedtuple"                           -> TupleGetAttr(o, k)
    [] o.class = "dictable"                             -> DictableGetItem(o, k)
    [] o.class = "dataclass"                            -> DataGetItem(o, k)

AttrPlace(o, k) ==
  CASE o.class \in {"DictObject", "OrderedDictObject"}  -> DictSetAttr(o, k)
    [] o.class = "Mocker"                               -> MockSetAttr(o, k)
    [] o.class = "namedtuple"                           -> TupleSetAttr(o, k)
    [] o.class = "dictable"                             -> DictableSetItem(o, k)
    [] o.class = "dataclass"                            -> DataSetAttr(o, k)

ItemPlace(o, k) ==
  CASE o.class \in {"DictObject", "OrderedDictObject"}  -> "items"
    [] o.class = "Mocker"                               -> MockSetAttr(o, k)
    [] o.class = "namedtuple"                           -> TupleSetItem(o, k)
    [] o.class = "dictable"                             -> DictableSetItem(o, k)
    [] o.class = "dataclass"                            -> DataSetItem(o, k)

(* A value goes to the place the class has for it, or nowhere. *)
Write(i, k, v, place) ==
  LET o == objs[i]
  IN  /\ items' = IF place = "items" THEN [items EXCEPT ![o.ref] = With(@, k, v)] ELSE items
      /\ objs' = [objs EXCEPT ![i].dict = IF place = "dict" THEN With(@, k, v) ELSE @,
                              ![i].fields = IF o.class = "namedtuple" THEN TupleFields(o, k, place) ELSE @]
      /\ last' = IF place = "refused" THEN last ELSE [last EXCEPT ![o.ref] = With(@, k, v)]
      /\ UNCHANGED mods

\* The object, and what has been given for it so far.
Begins(new, given) ==
  /\ objs = <<new.object>> /\ items = <<new.dict>> /\ mods = <<new.modules>>
  /\ last = <<given>>

RecordsInit ==
  \E keys \in SUBSET AttrKeys, v \in Vals, raw, read_only \in BOOLEAN, mode \in Modes :
    LET data == [k \in keys |-> v]
        type == dictable_namedtuple(SetToSeq(FieldNames), read_only)
    IN  \/ /\ keys \subseteq Methods \cup Extras
           /\ \E new \in {DictObject(data), OrderedDictObject(data), Mocker(None, data)} : Begins(new, data)
        \/ /\ keys = FieldNames
           /\ Begins(NamedTuple(type, data), data)
        \/ Begins(DictableFromDict(data), OfFields(data))
        \/ Begins(DataFromDict(data, raw, mode), IF raw THEN data ELSE OfFields(data))

SetAttr ==
  \E i \in 1..Len(objs), v \in Vals : \E k \in KeysOf(objs[i].class) :
    Write(i, k, v, AttrPlace(objs[i], k))

SetItem ==
  \E i \in 1..Len(objs), v \in Vals : \E k \in KeysOf(objs[i].class) \cup Numbers :
    /\ k \in Numbers => objs[i].class = "dataclass" /\ objs[i].raw
    /\ Write(i, k, v, ItemPlace(objs[i], k))

add_mock_module ==
  \E i \in 1..Len(objs), k \in Methods \cup Extras, value \in Vals \cup {Absent} :
    /\ objs[i].class = "Mocker"
    /\ mods' = [mods EXCEPT ![objs[i].ref] = With(@, k, IF value = Absent THEN Module ELSE value)]
    /\ UNCHANGED <<objs, items, last>>

\* A module given as a dict has its entries as attributes, and is a Mocker unless
\* _parse_dict is off, when it is the dict itself.
add_mock_modules ==
  \E i \in 1..Len(objs), module_list \in SUBSET (Methods \cup Extras), k \in Methods \cup Extras,
     value \in Vals \cup {ADict}, parse_dict \in BOOLEAN :
    /\ objs[i].class = "Mocker"
    /\ mods' = [mods EXCEPT ![objs[i].ref] =
                  With(Update(@, [m \in module_list |-> Module]),
                       k, IF value = ADict /\ parse_dict THEN Module ELSE value)]
    /\ UNCHANGED <<objs, items, last>>

\* The duplicate is of another class, and keeps its attributes in the same dicts.
_duplicate_ins ==
  /\ Len(objs) = 1 /\ objs[1].class = "Mocker"
  /\ objs' = Append(objs, objs[1])
  /\ UNCHANGED <<items, mods, last>>

\* An instance of a duplicated class has dicts of its own.
Adds(new, given) ==
  /\ objs' = Append(objs, [new.object EXCEPT !.ref = 2])
  /\ items' = Append(items, new.dict) /\ mods' = Append(mods, new.modules)
  /\ last' = Append(last, given)

make_mock_class ==
  /\ Len(objs) = 1 /\ objs[1].class = "Mocker"
  /\ \E keys \in SUBSET Extras, v \in Vals :
       LET attributes == [k \in keys |-> v] IN Adds(Mocker(None, attributes), attributes)

\* A tuple that has got other fields has them in _asdict, and its class, which knows
\* the fields of the type only, refuses them.
convert_dictable_namedtuple ==
  /\ Len(objs) = 1 /\ objs[1].class = "namedtuple"
  /\ Range(objs[1].fields) = DOMAIN objs[1].base
  /\ \E read_only \in BOOLEAN :
       LET type == subclass_dictable_namedtuple(dictable_namedtuple(objs[1].fields, objs[1].read_only), read_only)
       IN  Adds(NamedTuple(type, TupleIter(objs[1])), TupleIter(objs[1]))

RecordsNext ==
  \/ SetAttr \/ SetItem \/ add_mock_module \/ add_mock_modules \/ _duplicate_ins \/ make_mock_class
  \/ convert_dictable_namedtuple

RecordsSpec == RecordsInit /\ [][RecordsNext]_recordVars

(***************************************************************************)
(* Properties                                                              *)
(***************************************************************************)
\* Where a value written is known not to be the one read: a name the class has
\* already, a module of a Mocker, a field declared after raw_data, and a field that is
\* in raw_data as well, where writing the item leaves the attribute as it was.
Hidden(o, k) ==
  \/ k \in Methods /\ o.class # "dictable"
  \/ o.class = "Mocker" /\ Has(mods[o.ref], k)
  \/ o.class = "dataclass" /\ o.raw /\ (k \in LateFields \/ (Has(o.dict, k) /\ Has(items[o.ref], k)))

CastOf(o) ==
  CASE o.class \in {"DictObject", "OrderedDictObject"} -> items[o.ref]
    [] o.class = "namedtuple"                          -> TupleIter(o)
    [] o.class = "dictable"                            -> DictableIter(o)
    [] o.class = "dataclass"                           -> DataIter(o)
    [] OTHER                                           -> None

\* A value written by attribute or by item is read back both ways, and through any
\* object that shares the dict; a refused write changes nothing; casting to a dict
\* and indexing a tuple give what reading the item gives.  Hidden names the keys of
\* which the code does not hold that (DictObject, Mocker, make_dict_tuple, Dictable
\* and DictDataClass of collections.py).
ReadsLastWrite ==
  \A i \in 1..Len(objs) :
    LET o == objs[i]
    IN  /\ \A k \in DOMAIN last[o.ref] : ~Hidden(o, k) =>
             /\ GetItem(o, k) = last[o.ref][k]
             /\ k \notin Numbers => GetAttr(o, k) = last[o.ref][k]
        /\ \A k \in DOMAIN CastOf(o) : ~Hidden(o, k) => CastOf(o)[k] = GetItem(o, k)
        /\ o.class = "namedtuple" =>
             \A n \in 1..Len(o.fields) :
               TupleGetIndex(o, n) # Absent => TupleGetIndex(o, n) = GetAttr(o, o.fields[n])
        /\ o.class = "dictable" =>
             \A k \in AttrKeys : DictableGet(o, k) # Absent => DictableGet(o, k) = GetItem(o, k)
=============================================================================
