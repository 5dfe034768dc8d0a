------------------------------ MODULE JsonTree ------------------------------
(***************************************************************************)
(* The values of common/json/parson.c in memory: objects, arrays and       *)
(* scalars allocated one by one, linked by parent pointers, and the calls  *)
(* that build, change, copy and free them.  Any allocation may fail.       *)
(*                                                                         *)
(* A call is an operator that returns the set of its outcomes, one for     *)
(* each place where memory may run out.  The values a program owns itself, *)
(* because no container does, are held.                                    *)
(***************************************************************************)
EXTENDS Integers, Sequences, FiniteSets, SequencesExt

CONSTANTS
  MaxValues, \* bound on the values that fit into memory
  Names,     \* names of object members, without dots
  Scalars,   \* [type, data] of strings, numbers, booleans and null
  Numbers,   \* numbers the comparison is tried on, in units of EPSILON / 2
  MaxPath,   \* bound on the names of a dotted path
  MaxHeld    \* bound on the values the program owns at a time

ASSUME TreeAssumption ==
  MaxValues \in Nat /\ MaxPath \in Nat \ {0} /\ MaxHeld \in Nat

NULL == 0
EPSILON == 2
DANGLING == -1

VARIABLES
  heap,  \* the values, by address
  held,  \* the values the program owns
  ok     \* what the last call returned: JSONSuccess, or JSONFailure or NULL

vars == <<heap, held, ok>>

\* A JSON_Value with the JSON_Object or JSON_Array it wraps.
Node(type, data) ==
  [type |-> type, data |-> data, parent |-> NULL, names |-> <<>>, items |-> <<>>]
Free == Node("free", NULL)
Allocated(h) == {v \in 1..MaxValues : h[v] # Free}

Success(h, v) == [ok |-> TRUE, heap |-> h, value |-> v]
Failure(h) == [ok |-> FALSE, heap |-> h, value |-> NULL]

----------------------------------------------------------------------------
(* Reading *)

json_value_get_type(h, v) == IF v = NULL THEN "error" ELSE h[v].type

json_object_getn_value(h, o, name) ==
  LET at == {i \in DOMAIN h[o].names : h[o].names[i] = name}
  IN  IF at = {} THEN NULL ELSE h[o].items[CHOOSE i \in at : TRUE]

RECURSIVE json_object_dotget_value(_, _, _)
json_object_dotget_value(h, o, path) ==
  IF json_value_get_type(h, o) # "object" THEN NULL
  ELSE LET v == json_object_getn_value(h, o, Head(path))
       IN  IF Len(path) = 1 THEN v ELSE json_object_dotget_value(h, v, Tail(path))

\* Two numbers are equal when they differ by less than EPSILON.
Near(x, y) == x - y < EPSILON /\ y - x < EPSILON

\* Mutant: the members are not compared.
EqualsByCount(h, a, b) ==
  /\ json_value_get_type(h, a) = json_value_get_type(h, b)
  /\ a # NULL => Near(h[a].data, h[b].data) /\ Len(h[a].items) = Len(h[b].items)

RECURSIVE json_value_equals(_, _, _)
json_value_equals(h, a, b) ==
  /\ json_value_get_type(h, a) = json_value_get_type(h, b)
  /\ a # NULL =>
       CASE h[a].type = "array" ->
              /\ Len(h[a].items) = Len(h[b].items)
              /\ \A i \in DOMAIN h[a].items : json_value_equals(h, h[a].items[i], h[b].items[i])
         [] h[a].type = "object" ->
              /\ Len(h[a].items) = Len(h[b].items)
              /\ \A i \in DOMAIN h[a].items :
                   json_value_equals(h, h[a].items[i],
                                     json_object_getn_value(h, b, h[a].names[i]))
         [] h[a].type = "number" -> Near(h[a].data, h[b].data)
         [] OTHER -> h[a].data = h[b].data

----------------------------------------------------------------------------
(* Allocating and freeing *)

\* json_value_init_*, with the string or container it needs.
json_value_init(h, node) ==
  LET free == (1..MaxValues) \ Allocated(h)
      v == CHOOSE x \in free : \A y \in free : x <= y
  IN  {Failure(h)} \cup IF free = {} THEN {} ELSE {Success([h EXCEPT ![v] = node], v)}

\* v and everything under it.
RECURSIVE Subtree(_, _)
Subtree(h, v) == {v} \cup UNION {Subtree(h, w) : w \in ToSet(h[v].items)}

\* A parent pointer into freed memory stays; all the code ever does with it is
\* to see that it is not NULL.
json_value_free(h, v) ==
  LET freed == Subtree(h, v)
  IN  [x \in 1..MaxValues |->
         IF x \in freed THEN Free
         ELSE IF h[x].parent \in freed THEN [h[x] EXCEPT !.parent = DANGLING] ELSE h[x]]

RECURSIVE FreeAll(_, _)
FreeAll(h, vs) ==
  IF vs = <<>> THEN h ELSE FreeAll(json_value_free(h, Head(vs)), Tail(vs))

----------------------------------------------------------------------------
(* Objects *)

\* Adding may fail to get room for more pairs, or for the copy of the name.
json_object_addn(h, o, name, v) ==
  IF json_object_getn_value(h, o, name) # NULL THEN {Failure(h)}
  ELSE {Failure(h), Success([h EXCEPT ![o].names = Append(@, name),
                                      ![o].items = Append(@, v), ![v].parent = o], v)}

\* Mutants: the old value is not freed; the first member is overwritten.
SetWithoutFree(h, o, name, v) ==
  LET at == {j \in DOMAIN h[o].names : h[o].names[j] = name}
  IN  IF v = NULL \/ h[v].parent # NULL THEN {Failure(h)}
      ELSE IF at = {} THEN json_object_addn(h, o, name, v)
      ELSE {Success([h EXCEPT ![o].items[CHOOSE j \in at : TRUE] = v, ![v].parent = o], v)}
SetFirst(h, o, name, v) ==
  LET old == json_object_getn_value(h, o, name)
  IN  IF v = NULL \/ h[v].parent # NULL THEN {Failure(h)}
      ELSE IF old = NULL THEN json_object_addn(h, o, name, v)
      ELSE {Success([json_value_free(h, h[o].items[1]) EXCEPT ![o].items[1] = v,
                                                              ![v].parent = o], v)}

json_object_set_value(h, o, name, v) ==
  LET old == json_object_getn_value(h, o, name)
      i == CHOOSE j \in DOMAIN h[o].names : h[o].names[j] = name
  IN  IF v = NULL \/ h[v].parent # NULL THEN {Failure(h)}
      ELSE IF old = NULL THEN json_object_addn(h, o, name, v)
      ELSE {Success([json_value_free(h, old) EXCEPT ![o].items[i] = v, ![v].parent = o], v)}

\* Mutants: the value is freed even when only its pair should go; the last
\* pair is dropped but not moved.
RemoveAndFree(h, o, name, free_value) ==
  LET v == json_object_getn_value(h, o, name)
      Kept(s, gone) == SelectSeq(s, LAMBDA x : x # gone)
  IN  IF v = NULL THEN Failure(h)
      ELSE Success([json_value_free(h, v) EXCEPT ![o].names = Kept(@, name),
                                                 ![o].items = Kept(@, v)], NULL)
RemoveLast(h, o, name, free_value) ==
  LET g == IF free_value THEN json_value_free(h, Last(h[o].items)) ELSE h
  IN  IF json_object_getn_value(h, o, name) = NULL THEN Failure(h)
      ELSE Success([g EXCEPT ![o].names = Front(@), ![o].items = Front(@)], NULL)

\* The last pair takes the place of the removed one.
json_object_remove_internal(h, o, name, free_value) ==
  LET v == json_object_getn_value(h, o, name)
      last == Len(h[o].names)
      i == CHOOSE j \in DOMAIN h[o].names : h[o].names[j] = name
      Without(s) == SubSeq([s EXCEPT ![i] = s[last]], 1, last - 1)
      g == IF free_value THEN json_value_free(h, v) ELSE h
  IN  IF v = NULL THEN Failure(h)
      ELSE Success([g EXCEPT ![o].names = Without(@), ![o].items = Without(@)], NULL)

RECURSIVE json_object_dotremove_internal(_, _, _, _)
json_object_dotremove_internal(h, o, path, free_value) ==
  IF Len(path) = 1 THEN json_object_remove_internal(h, o, path[1], free_value)
  ELSE LET t == json_object_getn_value(h, o, Head(path))
       IN  IF json_value_get_type(h, t) # "object" THEN Failure(h)
           ELSE json_object_dotremove_internal(h, t, Tail(path), free_value)

\* Mutant: a missing object is added before it is filled.
RECURSIVE AddThenFill(_, _, _, _)
AddThenFill(h, o, path, v) ==
  LET t == json_object_getn_value(h, o, Head(path))
  IN  IF Len(path) = 1 THEN json_object_set_value(h, o, path[1], v)
      ELSE IF t # NULL
           THEN IF h[t].type # "object" THEN {Failure(h)}
                ELSE AddThenFill(h, t, Tail(path), v)
      ELSE UNION {IF ~new.ok THEN {new} ELSE
           UNION {IF add.ok THEN AddThenFill(add.heap, new.value, Tail(path), v)
                  ELSE {Failure(json_value_free(add.heap, new.value))} :
             add \in json_object_addn(new.heap, o, path[1], new.value)} :
             new \in json_value_init(h, Node("object", NULL))}

\* An object on the path that is missing is made, filled and only then added.
RECURSIVE json_object_dotset_value(_, _, _, _)
json_object_dotset_value(h, o, path, v) ==
  LET name == Head(path)
      rest == Tail(path)
      t == json_object_getn_value(h, o, name)
      Undo(g, n) == json_object_dotremove_internal(g, n, rest, FALSE).heap
  IN  IF v = NULL THEN {Failure(h)}
      ELSE IF rest = <<>> THEN json_object_set_value(h, o, name, v)
      ELSE IF t # NULL
           THEN IF h[t].type # "object" THEN {Failure(h)}
                ELSE json_object_dotset_value(h, t, rest, v)
      ELSE UNION {IF ~new.ok THEN {new} ELSE
           UNION {IF ~set.ok THEN {Failure(json_value_free(set.heap, new.value))} ELSE
                  {IF add.ok THEN Success(add.heap, v)
                   ELSE Failure(json_value_free(Undo(add.heap, new.value), new.value)) :
                     add \in json_object_addn(set.heap, o, name, new.value)} :
             set \in json_object_dotset_value(new.heap, new.value, rest, v)} :
             new \in json_value_init(h, Node("object", NULL))}

\* json_object_clear and json_array_clear
Cleared(h, c) ==
  Success([FreeAll(h, h[c].items) EXCEPT ![c].names = <<>>, ![c].items = <<>>], NULL)

----------------------------------------------------------------------------
(* Arrays *)

\* Only an array whose capacity is used up needs memory: any may be.
json_array_add(h, a, v) ==
  {Failure(h), Success([h EXCEPT ![a].items = Append(@, v), ![v].parent = a], v)}

json_array_append_value(h, a, v) ==
  IF v = NULL \/ h[v].parent # NULL THEN {Failure(h)} ELSE json_array_add(h, a, v)

json_array_replace_value(h, a, ix, v) ==
  IF v = NULL \/ h[v].parent # NULL \/ ix \notin DOMAIN h[a].items THEN {Failure(h)}
  ELSE {Success([json_value_free(h, h[a].items[ix]) EXCEPT ![a].items[ix] = v,
                                                          ![v].parent = a], v)}

json_array_remove(h, a, ix) ==
  IF ix \notin DOMAIN h[a].items THEN Failure(h)
  ELSE Success([json_value_free(h, h[a].items[ix]) EXCEPT ![a].items = RemoveAt(@, ix)], NULL)

----------------------------------------------------------------------------
(* Copying *)

\* Mutant: only the value itself is copied.
ShallowCopy(h, v) == json_value_init(h, [h[v] EXCEPT !.parent = NULL])

\* The copy of v; a failure frees what was copied so far.
RECURSIVE json_value_deep_copy(_, _)
RECURSIVE CopyItems(_, _, _, _)
json_value_deep_copy(h, v) ==
  UNION {IF new.ok THEN CopyItems(new.heap, v, new.value, 1) ELSE {new} :
           new \in json_value_init(h, Node(h[v].type, h[v].data))}
CopyItems(h, v, w, i) ==
  IF i > Len(h[v].items) THEN {Success(h, w)}
  ELSE UNION {IF ~c.ok THEN {Failure(json_value_free(c.heap, w))} ELSE
       UNION {IF add.ok THEN CopyItems(add.heap, v, w, i + 1)
              ELSE {Failure(json_value_free(json_value_free(add.heap, w), c.value))} :
         add \in IF h[v].type = "object"
                 THEN json_object_addn(c.heap, w, h[v].names[i], c.value)
                 ELSE json_array_add(c.heap, w, c.value)} :
         c \in json_value_deep_copy(h, h[v].items[i])}

----------------------------------------------------------------------------
(* The program's calls *)

Paths == SeqOf(Names, MaxPath) \ {<<>>}

\* The values a program can still reach.
Reachable == UNION {Subtree(heap, v) : v \in held}
Live(type) == {v \in Reachable : heap[v].type = type}

Init ==
  /\ heap = [v \in 1..MaxValues |-> Free]
  /\ held = {}
  /\ ok = TRUE

\* A call that gives the program a value to own.
Takes(outcomes) ==
  /\ Cardinality(held) < MaxHeld
  /\ \E r \in outcomes :
       /\ heap' = r.heap
       /\ held' = IF r.ok THEN held \cup {r.value} ELSE held
       /\ ok' = r.ok

\* A call after which a container owns the held value v, or nobody does.
Gives(v, outcomes) ==
  \E r \in outcomes :
    /\ heap' = r.heap
    /\ held' = IF r.ok THEN held \ {v} ELSE held
    /\ ok' = r.ok

InitValue(node) == Takes(json_value_init(heap, node))
DeepCopy(v) == Takes(json_value_deep_copy(heap, v))
FreeValue(v) == Gives(v, {Success(json_value_free(heap, v), NULL)})

\* A value is not put into itself: the code does not look for that.
SetValue(o, name, v) ==
  /\ o \notin Subtree(heap, v)
  /\ Gives(v, json_object_set_value(heap, o, name, v))

DotSetValue(o, path, v) ==
  /\ o \notin Subtree(heap, v)
  /\ Gives(v, json_object_dotset_value(heap, o, path, v))

\* json_object_set_string, _number, _boolean and _null keep the new value
\* when it cannot be added.
SetScalar(o, name, s) ==
  \E new \in json_value_init(heap, Node(s.type, s.data)) :
    Gives(NULL, json_object_set_value(new.heap, o, name, new.value))

\* The other scalar calls free it.
OrFreed(new, outcomes) ==
  IF ~new.ok THEN {new}
  ELSE {IF r.ok THEN r ELSE Failure(json_value_free(r.heap, new.value)) : r \in outcomes}

DotSetScalar(o, path, s) ==
  \E new \in json_value_init(heap, Node(s.type, s.data)) :
    Gives(NULL,
          OrFreed(new, json_object_dotset_value(new.heap, o, path, new.value)))

RemoveMember(o, name) ==
  Gives(NULL, {json_object_remove_internal(heap, o, name, TRUE)})

DotRemove(o, path) ==
  Gives(NULL, {json_object_dotremove_internal(heap, o, path, TRUE)})

Clear(c) ==
  Gives(NULL, {Cleared(heap, c)})

AppendValue(a, v) ==
  /\ a \notin Subtree(heap, v)
  /\ Gives(v, json_array_append_value(heap, a, v))

AppendScalar(a, s) ==
  \E new \in json_value_init(heap, Node(s.type, s.data)) :
    Gives(NULL,
          OrFreed(new, json_array_append_value(new.heap, a, new.value)))

ReplaceValue(a, ix, v) ==
  /\ a \notin Subtree(heap, v)
  /\ Gives(v, json_array_replace_value(heap, a, ix, v))

ReplaceScalar(a, ix, s) ==
  \E new \in json_value_init(heap, Node(s.type, s.data)) :
    Gives(NULL,
          OrFreed(new, json_array_replace_value(new.heap, a, ix, new.value)))

RemoveItem(a, ix) ==
  Gives(NULL, {json_array_remove(heap, a, ix)})

Next ==
  \/ \E s \in Scalars \cup {[type |-> t, data |-> NULL] : t \in {"object", "array"}} :
       InitValue(Node(s.type, s.data))
  \/ \E v \in held : FreeValue(v)
  \/ \E v \in Reachable : DeepCopy(v)
  \/ \E o \in Live("object") :
       \/ \E name \in Names, v \in held : SetValue(o, name, v)
       \/ \E name \in Names, s \in Scalars : SetScalar(o, name, s)
       \/ \E path \in Paths, v \in held : DotSetValue(o, path, v)
       \/ \E path \in Paths, s \in Scalars : DotSetScalar(o, path, s)
       \/ \E name \in Names : RemoveMember(o, name)
       \/ \E path \in Paths : DotRemove(o, path)
       \/ Clear(o)
  \/ \E a \in Live("array") :
       \/ \E v \in held : AppendValue(a, v)
       \/ \E s \in Scalars : AppendScalar(a, s)
       \/ \E ix \in 1..MaxValues, v \in held : ReplaceValue(a, ix, v)
       \/ \E ix \in 1..MaxValues, s \in Scalars : ReplaceScalar(a, ix, s)
       \/ \E ix \in 1..MaxValues : RemoveItem(a, ix)
       \/ Clear(a)

Spec == Init /\ [][Next]_vars

----------------------------------------------------------------------------
(* Properties *)

\* What a value stands for, whatever the order of its members and wherever
\* it is stored.
RECURSIVE Doc(_, _)
Doc(h, v) ==
  [type |-> h[v].type, data |-> h[v].data,
   kids |-> IF h[v].type = "object"
            THEN [n \in ToSet(h[v].names) |-> Doc(h, json_object_getn_value(h, v, n))]
            ELSE [i \in DOMAIN h[v].items |-> Doc(h, h[v].items[i])]]

\* Whatever is built, moved, replaced, copied or undone after a failed
\* allocation, the values form trees with one owner each: what a container
\* lists is allocated, points back to it and is listed nowhere else, what the
\* program holds is listed nowhere, and no name is used twice.  So
\* json_value_free never frees a value twice, nor one still in use.
OwnedOnce ==
  LET Listed == {<<c, i>> \in Allocated(heap) \X (1..MaxValues) : i <= Len(heap[c].items)}
      Item(l) == heap[l[1]].items[l[2]]
  IN  /\ \A l \in Listed : Item(l) \in Allocated(heap) \ held /\ heap[Item(l)].parent = l[1]
      /\ \A l, k \in Listed : Item(l) = Item(k) => l = k
      /\ \A c \in Allocated(heap) :
           /\ IsInjective(heap[c].names)
           /\ heap[c].type = "object" => Len(heap[c].names) = Len(heap[c].items)
      /\ held \subseteq Allocated(heap)

\* The only memory a program can lose is a scalar that
\* json_object_set_string and its like made and could not add: the objects
\* json_object_dotset_value makes on the way and the partial copies of
\* json_value_deep_copy are freed on every failure.
LosesOnlyScalars ==
  \A v \in Allocated(heap) \ Reachable : heap[v].type \notin {"object", "array"}

\* A call that returns JSONFailure or NULL, at whichever allocation it ran
\* out of memory, leaves every document as it was.
FailuresKeepDocuments ==
  [][~ok' => held' = held /\ \A v \in held : Doc(heap', v) = Doc(heap, v)]_vars

\* Between the heaps h and g, the object o changed at path and nowhere else:
\* what lies on the way there and existed, what lies off the path, and the
\* documents that do not hold o are as they were.
OnlyAt(h, g, o, path, documents) ==
  LET At(x, p) == json_object_dotget_value(x, o, p)
  IN  /\ \A p \in Paths :
           ~IsPrefix(path, p) /\ (At(h, p) # NULL \/ ~IsPrefix(p, path)) => At(g, p) = At(h, p)
      /\ \A v \in documents : o \notin Subtree(h, v) => Doc(g, v) = Doc(h, v)

\* json_object_dotset_value, when it succeeds, puts the value itself where
\* the path says, making the objects it needs and no other change.
DotSetChangesOnlyThePath ==
  \A o \in Live("object"), v \in held, path \in Paths :
    o \notin Subtree(heap, v) =>
      \A r \in json_object_dotset_value(heap, o, path, v) :
        r.ok => /\ json_object_dotget_value(r.heap, o, path) = v
                /\ OnlyAt(heap, r.heap, o, path, held)

\* json_object_dotremove takes away what the path names, although another
\* member of the object moves into the freed place.
DotRemoveChangesOnlyThePath ==
  \A o \in Live("object"), path \in Paths :
    LET r == json_object_dotremove_internal(heap, o, path, TRUE)
    IN  r.ok => /\ json_object_dotget_value(r.heap, o, path) = NULL
                /\ OnlyAt(heap, r.heap, o, path, held)

\* json_value_deep_copy gives a value that json_value_equals its original
\* and shares nothing with it.
CopiesAreApart ==
  \A v \in Reachable : \A r \in json_value_deep_copy(heap, v) :
    r.ok => /\ json_value_equals(r.heap, v, r.value)
            /\ Subtree(r.heap, v) \cap Subtree(r.heap, r.value) = {}

\* Two documents with the same shape, names and scalars, but for numbers that
\* differ by less than EPSILON.
RECURSIVE SameDocument(_, _)
SameDocument(d, e) ==
  /\ d.type = e.type
  /\ IF d.type = "number" THEN Near(d.data, e.data) ELSE d.data = e.data
  /\ DOMAIN d.kids = DOMAIN e.kids
  /\ \A k \in DOMAIN d.kids : SameDocument(d.kids[k], e.kids[k])

\* json_value_equals, which looks up each member of one object in the other
\* and compares the counts, says yes exactly when both values stand for the
\* same document, up to EPSILON in each number.  No call that builds a tree
\* looks at its numbers, so those of the state are replaced by any others.
EqualsIsSameDocument ==
  LET numbers == {v \in Reachable : heap[v].type = "number"}
  IN  \A f \in [numbers -> Numbers] :
        LET h == [v \in DOMAIN heap |-> IF v \in numbers THEN [heap[v] EXCEPT !.data = f[v]]
                                       ELSE heap[v]]
        IN  \A a, b \in Reachable :
              json_value_equals(h, a, b) <=> SameDocument(Doc(h, a), Doc(h, b))
=============================================================================
