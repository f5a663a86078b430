----------------------------- MODULE Serialize -----------------------------
(***************************************************************************)
(* The copying of Lua values between interpreters (serialize.c): hook      *)
(* functions from the script engine to the workers' interpreters, values   *)
(* that were marked with collect() back to the engine.                     *)
(*                                                                         *)
(* A Lua state is a heap of objects.  An object is a function or a table;  *)
(* its slots are locations: the upvalue cells of a function, which other   *)
(* functions may share, or the entries of a table, which are its own.  A   *)
(* value is a number, nil, an object or the wrapper collect() returns.     *)
(* Bytecode, strings, booleans, names and the keys of entries are left out.*)
(***************************************************************************)
EXTENDS Integers, Sequences, FiniteSets

Nil    == <<"nil", 0>>
Num(n) == <<"num", n>>
Obj(o) == <<"obj", o>>
Col(c) == <<"col", c>>

\* A Lua state with its upvalue_cache (upvalue_cache_new leaves it empty).
\* kind and slots are indexed by objects, val and id by locations, cols by
\* wrappers; id is what lua_upvalueid returns, the address of a cell.
LuaState(kind, slots, val, cols) ==
  [kind |-> kind, slots |-> slots, val |-> val, id |-> [l \in DOMAIN val |-> l], cols |-> cols,
   object_map |-> <<>>, upvalue_map |-> <<>>, collector_map |-> <<>>]

NewCache(s) == [s EXCEPT !.object_map = <<>>, !.upvalue_map = <<>>, !.collector_map = <<>>]

\* unwrap_collector_maybe: the first element of a wrapper in place of it.
Unwrap(s, v) ==
  IF v[1] # "col" THEN [collector_id |-> 0, v |-> v]
  ELSE [collector_id |-> v[2], v |-> IF s.cols[v[2]] = <<>> THEN Nil ELSE Head(s.cols[v[2]])]

\* An entry of a table whose value is nil does not exist.
Absent(s, o, v) == s.kind[o] = "table" /\ v = Nil

\* The value in the i-th slot of object o, out of its wrapper.
Content(s, o, i) == Unwrap(s, s.val[s.slots[o][i]]).v

Closed(s, T) ==
  \A o \in T : \A i \in DOMAIN s.slots[o] :
    LET v == Content(s, o, i) IN v[1] = "obj" => v[2] \in T

\* The objects that serialize_object meets on its way through v.
Objects(s, v) ==
  {o \in DOMAIN s.kind :
     \A T \in SUBSET (DOMAIN s.kind \ {o}) : ~ ((v[1] = "obj" => v[2] \in T) /\ Closed(s, T))}

\* Every object of T has another one of T in it, or itself.
Endless(s, T) ==
  \A o \in T : \E i \in DOMAIN s.slots[o] :
    LET v == Content(s, o, i) IN v[1] = "obj" /\ v[2] \in T

\* serialize_object comes to an end without an assert: no nil, and no object
\* inside itself (it has no memory of the objects it is in the middle of).
Serializable(s, v) ==
  /\ v[1] \in {"num", "obj"}
  /\ \A o \in Objects(s, v) : \A i \in DOMAIN s.slots[o] :
       Absent(s, o, s.val[s.slots[o][i]]) \/ Content(s, o, i)[1] \in {"num", "obj"}
  /\ \A T \in SUBSET Objects(s, v) : Endless(s, T) => T = {}

\* serialize_upvalue, and an entry in dump_table_entries.
SerializeSlot(s, l) ==
  LET u == Unwrap(s, s.val[l]) IN [id |-> s.id[l], collector_id |-> u.collector_id, value |-> u.v]

\* serialize_object, serialize_function and serialize_table.  In the tree they
\* build what is shared is repeated, under the same id: a node for each id.
SerializeObject(s, v) ==
  [v |-> v,
   nodes |-> [o \in Objects(s, v) |->
                [type |-> s.kind[o],
                 slots |-> [i \in DOMAIN s.slots[o] |-> SerializeSlot(s, s.slots[o][i])]]]]
----------------------------------------------------------------------------
(* A value is copied into a Lua state by push_function and push_table,     *)
(* which call each other through push_object.  A copy in progress is the   *)
(* state and the calls that are under way, the innermost first: the id of  *)
(* the function or table, its copy, and how many slots are left to set,    *)
(* from the last one down (both lists are built by prepending).            *)

Put(f, k, v) == [x \in DOMAIN f \union {k} |-> IF x = k THEN v ELSE f[x]]

\* cache_object and map_object for a new function or table, its slots not set yet.
NewObject(c, sv, id) ==
  LET n == Len(sv.nodes[id].slots)
      o == Len(c.state.kind) + 1
  IN  [state |-> [c.state EXCEPT !.kind = Append(@, sv.nodes[id].type),
                                 !.slots = Append(@, [i \in 1..n |-> 0]),
                                 !.object_map = Put(@, id, o)],
       calls |-> <<[id |-> id, object |-> o, left |-> n]>> \o c.calls]

\* push_object makes no new object: lookup_and_fetch_object.
Seen(s, v) == v[1] = "obj" => v[2] \in DOMAIN s.object_map

Fetched(s, v) == IF v[1] = "obj" THEN Obj(s.object_map[v[2]]) ELSE v

\* Mutant: every function gets upvalues of its own.
SharedNever(s, node, slot) == FALSE

\* lookup_upvalue: only a function's slots are shared.
Shared(s, node, slot) == node.type = "function" /\ slot.id \in DOMAIN s.upvalue_map

\* lua_upvaluejoin with the function that got the upvalue first.
JoinUpvalue(s, o, i, slot) ==
  LET m == s.upvalue_map[slot.id]
  IN  [s EXCEPT !.slots[o][i] = s.slots[m.object][m.number]]

\* Mutant: a collector that is an entry of a table is not noted.
MapUpvalueOnly(s, o, i, node, slot) ==
  LET here == [object |-> o, number |-> i]
  IN  [s EXCEPT !.upvalue_map   = IF node.type = "function" THEN Put(@, slot.id, here) ELSE @,
                !.collector_map = IF node.type = "function" /\ slot.collector_id # 0
                                  THEN Put(@, slot.collector_id, here) ELSE @]

\* What map_upvalue and map_collector record of a slot set for the first time.
MapSlot(s, o, i, node, slot) ==
  LET here == [object |-> o, number |-> i]
  IN  [s EXCEPT !.upvalue_map   = IF node.type = "function" THEN Put(@, slot.id, here) ELSE @,
                !.collector_map = IF slot.collector_id # 0
                                  THEN Put(@, slot.collector_id, here) ELSE @]

\* The innermost call goes on to its next slot.
NextSlot(calls) == <<[Head(calls) EXCEPT !.left = @ - 1]>> \o Tail(calls)

\* set_upvalue, or lua_rawset in push_table, with v.
SetSlot(c, sv, v) ==
  LET f    == Head(c.calls)
      node == sv.nodes[f.id]
      l    == Len(c.state.val) + 1
      set  == [c.state EXCEPT !.val = Append(@, v), !.id = Append(@, l),
                              !.slots[f.object][f.left] = l]
  IN  [state |-> MapSlot(set, f.object, f.left, node, node.slots[f.left]),
       calls |-> NextSlot(c.calls)]

\* The innermost call returns to the one whose slot its object is for.
Return(c, sv) ==
  IF Len(c.calls) = 1 THEN [c EXCEPT !.calls = <<>>]
  ELSE SetSlot([c EXCEPT !.calls = Tail(@)], sv, Obj(Head(c.calls).object))

\* set_shared_upvalue for a slot of a function, an entry in push_table for a
\* slot of a table.
CopySlot(c, sv) ==
  LET f    == Head(c.calls)
      node == sv.nodes[f.id]
      slot == node.slots[f.left]
  IN  IF Shared(c.state, node, slot)
      THEN [state |-> JoinUpvalue(c.state, f.object, f.left, slot), calls |-> NextSlot(c.calls)]
      ELSE IF Seen(c.state, slot.value) THEN SetSlot(c, sv, Fetched(c.state, slot.value))
      ELSE NewObject(c, sv, slot.value[2])

CopyStep(c, sv) ==
  IF c.calls = <<>> THEN c
  ELSE IF Head(c.calls).left = 0 THEN Return(c, sv) ELSE CopySlot(c, sv)

\* At each place there is one step.
Places(sv) == UNION {{<<o, i>> : i \in 0..Len(sv.nodes[o].slots)} : o \in DOMAIN sv.nodes}

\* push_function or push_table for the outermost object of sv.
Copied(s, sv) ==
  LET step[n \in Nat] == IF n = 0 THEN NewObject([state |-> s, calls |-> <<>>], sv, sv.v[2])
                         ELSE CopyStep(step[n - 1], sv)
  IN  step[Cardinality(Places(sv))].state

\* push_object gives a state and a value.
PushObject(s, sv) ==
  IF Seen(s, sv.v) THEN [state |-> s, v |-> Fetched(s, sv.v)]
  ELSE [state |-> Copied(s, sv), v |-> Obj(Len(s.kind) + 1)]

\* deserialize_function: a hook function is not looked up, only its upvalues
\* are.  It is the last object but for those its slots brought in.
DeserializeFunction(s, sf) == Copied(s, sf)

\* push_collected_value: nil if no function or table that was copied here
\* held the collector.
CollectedValue(s, c) ==
  IF c \in DOMAIN s.collector_map
  THEN s.val[s.slots[s.collector_map[c].object][s.collector_map[c].number]]
  ELSE Nil
============================================================================
