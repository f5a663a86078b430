------------------------------- MODULE Script -------------------------------
(***************************************************************************)
(* A user's script (script.c) and its hooks in the worker threads.  The    *)
(* script runs in the main thread: it marks values with collect(),         *)
(* registers hooks, which copies them at that moment, and calls run().     *)
(* Each worker has an interpreter of its own, into which a hook is copied  *)
(* when it is first called; when the workers have been joined, run()       *)
(* fetches the marked values from one interpreter after the other.         *)
(*                                                                         *)
(* What a hook's author relies on is that a worker has its own copy of the *)
(* variables that the hooks use, the same one for all of its hooks.  The   *)
(* variable "ideal" is that copy.                                          *)
(***************************************************************************)
EXTENDS Serialize, FiniteSets

CONSTANTS
  Hooks,    \* the hook functions of this run mode, in the order of the script
  Func,     \* Func[h]: the object that is hook h's function
  Scripts,  \* engine states that a script can set up before the first registration
  NumThreads,
  Values    \* the numbers that scripts and hooks store

Scalars == {Nil} \union ({"num"} \X Nat)

\* What an interpreter can hold: the entries of a table are its own, what
\* collect() wraps is not a wrapper.
WellFormed(s) ==
  LET plain == Scalars \union ({"obj"} \X DOMAIN s.kind)
  IN  /\ s = LuaState(s.kind, s.slots, s.val, s.cols)
      /\ s.kind \in Seq({"function", "table"})
      /\ s.slots \in Seq(Seq(DOMAIN s.val)) /\ Len(s.slots) = Len(s.kind)
      /\ s.val \in Seq(plain \union ({"col"} \X DOMAIN s.cols))
      /\ s.cols \in Seq(Seq(plain))
      /\ \A o, p \in DOMAIN s.kind : \A i \in DOMAIN s.slots[o], j \in DOMAIN s.slots[p] :
           s.kind[o] = "table" /\ s.slots[o][i] = s.slots[p][j] => o = p /\ i = j

ASSUME ScriptAssumption ==
  /\ NumThreads \in Nat \ {0}
  /\ Values \subseteq Nat
  /\ \A s \in Scripts : /\ WellFormed(s)
                        /\ \A h \in Hooks : Func[h] \in DOMAIN s.kind /\ s.kind[Func[h]] = "function"

Threads == 1..NumThreads

VARIABLES
  eng,    \* the engine's Lua state; its wrappers are se->collectors
  hook,   \* se->hooks: serialized functions
  snap,   \* history: the engine's state when a hook was registered
  phase,  \* "script", "run", "pull", "after" run(), "exit" (LOG_FATAL) or "abort"
  slave,  \* the workers' Lua states
  key,    \* hook_keys of the workers: 0, or the copy of the hook
  ideal,  \* a worker's private copy of the engine's heap
  puller  \* the worker whose values pull_script_data fetches next

scriptVars == <<eng, hook, snap, phase, slave, key, ideal, puller>>

None == [type |-> "none"]

Registered == {h \in DOMAIN hook : hook[h] # None}

EmptyState == LuaState(<<>>, <<>>, <<>>, <<>>)

ScriptInit ==
  /\ eng \in Scripts
  /\ hook = [h \in Hooks |-> None]
  /\ snap = [h \in Hooks |-> eng]
  /\ phase = "script"
  /\ slave = [t \in Threads |-> EmptyState]
  /\ key = [t \in Threads |-> [h \in Hooks |-> 0]]
  /\ ideal = [t \in Threads |-> EmptyState]
  /\ puller = 1
----------------------------------------------------------------------------
(* Access paths: what a function can name through its slots.               *)

\* Locations that object o reaches in state s.
Reached(s, o) == UNION {{s.slots[p][i] : i \in DOMAIN s.slots[p]} : p \in Objects(s, Obj(o))}

\* The pairs in R and those of the objects in their slots.
WithInside(a, b, R) ==
  R \union
  UNION {{<<a.val[a.slots[r[1]][i]][2], b.val[b.slots[r[2]][i]][2]>> :
            i \in {k \in DOMAIN a.slots[r[1]] \intersect DOMAIN b.slots[r[2]] :
                     a.val[a.slots[r[1]][k]][1] = "obj" /\ b.val[b.slots[r[2]][k]][1] = "obj"}} :
         r \in R}

\* Objects of a and b that are reached by the same paths from the pairs in R.
Matched(a, b, R) ==
  LET upto[n \in Nat] == IF n = 0 THEN R ELSE WithInside(a, b, upto[n - 1])
  IN  upto[Len(a.kind) * Len(b.kind)]

\* Locations in the slots of the pairs in M, which go by the same names.
SameNames(a, b, M) ==
  UNION {{<<a.slots[r[1]][i], b.slots[r[2]][i]>> :
            i \in DOMAIN a.slots[r[1]] \intersect DOMAIN b.slots[r[2]]} : r \in M}

\* From the pairs in R on, a and b cannot be told apart: the same paths have
\* the same values and lead to the same or to different locations.
Alike(a, b, R) ==
  LET M    == Matched(a, b, R)
      locs == SameNames(a, b, M)
  IN  /\ \A r \in M : a.kind[r[1]] = b.kind[r[2]] /\ DOMAIN a.slots[r[1]] = DOMAIN b.slots[r[2]]
      /\ \A p \in locs : LET v == a.val[p[1]]  w == b.val[p[2]]
                         IN  v[1] = w[1] /\ (v[1] # "obj" => v = w)
      /\ \A p, q \in locs : p[1] = q[1] <=> p[2] = q[2]
----------------------------------------------------------------------------
(* The script, before run().                                               *)

\* An assignment to a variable or a table entry that holds a number.
Assign(l, n) ==
  /\ phase = "script" /\ eng.val[l][1] = "num"
  /\ eng' = [eng EXCEPT !.val[l] = Num(n)]
  /\ UNCHANGED <<hook, snap, phase, slave, key, ideal, puller>>

\* Cells that only hook h uses: made with its function, garbage once it is registered.
Private(h) ==
  {l \in {eng.slots[Func[h]][i] : i \in DOMAIN eng.slots[Func[h]]} :
     eng.val[l][1] # "col" /\ \A g \in Hooks \ {h} : l \notin Reached(eng, Func[g])}

\* Where the allocator puts the cells of h's new function: at addresses that
\* are in use nowhere, or at the address of a cell that has been collected.
\* Tables and functions, whose addresses push_object looks up
\* in object_map, are their own ids: those are taken to be used once.
Placed(h) ==
  {eng} \union
  UNION {{[eng EXCEPT !.id[l] = eng.id[d]] : l \in Private(h), d \in Private(g)} :
           g \in Registered \ {h}}

\* store_hook.  serialize_function copies the function now.
Register(h) ==
  /\ phase = "script" /\ h \notin Registered
  /\ eng' \in Placed(h)
  /\ hook' = [hook EXCEPT ![h] = IF Serializable(eng', Obj(Func[h]))
                                 THEN SerializeObject(eng', Obj(Func[h])) ELSE @]
  /\ snap' = [snap EXCEPT ![h] = eng']
  /\ phase' = IF Serializable(eng', Obj(Func[h])) THEN phase ELSE "abort"
  /\ UNCHANGED <<slave, key, ideal, puller>>

\* store_hook for a hook that is set: LOG_FATAL.
RegisterTwice(h) ==
  /\ phase = "script" /\ h \in Registered
  /\ phase' = "exit"
  /\ UNCHANGED <<eng, hook, snap, slave, key, ideal, puller>>

\* An error in the script is LOG_FATAL in run_main_thread.
ScriptError ==
  /\ phase = "script"
  /\ phase' = "exit"
  /\ UNCHANGED <<eng, hook, snap, slave, key, ideal, puller>>

\* The copy a worker ought to have: the values that the registered hooks were
\* registered with.
PrivateCopy ==
  LET val(l) == IF \E h \in Registered : l \in Reached(snap[h], Func[h])
                THEN LET h == CHOOSE h \in Registered : l \in Reached(snap[h], Func[h])
                     IN  snap[h].val[l]
                ELSE eng.val[l]
  IN  [eng EXCEPT !.val = [l \in DOMAIN eng.val |-> Unwrap(eng, val(l)).v]]

\* empty_collectors
Emptied(s) == [s EXCEPT !.cols = [c \in DOMAIN s.cols |-> <<>>]]

\* run_cb, called by the script or by run_script when it has ended.  push_data
\* does nothing; empty_collectors asserts that a wrapper has its one element.
Run ==
  /\ phase = "script"
  /\ IF \A c \in DOMAIN eng.cols : Len(eng.cols[c]) = 1 /\ eng.cols[c][1] # Nil
     THEN /\ phase' = "run"
          /\ eng' = Emptied(eng)
          /\ ideal' = [t \in Threads |-> PrivateCopy]
     ELSE phase' = "abort" /\ UNCHANGED <<eng, ideal>>
  /\ UNCHANGED <<hook, snap, slave, key, puller>>
----------------------------------------------------------------------------
(* The workers.                                                            *)

\* push_hook: the first call of a hook in a worker loads it (load_hook).
Loaded(t, h) == IF key[t][h] # 0 THEN slave[t] ELSE DeserializeFunction(slave[t], hook[h])

\* The key in the registry under which load_hook left the function.
KeyOf(t, h) == IF key[t][h] # 0 THEN key[t][h] ELSE Len(slave[t].kind) + 1

\* A hook reads its variables, or stores to one of them a number, nil or an
\* object that it finds in another.
Store(s, l, v) == [s EXCEPT !.val[l] = v]

\* do_read, do_write, do_readerr, do_socket_open or do_socket_close with a
\* hook: call_hook runs it; what it returns concerns the socket only.
CallHook(t, h) ==
  /\ phase = "run" /\ h \in Registered
  /\ key' = [key EXCEPT ![t][h] = KeyOf(t, h)]
  /\ LET s    == Loaded(t, h)
         vars == SameNames(ideal[t], s, Matched(ideal[t], s, {<<Func[h], KeyOf(t, h)>>}))
     IN  \/ slave' = [slave EXCEPT ![t] = s] /\ UNCHANGED ideal
         \/ \E p \in vars, v \in {Num(n) : n \in Values} \union {Nil} :
              /\ slave' = [slave EXCEPT ![t] = Store(s, p[2], v)]
              /\ ideal' = [ideal EXCEPT ![t] = Store(@, p[1], v)]
         \/ \E p, q \in vars :
              /\ s.val[q[2]][1] = "obj" /\ p # q
              /\ slave' = [slave EXCEPT ![t] = Store(s, p[2], s.val[q[2]])]
              /\ ideal' = [ideal EXCEPT ![t] = Store(@, p[1], @.val[q[1]])]
  /\ UNCHANGED <<eng, hook, snap, phase, puller>>

\* A hook that raises an error: LOG_FATAL in call_hook.
HookError(t, h) ==
  /\ phase = "run" /\ h \in Registered
  /\ phase' = "exit"
  /\ UNCHANGED <<eng, hook, snap, slave, key, ideal, puller>>
----------------------------------------------------------------------------
(* The end of run(): the workers have been joined.                         *)

Stop ==
  /\ phase = "run"
  /\ phase' = "pull"
  /\ UNCHANGED <<eng, hook, snap, slave, key, ideal, puller>>

\* Mutant: the map of copied objects starts anew with every collector.
AddValueAfresh(s, c, sv) ==
  LET p == PushObject(NewCache(s), sv) IN [p.state EXCEPT !.cols[c] = Append(@, p.v)]

\* add_collected_value
AddValue(s, c, sv) ==
  LET p == PushObject(s, sv) IN [p.state EXCEPT !.cols[c] = Append(@, p.v)]

\* script_engine_pull_data: the collectors, the newest first, with one cache.
PullData(s, ss) ==
  LET C == Len(s.cols)
      pulled[n \in 0..C] ==
        IF n = 0 THEN NewCache(s)
        ELSE LET c == C + 1 - n
             IN  AddValue(pulled[n - 1], c, SerializeObject(ss, CollectedValue(ss, c)))
  IN  pulled[C]

\* pull_script_data for one worker.  get_collected_value aborts on a nil.
Pull ==
  /\ phase = "pull"
  /\ LET ss == slave[puller]
     IN  IF \A c \in DOMAIN eng.cols : Serializable(ss, CollectedValue(ss, c))
         THEN /\ eng' = PullData(eng, ss)
              /\ phase' = IF puller = NumThreads THEN "after" ELSE "pull"
         ELSE phase' = "abort" /\ UNCHANGED eng
  /\ puller' = puller + 1
  /\ UNCHANGED <<hook, snap, slave, key, ideal>>

ScriptNext ==
  \/ \E l \in DOMAIN eng.val, n \in Values : Assign(l, n)
  \/ \E h \in Hooks : Register(h) \/ RegisterTwice(h)
  \/ ScriptError
  \/ Run
  \/ \E t \in Threads, h \in Hooks : CallHook(t, h) \/ HookError(t, h)
  \/ Stop
  \/ Pull

ScriptSpec == ScriptInit /\ [][ScriptNext]_scriptVars
----------------------------------------------------------------------------
(* Properties.                                                             *)

\* The locations that each registered hook uses.
Uses == [h \in Registered |-> Reached(snap[h], Func[h])]

\* The script did not change, between two registrations, what both hooks use.
Coherent(uses) ==
  \A g, h \in Registered : \A l \in uses[g] \intersect uses[h] : snap[g].val[l] = snap[h].val[l]

\* No cell of a hook was put where one that a registered hook uses had been
\* (and no table or function was: see Placed).
AddressesDistinct(uses) ==
  \A g, h \in Registered : \A l \in uses[g], m \in uses[h] :
    snap[g].id[l] = snap[h].id[m] => l = m

Undisturbed == LET uses == Uses IN Coherent(uses) /\ AddressesDistinct(uses)

\* The hooks that worker t has loaded, paired with their functions in ideal[t].
LoadedPairs(t) == {<<Func[h], key[t][h]>> : h \in {g \in Hooks : key[t][g] # 0}}

\* In whatever order a worker's hooks are loaded, called and store to shared
\* variables in between, they see the worker's own copy of the script's
\* variables: the same sharing between hooks, functions and tables, and the
\* values last stored there (push_hook, set_shared_upvalue, push_object).
SeesPrivateCopy ==
  Undisturbed => \A t \in Threads : Alike(ideal[t], slave[t], LoadedPairs(t))

\* The locations that held collector c when the script called run().
Held(c) == {l \in UNION {Reached(snap[h], Func[h]) : h \in Registered} :
              \E h \in Registered : snap[h].val[l] = Col(c)}

\* What worker t's copy has in place of the collectors, one location for each.
Choices == {f \in [DOMAIN eng.cols -> DOMAIN eng.val] : \A c \in DOMAIN eng.cols : f[c] \in Held(c)}

SameValue(t, c, l) ==
  LET v == eng.cols[c][t]  w == ideal[t].val[l]
  IN  v[1] = w[1] /\ (v[1] # "obj" => v = w)

\* Every wrapper has one value for each worker, in the order of the workers:
\* what that worker's hooks left there, with what two values share still shared.
Collected ==
  /\ \A c \in DOMAIN eng.cols : Len(eng.cols[c]) = NumThreads
  /\ \A t \in Threads : \E f \in Choices :
       /\ \A c \in DOMAIN f : SameValue(t, c, f[c])
       /\ Alike(ideal[t], eng, {<<ideal[t].val[f[c]][2], eng.cols[c][t][2]>> :
                                  c \in {d \in DOMAIN f : eng.cols[d][t][1] = "obj"}})

\* Worker t called no hook that has collector c, or left something there that
\* cannot be copied.
CannotCollect(t, c) ==
  \/ \A h \in Hooks : key[t][h] # 0 => Reached(snap[h], Func[h]) \intersect Held(c) = {}
  \/ \E l \in Held(c) : ~ Serializable(ideal[t], ideal[t].val[l])

\* run() ends with the values of all workers collected (empty_collectors,
\* pull_script_data, script_engine_pull_data), or aborts the process for a
\* worker and a collector whose value cannot be had (assert in
\* serialize_object), and for no other reason.
CollectsEveryThread ==
  /\ phase = "after" /\ Undisturbed => Collected
  /\ phase = "abort" /\ puller > 1 /\ Undisturbed =>
       \E c \in DOMAIN eng.cols : CannotCollect(puller - 1, c)

\* As doc/script-api.rst has it, run() returns with the values of all workers
\* for values that a registered hook uses and that can be copied.
RunCollects ==
  /\ phase = "abort" /\ puller > 1
  /\ \A c \in DOMAIN eng.cols : Held(c) # {}
  => \E c \in DOMAIN eng.cols : \E l \in Held(c) :
       ~ Serializable(ideal[puller - 1], ideal[puller - 1].val[l])
============================================================================
