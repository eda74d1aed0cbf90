----------------------------- MODULE Ownership -----------------------------
(***************************************************************************)
(* Who owns the scopes and the blobs of a run, and when they may go.       *)
(*                                                                         *)
(* One run of a chain of core instances: each is a strand of threads (the  *)
(* agent's body) and, while a handler serves a request of its callee, a    *)
(* second strand (the handler's body).  A thread evaluates in a scope;     *)
(* a scope binds values; a value carries closures (over a scope), blob     *)
(* references, and texts in which a blob's id is only spelled out.         *)
(* Instances exchange the bus's events.  What crosses upwards is released  *)
(* by its sender and re-owned by its receiver (resource-pool.ts), blobs    *)
(* nobody carries are hoisted to the caller (reactor.ts), and every turn   *)
(* of an instance ends in a sweep of the scopes it owns and no longer      *)
(* reaches (gc.ts).  A turn is atomic: its steps run while "turn" names    *)
(* its instance, and its commit is the step that ends it.                  *)
(*                                                                         *)
(* The program is any sequence of the operations the plan's budget allows. *)
(***************************************************************************)
EXTENDS Integers, Sequences, FiniteSets, SequencesExt

CONSTANTS Plans,     \* the budgets of operations a run may be given
          MaxCore,   \* bound: core instances of a run
          MaxScope,  \* bound: scopes allocated in a run
          MaxBlob    \* bound: blobs produced or uploaded

VARIABLES
  inst,      \* core-reactor.ts: the live core instances
  scopes,    \* engine/types.ts ProjectStore.scopes: owner, parent, bindings
  blobs,     \* ProjectStore.blobs: the owner of each blob
  bytes,     \* blob-store.ts: the blobs whose bytes are stored
  rows,      \* the durable scope rows
  dirty,     \* resource-pool.ts: scopes that changed owner this turn
  reclaimed, \* resource-pool.ts: blobs whose bytes go after the commit
  events,    \* the bus, in order
  turn,      \* the instance whose turn runs, or Nobody
  next,      \* the ids taken: cores, scopes, blobs
  left,      \* what is left of the plan's budget
  held,      \* what the run instance holds: results and open questions
  uploads,   \* facade.ts: uploads whose bytes are put and not registered
  freed,     \* observed: blobs the program or the user deleted
  astray     \* observed: scopes that rose with a request, came down with an
             \* answer, or were handed to the next iteration of a forever

vars == <<inst, scopes, blobs, bytes, rows, dirty, reclaimed, events, turn,
          next, left, held, uploads, freed, astray>>

Run     == 0     \* the run instance (api reactor), permanent
ApiRoot == -1    \* the api root: the owner of the file library
Transit == -2    \* owner = null
Nobody  == -3

(***************************************************************************)
(* Values and what they reach.                                             *)
(***************************************************************************)
Nothing == [env |-> {}, refs |-> {}, text |-> {}]
Closure(s) == [Nothing EXCEPT !.env = {s}]
Ref(b) == [Nothing EXCEPT !.refs = {b}]
Text(b) == [Nothing EXCEPT !.text = {b}]

Join(v, w) == [env |-> v.env \cup w.env, refs |-> v.refs \cup w.refs,
               text |-> v.text \cup w.text]

\* Mutant: a walk that does not descend into the bindings.
Wider_Shallow(sc, S) ==
  S \cup {sc[s].parent : s \in {x \in S \cap DOMAIN sc : sc[x].parent # Nobody}}

\* What a set of scopes reaches in one step: the enclosing scopes and the
\* scopes that closures bound in them capture.
Wider(sc, S) ==
  LET here == S \cap DOMAIN sc
  IN S \cup {sc[s].parent : s \in {x \in here : sc[x].parent # Nobody}}
       \cup UNION {sc[s].holds.env : s \in here}

\* ascent.ts reachableResources: the scopes reached from S, itself included.
Reach(sc, S) ==
  LET reach[R \in SUBSET (1..MaxScope)] ==
        LET W == Wider(sc, R) IN IF W = R THEN R ELSE reach[W]
  IN reach[S]

\* The scope chain of s: itself and its lexical ancestors.
Chain(sc, s) ==
  LET chain[x \in {Nobody} \cup 1..MaxScope] ==
        IF x = Nobody THEN {}
        ELSE {x} \cup IF x \in DOMAIN sc THEN chain[sc[x].parent] ELSE {}
  IN chain[s]

CapturedScopes(sc, v) == Reach(sc, v.env) \cap DOMAIN sc
CapturedBlobs(sc, v) ==
  v.refs \cup UNION {sc[s].holds.refs : s \in CapturedScopes(sc, v)}
\* Every blob v makes known, by a reference or in a text.
Known(sc, v) ==
  CapturedBlobs(sc, v) \cup v.text
    \cup UNION {sc[s].holds.text : s \in CapturedScopes(sc, v)}

(***************************************************************************)
(* The resource pool.                                                      *)
(***************************************************************************)
ScopesOf(sc, i) == {s \in DOMAIN sc : sc[s].owner = i}

Reassign(own, S, from, to) ==
  [x \in DOMAIN own |-> IF x \in S /\ own[x] = from THEN to ELSE own[x]]

\* The scopes of v that `from` owns pass to `to`.
MoveScopes(sc, v, from, to) ==
  [s \in DOMAIN sc |-> IF s \in CapturedScopes(sc, v) /\ sc[s].owner = from
                       THEN [sc[s] EXCEPT !.owner = to] ELSE sc[s]]
MoveBlobs(sc, bl, v, from, to) == Reassign(bl, CapturedBlobs(sc, v), from, to)

\* What v moves: the rows the pool has to write.
Moved(sc, v, from) == {s \in CapturedScopes(sc, v) : sc[s].owner = from}

\* Mutant: what a text only names stays behind.
Hoist_Not(bl, i, caller) == bl

\* reactor.ts hoistOwnedBlobs: the blobs i still owns climb to its caller;
\* nothing is hoisted onto the run.
Hoist(bl, i, caller) ==
  IF caller = Run THEN bl ELSE Reassign(bl, DOMAIN bl, i, caller)

Without(f, S) == [x \in DOMAIN f \ S |-> f[x]]

BlobsOf(bl, i) == {b \in DOMAIN bl : bl[b] = i}

(***************************************************************************)
(* An instance.                                                            *)
(***************************************************************************)
Frame(s, kind) == [scope |-> s, kind |-> kind, kept |-> Nothing]
Strand(frames) == [frames |-> frames, callee |-> Nobody]
NoExit == [kind |-> "none", at |-> 0, value |-> Nothing]

Scope(owner, parent, v) == [owner |-> owner, parent |-> parent, holds |-> v]

Instance(caller, s, tells) ==
  [caller |-> caller, strands |-> <<Strand(<<Frame(s, "block")>>)>>,
   asks |-> "none", exit |-> NoExit, armed |-> <<>>,
   deferred |-> NoExit, heard |-> tells]

Strands(i) == inst[i].strands
Current(i) == Last(Strands(i))
Top(i) == Last(Current(i).frames)
Body(i) == Strands(i)[1]
FramesOf(x) == UNION {Range(x.strands[k].frames) : k \in DOMAIN x.strands}

\* The strand that computes becomes st.
Computing(x, st) == [x EXCEPT !.strands = Append(Front(@), st)]

Bind(sc, s, v) ==
  IF s \in DOMAIN sc THEN [sc EXCEPT ![s].holds = Join(@, v)] ELSE sc

\* scope.ts readVariable: what a thread that stands in s can read.
Visible(i) ==
  LET in == {scopes[s].holds : s \in Chain(scopes, Top(i).scope) \cap DOMAIN scopes}
  IN [env |-> UNION {v.env : v \in in}, refs |-> UNION {v.refs : v \in in},
      text |-> UNION {v.text : v \in in}]

\* The values the running thread can hand on.
Values(i) ==
  LET v == Visible(i)
  IN {Nothing} \cup {Closure(s) : s \in v.env} \cup {Ref(b) : b \in v.refs}
       \cup {Text(b) : b \in v.refs \cup v.text}

Event(kind, from, to, v, tells) ==
  [kind |-> kind, from |-> from, to |-> to, value |-> v, tells |-> tells,
   captured |-> Nobody]
Tells(v) == Known(scopes, v) \cap DOMAIN blobs

(***************************************************************************)
(* The sweep at the end of a turn (gc.ts).                                 *)
(***************************************************************************)
\* gc.ts threadValues: what the threads hold outside any scope.  The case of
\* a forever's states is not there.
ThreadValues(x) == {f.kept : f \in {g \in FramesOf(x) : g.kind # "forever"}}

\* gc.ts cancelExitValues and the states of a targeted cancel: a value that
\* waits for a subtree to be torn down, except the next states of a forever.
ExitValues(x) == IF x.exit.kind = "advance" THEN {} ELSE {x.exit.value}

\* Mutant: the values the threads keep outside the scopes are no roots.
Marked_ScopesOnly(sc, x) ==
  Reach(sc, {f.scope : f \in FramesOf(x)} \cup Range(x.armed))

Marked(sc, x) ==
  Reach(sc, {f.scope : f \in FramesOf(x)} \cup Range(x.armed)
              \cup UNION {v.env : v \in ThreadValues(x) \cup ExitValues(x)
                                           \cup {x.deferred.value}})

\* Mutant: the sweep frees what other instances stand in.
Retained_None(in, sc, i) == {}

\* gc.ts retainLiveEnvironments: the lexical environments of the threads and
\* the armed finalizers of every other instance; their bindings are not read.
Retained(in, sc, i) ==
  UNION {Chain(sc, s) : s \in UNION {{f.scope : f \in FramesOf(in[j])}
                                       \cup Range(in[j].armed)
                                     : j \in DOMAIN in \ {i}}}

Sweep(in, sc, i) ==
  Without(sc, ScopesOf(sc, i) \ (Marked(sc, in[i]) \cup Retained(in, sc, i)))

\* resource-pool.ts persist: the rows of put are written, those of gone deleted.
Flushed(sc, put, gone) ==
  [s \in (DOMAIN rows \ gone) \cup (put \cap DOMAIN sc) |->
     IF s \in put \cap DOMAIN sc THEN sc[s] ELSE rows[s]]

\* Mutant: what changed its owner in this turn is not written.
Commit_OwnOnly(i, in, sc, bl, out, touched, gone) ==
  LET live  == i \in DOMAIN in
      swept == IF live THEN Sweep(in, sc, i) ELSE sc
  IN /\ inst' = in /\ scopes' = swept /\ blobs' = bl
     /\ events' = Tail(events) \o out
     /\ bytes' = bytes \ gone
     /\ rows' = IF live
                THEN Flushed(swept, ScopesOf(swept, i), DOMAIN sc \ DOMAIN swept)
                ELSE Flushed(swept, {}, ScopesOf(rows, i))
     /\ dirty' = {} /\ reclaimed' = {} /\ turn' = Nobody

\* The turn of i ends, and its event is consumed: in, sc and bl are what its
\* steps left, touched the scopes that changed owner, gone the blobs reclaimed.
\* Its events go out with the commit; the bytes go after it.
Commit(i, in, sc, bl, out, touched, gone) ==
  LET live  == i \in DOMAIN in
      swept == IF live THEN Sweep(in, sc, i) ELSE sc
  IN /\ inst' = in /\ scopes' = swept /\ blobs' = bl
     /\ events' = Tail(events) \o out
     /\ bytes' = bytes \ gone
     /\ rows' = IF live
                THEN Flushed(swept, touched \cup ScopesOf(swept, i), DOMAIN sc \ DOMAIN swept)
                ELSE Flushed(swept, touched, ScopesOf(rows, i))
     /\ dirty' = {} /\ reclaimed' = {} /\ turn' = Nobody

\* The turn of i computes on.
Continue(i, in, sc, bl) ==
  /\ inst' = in /\ scopes' = sc /\ blobs' = bl /\ turn' = i
  /\ UNCHANGED <<events, bytes, rows, reclaimed>>

(***************************************************************************)
(* The terminal of an instance (thread-ops.ts, common.ts, instance.ts).    *)
(***************************************************************************)
\* The instance is gone; what it still owns goes with it.
Retire(i, in, sc, bl, out, touched, gone) ==
  Commit(i, Without(in, {i}), Without(sc, ScopesOf(sc, i)),
         Without(bl, BlobsOf(bl, i)), out, touched, gone \cup BlobsOf(bl, i))

Reply(i, x, v, sc, bl, touched) ==
  Retire(i, inst, MoveScopes(sc, v, i, Transit),
         Hoist(MoveBlobs(sc, bl, v, i, Transit), i, x.caller),
         <<Event("delegateAck", i, x.caller, v, Known(sc, v) \cap DOMAIN bl)>>,
         touched \cup Moved(sc, v, i), reclaimed)

ConfirmEnd(i, x, sc, bl, touched) ==
  Retire(i, inst, sc, bl, <<Event("terminateAck", i, x.caller, Nothing, {})>>,
         touched, reclaimed)

\* The next armed finalizer starts under the scope it was armed in; what the
\* instance was about to answer waits.
Finalize(i, x, d, sc, bl, touched) ==
  /\ next.scope <= MaxScope
  /\ Continue(i,
       [inst EXCEPT ![i] = [x EXCEPT !.armed = Front(@), !.exit = NoExit,
            !.deferred = d, !.asks = "none",
            !.strands = <<Strand(<<@[1].frames[1], Frame(next.scope, "block")>>)>>]],
       sc @@ (next.scope :> Scope(i, Last(x.armed), Nothing)), bl)
  /\ next' = [next EXCEPT !.scope = @ + 1]
  /\ dirty' = touched

Terminal(i, x, d, sc, bl, touched) ==
  \/ x.armed # <<>> /\ Finalize(i, x, d, sc, bl, touched)
  \/ x.armed = <<>> /\ d.kind = "return" /\ Reply(i, x, d.value, sc, bl, touched)
     /\ UNCHANGED next
  \/ x.armed = <<>> /\ d.kind = "terminate" /\ ConfirmEnd(i, x, sc, bl, touched)
     /\ UNCHANGED next

(***************************************************************************)
(* Steps of the running program.                                           *)
(***************************************************************************)
Spend(op) == left[op] > 0 /\ left' = [left EXCEPT ![op] = @ - 1]
Running == turn # Nobody
Me == inst[turn]

\* The running strand's frames become fs, and sc the scopes.
Step(fs, sc) ==
  /\ Continue(turn, [inst EXCEPT ![turn] =
                       Computing(Me, [Current(turn) EXCEPT !.frames = fs])], sc, blobs)
  /\ UNCHANGED <<dirty, held, uploads, freed, astray>>

\* The top scope binds v.
BindHere(v) == Bind(scopes, Top(turn).scope, v)

\* spawn.ts: a nested block runs in a fresh scope.
OpenBlock ==
  /\ Running /\ Spend("block") /\ next.scope <= MaxScope
  /\ Step(Append(Current(turn).frames, Frame(next.scope, "block")),
          scopes @@ (next.scope :> Scope(turn, Top(turn).scope, Nothing)))
  /\ next' = [next EXCEPT !.scope = @ + 1]

\* Mutant: a loop takes one scope id for its thread and its body.
OpenLoop_OneId(kind) ==
  /\ Running /\ Spend(kind) /\ next.scope < MaxScope
  /\ LET s == next.scope
     IN Step(Current(turn).frames \o <<Frame(s, kind), Frame(s + 1, "block")>>,
             scopes @@ (s :> Scope(turn, Top(turn).scope, Nothing))
                    @@ (s + 1 :> Scope(turn, s, Nothing)))
  /\ next' = [next EXCEPT !.scope = @ + 1]

\* A for, a forever or a handle: its thread, and its first body under it.
OpenLoop(kind) ==
  /\ Running /\ Spend(kind) /\ next.scope < MaxScope
  /\ LET s == next.scope
     IN Step(Current(turn).frames \o <<Frame(s, kind), Frame(s + 1, "block")>>,
             scopes @@ (s :> Scope(turn, Top(turn).scope, Nothing))
                    @@ (s + 1 :> Scope(turn, s, Nothing)))
  /\ next' = [next EXCEPT !.scope = @ + 2]

\* The iteration of the loop frame f: a fresh scope, seeded with its states.
Iteration(i, f) ==
  next.scope :> Scope(i, f.scope, IF f.kind = "forever" THEN f.kept ELSE Nothing)

\* A block ends with the value v, and its parent binds it; so does the thread of
\* a handle whose body ended, and that of a for that ran out.
LeaveBlock(v) ==
  /\ Running
  /\ Len(Current(turn).frames) > IF Me.deferred.kind = "none" THEN 1 ELSE 2
  /\ LET fs == Front(Current(turn).frames)
         p  == Last(fs)
     IN \/ p.kind = "block" /\ Step(fs, Bind(scopes, p.scope, v))
        \/ /\ p.kind \in {"handle", "for"}
           /\ Step(Front(fs), Bind(scopes, Last(Front(fs)).scope, Join(p.kept, v)))
  /\ UNCHANGED <<next, left>>

\* An iteration ends: a for collects its value, a forever discards it.
EndIteration(v) ==
  /\ Running /\ Len(Current(turn).frames) > 2 /\ Spend("iterate")
  /\ next.scope <= MaxScope
  /\ LET fs == Front(Current(turn).frames)
         p  == Last(fs)
         q  == IF p.kind = "for" THEN [p EXCEPT !.kept = Join(@, v)] ELSE p
     IN /\ p.kind \in {"for", "forever"}
        /\ Step(Front(fs) \o <<q, Frame(next.scope, "block")>>, scopes @@ Iteration(turn, q))
  /\ next' = [next EXCEPT !.scope = @ + 1]

\* A closure is built in the running scope, and bound there.
Close ==
  /\ Running /\ Spend("close")
  /\ Step(Current(turn).frames, BindHere(Closure(Top(turn).scope)))
  /\ UNCHANGED next

\* A value leaves the scope's bindings (a drop the compiler inserted).
Drop ==
  /\ Running /\ Spend("drop") /\ Top(turn).scope \in DOMAIN scopes
  /\ Step(Current(turn).frames, [scopes EXCEPT ![Top(turn).scope].holds = Nothing])
  /\ UNCHANGED next

\* A finally arms its block in the running scope.
ArmFinalizer ==
  /\ Running /\ Spend("finally") /\ Me.deferred.kind = "none"
  /\ Continue(turn, [inst EXCEPT ![turn].armed = Append(@, Top(turn).scope)], scopes, blobs)
  /\ UNCHANGED <<dirty, next, held, uploads, freed, astray>>

\* A blob is produced; the program keeps its reference, or only a text.
Produce(asText) ==
  /\ Running /\ Spend("produce") /\ next.blob <= MaxBlob
  /\ LET b == next.blob
     IN /\ inst' = [inst EXCEPT ![turn].heard = @ \cup {b}]
        /\ scopes' = BindHere(IF asText THEN Text(b) ELSE Ref(b))
        /\ blobs' = blobs @@ (b :> turn)
        /\ bytes' = bytes \cup {b}
  /\ next' = [next EXCEPT !.blob = @ + 1]
  /\ UNCHANGED <<rows, dirty, reclaimed, events, turn, held, uploads, freed, astray>>

\* files.free: only what a live instance owns goes; the run instance and the api
\* root belong to no run.
Free(b) ==
  /\ Running /\ Spend("free") /\ b \in Visible(turn).refs \cap DOMAIN blobs
  /\ LET mine == blobs[b] \in DOMAIN inst
     IN /\ blobs' = IF mine THEN Without(blobs, {b}) ELSE blobs
        /\ reclaimed' = IF mine THEN reclaimed \cup {b} ELSE reclaimed
        /\ freed' = IF mine THEN freed \cup {b} ELSE freed
  /\ UNCHANGED <<inst, scopes, bytes, rows, dirty, events, turn, next, held, uploads, astray>>

(***************************************************************************)
(* The steps that end a turn.                                              *)
(***************************************************************************)
End(x, out) ==
  Commit(turn, [inst EXCEPT ![turn] = x], scopes, blobs, out, dirty, reclaimed)

Waiting(x, callee) == Computing(x, [Last(x.strands) EXCEPT !.callee = callee])

\* A call of a named agent (captured = Nobody) or of a closure, with argument v.
Call(captured, v) ==
  /\ Running /\ Spend("call") /\ next.core <= MaxCore
  /\ captured \in {Nobody} \cup Visible(turn).env
  /\ End(Waiting(Me, next.core),
         <<[Event("delegate", turn, next.core, v, Tells(v)) EXCEPT !.captured = captured]>>)
  /\ next' = [next EXCEPT !.core = @ + 1]
  /\ UNCHANGED <<held, uploads, freed, astray>>

\* An ask of instance i rises to its caller: x is the instance, waiting.
Rise(i, x, v, sc, bl, touched) ==
  Commit(i, [inst EXCEPT ![i] = x], MoveScopes(sc, v, i, Transit),
         Hoist(MoveBlobs(sc, bl, v, i, Transit), i, x.caller),
         <<Event("escalate", i, x.caller, v, Known(sc, v) \cap DOMAIN bl)>>,
         touched \cup Moved(sc, v, i), reclaimed)

Ask(v) ==
  /\ Running /\ Spend("ask")
  /\ Rise(turn, [Me EXCEPT !.asks = "own"], v, scopes, blobs, dirty)
  /\ astray' = astray \cup CapturedScopes(scopes, v)
  /\ UNCHANGED <<next, held, uploads, freed>>

\* The agent returns v from its body.
Return(v) ==
  /\ Running /\ Me.deferred.kind = "none" /\ Len(Me.strands) = 1
  /\ Terminal(turn, Me, [kind |-> "return", at |-> 0, value |-> v], scopes, blobs, dirty)
  /\ UNCHANGED <<left, held, uploads, freed, astray>>

FinalizerEnds ==
  /\ Running /\ Me.deferred.kind # "none" /\ Len(Current(turn).frames) = 2
  /\ Terminal(turn, Me, Me.deferred, scopes, blobs, dirty)
  /\ UNCHANGED <<left, held, uploads, freed, astray>>

\* The handler answers v (next), with w for the handle's states; its strand ends.
HandleOf(frames) == SelectLastInSeq(frames, LAMBDA f : f.kind = "handle")
HandleAt == HandleOf(Body(turn).frames)

Answer(v, w) ==
  /\ Running /\ Len(Me.strands) = 2 /\ w \in {Nothing, v}
  /\ LET body == [Body(turn) EXCEPT !.frames[HandleAt].kept = Join(@, w)]
     IN End([Me EXCEPT !.strands = <<body>>],
            <<Event("escalateAck", turn, body.callee, v, Tells(v))>>)
  /\ astray' = astray \cup CapturedScopes(scopes, v)
  /\ UNCHANGED <<next, left, held, uploads, freed>>

\* The handler leaves its strand for good: the body's callee is terminated, and
\* the exit waits for it.
Jump(kind, at, v) ==
  /\ Running /\ Len(Me.strands) = 2
  /\ End([Me EXCEPT !.strands = <<Body(turn)>>, !.exit = [kind |-> kind, at |-> at, value |-> v]],
         <<Event("terminate", turn, Body(turn).callee, Nothing, {})>>)
  /\ UNCHANGED <<next, held, uploads, freed>>

Break(v) == Spend("break") /\ Jump("break", HandleAt, v) /\ UNCHANGED astray
ReturnFromHandler(v) == Spend("break") /\ Jump("return", 0, v) /\ UNCHANGED astray

\* next for a loop around the handle, with the value or the states v.
NextIteration(v) ==
  /\ Spend("advance") /\ Running
  /\ \E l \in 1..(HandleAt - 1) :
       LET kind == Body(turn).frames[l].kind
       IN /\ kind \in {"for", "forever"}
          /\ Jump(IF kind = "for" THEN "collect" ELSE "advance", l, v)
          /\ astray' = IF kind = "forever" THEN astray \cup CapturedScopes(scopes, v)
                       ELSE astray

(***************************************************************************)
(* The handlers of the core reactor, and of the api reactor for the run.   *)
(***************************************************************************)
Arrives(kind) == ~Running /\ events # <<>> /\ Head(events).kind = kind
E == Head(events)
Ignore ==
  /\ events' = Tail(events)
  /\ UNCHANGED <<inst, scopes, blobs, bytes, rows, dirty, reclaimed, turn, next, held>>

\* The pending call of E's sender in its receiver, and the receiver without it.
Waits(i) == i \in DOMAIN inst /\ \E k \in DOMAIN Strands(i) : Strands(i)[k].callee = E.from
Informed(x) == [x EXCEPT !.heard = @ \cup E.tells]
Resolved(x) ==
  [x EXCEPT !.strands = [k \in DOMAIN @ |->
     IF @[k].callee = E.from THEN [@[k] EXCEPT !.callee = Nobody] ELSE @[k]]]

\* Mutant: what crossed is left in transit.
ReownedScopes_Not(i) == scopes
ReownedBlobs_Not(i) == blobs

\* reactor.ts reownIncoming: what crossed is claimed by i.
ReownedScopes(i) == MoveScopes(scopes, E.value, Transit, i)
ReownedBlobs(i) == MoveBlobs(scopes, blobs, E.value, Transit, i)
Claimed == Moved(scopes, E.value, Transit)

\* The subtree an exit waited for is gone.
ExitDone(i, x, sc, bl, touched) ==
  LET body == x.strands[1]
      at   == x.exit.at
      loop == [body.frames[at] EXCEPT !.kept =
                 IF x.exit.kind = "collect" THEN Join(@, x.exit.value) ELSE x.exit.value]
      with(fs) == [inst EXCEPT ![i] = [x EXCEPT !.exit = NoExit,
                     !.strands = <<[body EXCEPT !.frames = fs]>>]]
  IN \/ /\ x.exit.kind = "break"
        /\ Continue(i, with(SubSeq(body.frames, 1, at - 1)),
                    Bind(sc, body.frames[at - 1].scope, x.exit.value), bl)
        /\ dirty' = touched /\ UNCHANGED next
     \/ /\ x.exit.kind \in {"collect", "advance"} /\ next.scope <= MaxScope
        /\ Continue(i, with(SubSeq(body.frames, 1, at - 1)
                              \o <<loop, Frame(next.scope, "block")>>),
                    sc @@ Iteration(i, loop), bl)
        /\ next' = [next EXCEPT !.scope = @ + 1]
        /\ dirty' = touched
     \/ x.exit.kind \in {"return", "terminate"} /\ Terminal(i, x, x.exit, sc, bl, touched)

\* A call of i is over while i is being torn down.
TornDown(i, x, sc, bl, touched) ==
  IF \A k \in DOMAIN x.strands : x.strands[k].callee = Nobody
  THEN ExitDone(i, x, sc, bl, touched)
  ELSE Commit(i, [inst EXCEPT ![i] = x], sc, bl, <<>>, touched, {}) /\ UNCHANGED next

OnDelegate ==
  /\ Arrives("delegate") /\ next.scope <= MaxScope
  /\ Continue(E.to, inst @@ (E.to :> Instance(E.from, next.scope, E.tells)),
              scopes @@ (next.scope :> Scope(E.to, E.captured, E.value)), blobs)
  /\ next' = [next EXCEPT !.scope = @ + 1]
  /\ UNCHANGED <<dirty, left, held, uploads, freed, astray>>

OnDelegateAck ==
  /\ Arrives("delegateAck") /\ E.to # Run
  /\ LET i == E.to
         x == Informed(Resolved(inst[i]))
     IN IF ~Waits(i) THEN Ignore
        ELSE /\ UNCHANGED held
             /\ IF x.exit.kind = "none"
                THEN /\ Continue(i, [inst EXCEPT ![i] = x],
                                 Bind(ReownedScopes(i), Top(i).scope, E.value), ReownedBlobs(i))
                     /\ dirty' = Claimed /\ UNCHANGED next
                ELSE TornDown(i, x, ReownedScopes(i), ReownedBlobs(i), Claimed)
  /\ UNCHANGED <<left, uploads, freed, astray>>

\* A request reaches the caller: its handle serves it, in a scope under its own,
\* or the caller passes it on to its own caller.
OnEscalate ==
  /\ Arrives("escalate") /\ E.to # Run
  /\ LET i == E.to
         x == Informed(inst[i])
         fs == Body(i).frames
         h == HandleOf(fs)
     IN IF ~Waits(i) THEN Ignore
        ELSE /\ UNCHANGED held
             /\ \/ /\ x.exit.kind # "none"
                   /\ Commit(i, [inst EXCEPT ![i] = x], ReownedScopes(i), ReownedBlobs(i),
                             <<>>, Claimed, {})
                   /\ UNCHANGED next
                \/ /\ x.exit.kind = "none" /\ Len(x.strands) = 1 /\ h # 0
                   /\ next.scope <= MaxScope
                   /\ Continue(i, [inst EXCEPT ![i] = [x EXCEPT !.strands =
                                     Append(@, Strand(<<Frame(next.scope, "block")>>))]],
                               ReownedScopes(i) @@
                                 (next.scope :> Scope(i, fs[h].scope, Join(E.value, fs[h].kept))),
                               ReownedBlobs(i))
                   /\ next' = [next EXCEPT !.scope = @ + 1] /\ dirty' = Claimed
                \/ /\ x.exit.kind = "none"
                   /\ Rise(i, [x EXCEPT !.asks = "relay"], E.value,
                           ReownedScopes(i), ReownedBlobs(i), Claimed)
                   /\ UNCHANGED next
  /\ UNCHANGED <<left, uploads, freed, astray>>

OnEscalateAck ==
  /\ Arrives("escalateAck")
  /\ LET i == E.to
         x == [inst[i] EXCEPT !.asks = "none"]
     IN IF i \notin DOMAIN inst THEN Ignore
        ELSE /\ UNCHANGED held
             /\ \/ /\ inst[i].asks = "none"
                   /\ Commit(i, inst, scopes, blobs, <<>>, {}, {})
                \/ /\ inst[i].asks = "relay"
                   /\ Commit(i, [inst EXCEPT ![i] = Informed(x)], scopes, blobs,
                             <<[E EXCEPT !.from = i, !.to = Current(i).callee]>>, {}, {})
                \/ /\ inst[i].asks = "own"
                   /\ Continue(i, [inst EXCEPT ![i] = Informed(x)],
                               Bind(scopes, Top(i).scope, E.value), blobs)
                   /\ UNCHANGED dirty
             /\ UNCHANGED next
  /\ UNCHANGED <<left, uploads, freed, astray>>

\* The instance is torn down from the root; one whose finalizers already run
\* only changes what it will answer.
OnTerminate ==
  /\ Arrives("terminate")
  /\ LET i == E.to
         x == [inst[i] EXCEPT !.exit = [NoExit EXCEPT !.kind = "terminate"], !.asks = "none"]
         calls == SelectSeq([k \in DOMAIN x.strands |-> x.strands[k].callee],
                            LAMBDA j : j # Nobody)
     IN /\ UNCHANGED held
        /\ \/ /\ i \notin DOMAIN inst
              /\ events' = Append(Tail(events), Event("terminateAck", i, E.from, Nothing, {}))
              /\ UNCHANGED <<inst, scopes, blobs, bytes, rows, dirty, reclaimed, turn, next>>
           \/ /\ i \in DOMAIN inst /\ inst[i].deferred.kind # "none"
              /\ Commit(i, [inst EXCEPT ![i].deferred = x.exit], scopes, blobs, <<>>, {}, {})
              /\ UNCHANGED next
           \/ /\ i \in DOMAIN inst /\ inst[i].deferred.kind = "none" /\ calls = <<>>
              /\ Terminal(i, x, x.exit, scopes, blobs, {})
           \/ /\ i \in DOMAIN inst /\ inst[i].deferred.kind = "none" /\ calls # <<>>
              /\ Commit(i, [inst EXCEPT ![i] = x], scopes, blobs,
                        [k \in DOMAIN calls |-> Event("terminate", i, calls[k], Nothing, {})],
                        {}, {})
              /\ UNCHANGED next
  /\ UNCHANGED <<left, uploads, freed, astray>>

OnTerminateAck ==
  /\ Arrives("terminateAck")
  /\ IF E.to = Run \/ ~Waits(E.to) THEN Ignore
     ELSE TornDown(E.to, Resolved(inst[E.to]), scopes, blobs, {}) /\ UNCHANGED held
  /\ UNCHANGED <<left, uploads, freed, astray>>

\* The api reactor: results and questions of the run are its instance's, a
\* stored value's blobs the library's.
RunKeeps(owner) ==
  /\ scopes' = MoveScopes(scopes, E.value, Transit, owner)
  /\ blobs' = MoveBlobs(scopes, blobs, E.value, Transit, owner)
  /\ rows' = Flushed(scopes', Claimed, {})
  /\ held' = Join(held, E.value)
  /\ events' = Tail(events)
  /\ UNCHANGED <<inst, bytes, dirty, reclaimed, turn, next, left, uploads, freed, astray>>

RunReceives ==
  /\ ~Running /\ events # <<>> /\ E.to = Run
  /\ \/ E.kind \in {"delegateAck", "escalate"} /\ RunKeeps(Run)
     \/ E.kind = "escalate" /\ E.value.env = {} /\ RunKeeps(ApiRoot)

(***************************************************************************)
(* The user and the file library (api-reactor.ts, facade.ts).              *)
(***************************************************************************)
Outside == ~Running /\ UNCHANGED <<inst, scopes, rows, dirty, reclaimed, turn, held, astray>>

CancelRun ==
  /\ Outside /\ Spend("cancel") /\ 1 \in DOMAIN inst
  /\ events' = Append(events, Event("terminate", Run, 1, Nothing, {}))
  /\ UNCHANGED <<blobs, bytes, next, uploads, freed>>

\* The open question of the root instance is answered, perhaps with a file.
AnswerUser ==
  /\ Outside /\ 1 \in DOMAIN inst /\ inst[1].asks # "none"
  /\ \A k \in DOMAIN events : events[k].kind # "escalateAck" /\ events[k].to # Run
  /\ \E v \in {Nothing} \cup {Ref(b) : b \in BlobsOf(blobs, ApiRoot)} :
       events' = Append(events, Event("escalateAck", Run, 1, v, v.refs))
  /\ UNCHANGED <<blobs, bytes, next, left, uploads, freed>>

\* facade.ts mintAndStoreBlob: the bytes first, then the command that registers
\* the blob; a registration that fails takes the bytes back.
PutBytes ==
  /\ Outside /\ Spend("upload") /\ next.blob <= MaxBlob
  /\ bytes' = bytes \cup {next.blob} /\ uploads' = uploads \cup {next.blob}
  /\ next' = [next EXCEPT !.blob = @ + 1]
  /\ UNCHANGED <<blobs, events, freed>>

Register(b) ==
  /\ Outside /\ blobs' = blobs @@ (b :> ApiRoot) /\ uploads' = uploads \ {b}
  /\ UNCHANGED <<bytes, events, next, left, freed>>

\* Mutant: the bytes of an upload that failed stay.
RegisterFails_KeepsBytes(b) ==
  /\ Outside /\ uploads' = uploads \ {b}
  /\ UNCHANGED <<bytes, blobs, events, next, left, freed>>

RegisterFails(b) ==
  /\ Outside /\ bytes' = bytes \ {b} /\ uploads' = uploads \ {b}
  /\ UNCHANGED <<blobs, events, next, left, freed>>

\* The user deletes a file; only the library's own blobs can go.
DeleteFile(b) ==
  /\ Outside /\ Spend("free") /\ blobs[b] = ApiRoot
  /\ blobs' = Without(blobs, {b}) /\ bytes' = bytes \ {b} /\ freed' = freed \cup {b}
  /\ UNCHANGED <<events, next, uploads>>

(***************************************************************************)
Init ==
  /\ left \in Plans
  /\ inst = <<>> /\ scopes = <<>> /\ blobs = <<>> /\ rows = <<>>
  /\ bytes = {} /\ dirty = {} /\ reclaimed = {} /\ uploads = {} /\ freed = {}
  /\ astray = {} /\ held = Nothing /\ turn = Nobody
  /\ events = <<Event("delegate", Run, 1, Nothing, {})>>
  /\ next = [core |-> 2, scope |-> 1, blob |-> 1]

Compute ==
  \/ OpenBlock \/ Close \/ Drop \/ ArmFinalizer
  \/ \E kind \in {"for", "forever", "handle"} : OpenLoop(kind)
  \/ \E asText \in BOOLEAN : Produce(asText)
  \/ \E b \in 1..MaxBlob : Free(b)
  \/ Running /\ \E v \in Values(turn) : LeaveBlock(v) \/ EndIteration(v)

EndTurn ==
  \/ FinalizerEnds
  \/ Running /\ \E v \in Values(turn) :
       \/ \E s \in {Nobody} \cup 1..MaxScope : Call(s, v)
       \/ Ask(v) \/ Return(v) \/ Break(v) \/ ReturnFromHandler(v) \/ NextIteration(v)
       \/ \E w \in Values(turn) : Answer(v, w)

React ==
  \/ OnDelegate \/ OnDelegateAck \/ OnEscalate \/ OnEscalateAck
  \/ OnTerminate \/ OnTerminateAck \/ RunReceives

World ==
  \/ CancelRun \/ AnswerUser \/ PutBytes
  \/ \E b \in uploads : Register(b) \/ RegisterFails(b)
  \/ \E b \in DOMAIN blobs : DeleteFile(b)

Next == Compute \/ EndTurn \/ React \/ World

Spec == Init /\ [][Next]_vars

(***************************************************************************)
(* What must hold.                                                         *)
(***************************************************************************)
Value == [env : SUBSET (1..MaxScope), refs : SUBSET (1..MaxBlob), text : SUBSET (1..MaxBlob)]

\* The state is of its type: the maps hold only ids that were allocated.
TypeOK ==
  /\ DOMAIN inst \subseteq 1..(next.core - 1) /\ next.core - 1 \in 1..MaxCore
  /\ DOMAIN scopes \subseteq 1..(next.scope - 1) /\ next.scope - 1 \in 0..MaxScope
  /\ DOMAIN blobs \subseteq 1..(next.blob - 1) /\ next.blob - 1 \in 0..MaxBlob
  /\ \A s \in DOMAIN scopes : scopes[s].holds \in Value
  /\ turn \in {Nobody} \cup DOMAIN inst /\ held \in Value
  /\ \A i \in DOMAIN inst : Len(Strands(i)) \in 1..2

Standing(i) == {f.scope : f \in FramesOf(inst[i])} \cup Range(inst[i].armed)

\* Everything a live instance can come to read through, in the scopes sc: the
\* scopes it stands in and those captured by what its threads and its pending
\* exits hold.
Needed(sc, i) ==
  Reach(sc, Standing(i) \cup UNION {f.kept.env : f \in FramesOf(inst[i])}
              \cup inst[i].exit.value.env \cup inst[i].deferred.value.env)

\* No sweep and no teardown takes an environment from under a live instance:
\* the scopes its threads stand in exist, and so does every scope a value it
\* holds captures - except those that went astray (see "HeldOnly"), in which
\* bindings may be younger than the closure that captured them.
EnvironmentsKept ==
  \A i \in DOMAIN inst :
    /\ \A f \in FramesOf(inst[i]) : f.scope \in DOMAIN scopes
    /\ Needed(Without(scopes, astray), i) \subseteq DOMAIN scopes \cup astray

\* gc.ts: "A closure a live thread merely holds in a variable needs no
\* protection here - that closure's chain is reachable from the holder's own
\* scope, so the holder's own sweep marks it, and only its OWNER's sweep can
\* free it."
HeldOnly ==
  \A i \in DOMAIN inst :
    UNION {f.kept.env : f \in FramesOf(inst[i])} \cup Visible(i).env \subseteq DOMAIN scopes

\* A blob an instance was told of, by a reference or in a text, exists while
\* the instance lives, unless somebody deleted it; so do the blobs an event in
\* flight tells of, and those the run's result or an open question refers to.
BlobsKept ==
  /\ \A i \in DOMAIN inst : inst[i].heard \subseteq DOMAIN blobs \cup freed
  /\ \A k \in DOMAIN events :
       events[k].to # Run => events[k].tells \subseteq DOMAIN blobs \cup freed
  /\ held.refs \subseteq DOMAIN blobs \cup freed

\* Nothing is lost to everyone: what no instance owns is carried by an event in
\* flight, and every owner is alive.
NothingStranded ==
  LET carried == {events[k].value : k \in DOMAIN events}
      owners  == DOMAIN inst \cup {Run, ApiRoot}
  IN /\ \A s \in DOMAIN scopes :
          \/ scopes[s].owner \in owners
          \/ scopes[s].owner = Transit /\ \E v \in carried : s \in CapturedScopes(scopes, v)
     /\ \A b \in DOMAIN blobs :
          \/ blobs[b] \in owners
          \/ blobs[b] = Transit /\ \E v \in carried : b \in CapturedBlobs(scopes, v)

\* Between turns the rows hold every scope as it is, so that a reload finds the
\* same scopes - except those that went astray (see "TouchedIsFlushed").
RowsFollow ==
  ~Running => \A s \in DOMAIN scopes \ astray : s \in DOMAIN rows /\ rows[s] = scopes[s]

\* core-reactor.ts: "the pool flushes the scopes it touched".
TouchedIsFlushed ==
  ~Running => \A s \in DOMAIN scopes : s \in DOMAIN rows /\ rows[s] = scopes[s]

\* A blob has its bytes, and bytes without a blob belong to an upload.
BytesKept ==
  /\ DOMAIN blobs \subseteq bytes
  /\ ~Running => bytes \subseteq DOMAIN blobs \cup uploads

\* Nothing a party may still use is lost, and nothing is kept for nobody: blobs
\* exist while an instance, an event or the run knows them, no resource is
\* without an owner or a carrier, bytes belong to a blob or an upload, and the
\* rows tell a reload all of it.
ResourcesKept == BlobsKept /\ NothingStranded /\ BytesKept /\ RowsFollow
=============================================================================
