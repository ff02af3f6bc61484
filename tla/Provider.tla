------------------------------ MODULE Provider ------------------------------
(***************************************************************************)
(* The C ABI of the module (rust-lib/generated/provider_gen.rs): host      *)
(* threads stamp the module context, set the event callback and dispatch   *)
(* method calls, all at once, over four global mutexes and an atomic flag. *)
(*                                                                         *)
(* REGISTERED, INSTANCE and EMIT are held across steps, so each has an     *)
(* owner; CONTEXT is locked for one load or one store, which is one step.  *)
(* What a method computes is the module AccountsModule; here it is the     *)
(* number of events it emits.                                              *)
(*                                                                         *)
(* The callback is host code that returns and does not call back into the  *)
(* module: it runs with all of the locks held.                             *)
(***************************************************************************)
EXTENDS Naturals, Sequences

CONSTANTS
    Threads,    \* host threads
    Contexts,   \* module contexts that the host stamps
    Callbacks,  \* event callbacks that the host sets
    MaxEvents,  \* most events of one method call
    MaxCalls,   \* bounds the number of calls into the module
    Nobody,     \* a lock that is free
    None        \* no context, no callback

ASSUME ProviderAssumption ==
    /\ Nobody \notin Threads
    /\ None \notin Contexts \cup Callbacks
    /\ MaxEvents \in Nat
    /\ MaxCalls \in Nat

VARIABLES
    registered, \* REGISTERED is Some
    created,    \* INSTANCE is Some
    context,    \* CONTEXT
    emit,       \* EMIT.cb
    hook_fired, \* HOOK_FIRED
    owner,      \* lock -> the thread that holds it
    pc,         \* thread -> its next step
    call,       \* thread -> its current call
    seen,       \* thread -> the context, then the callback, it has read
    hooks,      \* contexts for which on_context_ready has run
    calls       \* number of calls so far

vars == <<registered, created, context, emit, hook_fired, owner, pc, call,
          seen, hooks, calls>>

Lock == {"REGISTERED", "INSTANCE", "EMIT"}

\* "stamped" is TRUE in a call that began after a context was set.
Call ==
    [op : {"set_context"}, arg : Contexts, stamped : BOOLEAN]
    \cup [op : {"set_emit"}, arg : Callbacks \cup {None}, stamped : BOOLEAN]
    \cup [op : {"dispatch"}, arg : 0..MaxEvents, stamped : BOOLEAN]

NoCall == [op |-> "dispatch", arg |-> 0, stamped |-> FALSE]

Steps == {"idle", "store", "check", "install", "load", "ensure", "fired?",
          "context?", "emit?", "fire", "hook", "dispatch", "enter", "method",
          "callback"}

Init ==
    /\ registered = FALSE /\ created = FALSE
    /\ context = None /\ emit = None
    /\ hook_fired = FALSE
    /\ owner = [l \in Lock |-> Nobody]
    /\ pc = [t \in Threads |-> "idle"]
    /\ call = [t \in Threads |-> NoCall]
    /\ seen = [t \in Threads |-> None]
    /\ hooks = <<>>
    /\ calls = 0

-----------------------------------------------------------------------------

Goto(t, s) == pc' = [pc EXCEPT ![t] = s]

Free(l) == owner[l] = Nobody

\* Mutant: INSTANCE is not a lock.
NeverWaits == TRUE

InstanceFree == Free("INSTANCE")

Take(l, t) == owner' = [owner EXCEPT ![l] = t]

\* Mutant: the callback runs on a copy, after EMIT is unlocked.
RunUnlocked(t) == UNCHANGED owner

HoldEmit(t) == Take("EMIT", t)

\* Mutant: REGISTERED stays locked while the install hook runs.
CheckHoldsLock(t) ==
    IF registered THEN UNCHANGED owner ELSE Take("REGISTERED", t)

\* The guard of the check is dropped before the install hook runs.
CheckReleases(t) == UNCHANGED owner

\* Mutant: set_context leaves the hook to the next call.
AfterStoreLazy(c) == IF c.op = "set_context" THEN "idle" ELSE "check"

\* Both setters end with ensure_ready.
AfterStore(c) == "check"

\* Mutant: a method call too waits for the callback to be set.
AlwaysRequiresEmit(c) == TRUE

RequireEmit(c) == c.op # "dispatch"

AfterEnsure(c) == IF c.op = "dispatch" THEN "dispatch" ELSE "idle"

\* Mutant: the hook runs with or without a context.
AnyContext == TRUE

HasContext == context # None

-----------------------------------------------------------------------------

\* The host calls logos_module_set_context, logos_module_set_emit_callback or
\* logos_module_dispatch (a null method or malformed arguments return at once).
Begin(t) ==
    /\ pc[t] = "idle"
    /\ calls < MaxCalls
    /\ \E c \in Call :
          /\ c.stamped = (context # None)
          /\ call' = [call EXCEPT ![t] = c]
          /\ Goto(t, IF c.op = "dispatch" THEN "check" ELSE "store")
    /\ calls' = calls + 1
    /\ UNCHANGED <<registered, created, context, emit, hook_fired, owner, seen,
                   hooks>>

SetContext(t) ==
    /\ pc[t] = "store" /\ call[t].op = "set_context"
    /\ context' = call[t].arg
    /\ Goto(t, AfterStore(call[t]))
    /\ UNCHANGED <<registered, created, emit, hook_fired, owner, call, seen,
                   hooks, calls>>

SetEmitCallback(t) ==
    /\ pc[t] = "store" /\ call[t].op = "set_emit"
    /\ Free("EMIT")
    /\ emit' = call[t].arg
    /\ Goto(t, AfterStore(call[t]))
    /\ UNCHANGED <<registered, created, context, hook_fired, owner, call, seen,
                   hooks, calls>>

\* ensure_ready: three separate short holds of REGISTERED.
CheckRegistered(t) ==
    /\ pc[t] = "check"
    /\ Free("REGISTERED")
    /\ CheckReleases(t)
    /\ Goto(t, IF registered THEN "load" ELSE "install")
    /\ UNCHANGED <<registered, created, context, emit, hook_fired, call, seen,
                   hooks, calls>>

Install(t) ==
    /\ pc[t] = "install"
    /\ Free("REGISTERED")
    /\ registered' = TRUE
    /\ Goto(t, "load")
    /\ UNCHANGED <<created, context, emit, hook_fired, owner, call, seen, hooks,
                   calls>>

LoadEnsure(t) ==
    /\ pc[t] = "load"
    /\ Free("REGISTERED")
    /\ Goto(t, IF registered THEN "ensure" ELSE AfterEnsure(call[t]))
    /\ UNCHANGED <<registered, created, context, emit, hook_fired, owner, call,
                   seen, hooks, calls>>

\* ensure_impl, with INSTANCE held to its end.
LockInstance(t) ==
    /\ pc[t] = "ensure"
    /\ InstanceFree
    /\ Take("INSTANCE", t)
    /\ created' = TRUE
    /\ Goto(t, "fired?")
    /\ UNCHANGED <<registered, context, emit, hook_fired, call, seen, hooks,
                   calls>>

LeaveEnsure(t) ==
    /\ Take("INSTANCE", Nobody)
    /\ Goto(t, AfterEnsure(call[t]))

CheckHookFired(t) ==
    /\ pc[t] = "fired?"
    /\ \/ hook_fired /\ LeaveEnsure(t)
       \/ ~hook_fired /\ Goto(t, "context?") /\ UNCHANGED owner
    /\ UNCHANGED <<registered, created, context, emit, hook_fired, call, seen,
                   hooks, calls>>

ReadContext(t) ==
    /\ pc[t] = "context?"
    /\ \/ ~HasContext /\ LeaveEnsure(t) /\ UNCHANGED seen
       \/ /\ HasContext
          /\ seen' = [seen EXCEPT ![t] = context]
          /\ Goto(t, IF RequireEmit(call[t]) THEN "emit?" ELSE "fire")
          /\ UNCHANGED owner
    /\ UNCHANGED <<registered, created, context, emit, hook_fired, call, hooks,
                   calls>>

CheckEmit(t) ==
    /\ pc[t] = "emit?"
    /\ Free("EMIT")
    /\ \/ emit = None /\ LeaveEnsure(t)
       \/ emit # None /\ Goto(t, "fire") /\ UNCHANGED owner
    /\ UNCHANGED <<registered, created, context, emit, hook_fired, call, seen,
                   hooks, calls>>

\* The flag is raised first, then on_context_ready runs.
FireHook(t) ==
    /\ pc[t] = "fire"
    /\ hook_fired' = TRUE
    /\ Goto(t, "hook")
    /\ UNCHANGED <<registered, created, context, emit, owner, call, seen, hooks,
                   calls>>

OnContextReady(t) ==
    /\ pc[t] = "hook"
    /\ hooks' = Append(hooks, seen[t])
    /\ LeaveEnsure(t)
    /\ UNCHANGED <<registered, created, context, emit, hook_fired, call, seen,
                   calls>>

\* logos_module_dispatch holds REGISTERED from here to its end.
LockRegistered(t) ==
    /\ pc[t] = "dispatch"
    /\ Free("REGISTERED")
    /\ Take("REGISTERED", t)
    /\ Goto(t, "enter")
    /\ UNCHANGED <<registered, created, context, emit, hook_fired, call, seen,
                   hooks, calls>>

\* dispatch_impl
EnterMethod(t) ==
    /\ pc[t] = "enter"
    /\ InstanceFree
    /\ Take("INSTANCE", t)
    /\ created' = TRUE
    /\ Goto(t, "method")
    /\ UNCHANGED <<registered, context, emit, hook_fired, call, seen, hooks,
                   calls>>

\* emit_event: without a callback the event is dropped.
EmitEvent(t) ==
    /\ pc[t] = "method" /\ call[t].arg > 0
    /\ Free("EMIT")
    /\ call' = [call EXCEPT ![t].arg = @ - 1]
    /\ \/ emit = None /\ UNCHANGED <<owner, seen, pc>>
       \/ /\ emit # None
          /\ HoldEmit(t)
          /\ seen' = [seen EXCEPT ![t] = emit]
          /\ Goto(t, "callback")
    /\ UNCHANGED <<registered, created, context, emit, hook_fired, hooks, calls>>

CallbackReturns(t) ==
    /\ pc[t] = "callback"
    /\ Take("EMIT", Nobody)
    /\ Goto(t, "method")
    /\ UNCHANGED <<registered, created, context, emit, hook_fired, call, seen,
                   hooks, calls>>

\* The guards are dropped one within the other: INSTANCE, then REGISTERED.
Return(t) ==
    /\ pc[t] = "method" /\ call[t].arg = 0
    /\ owner' = [owner EXCEPT !["INSTANCE"] = Nobody, !["REGISTERED"] = Nobody]
    /\ Goto(t, "idle")
    /\ UNCHANGED <<registered, created, context, emit, hook_fired, call, seen,
                   hooks, calls>>

Step(t) ==
    \/ SetContext(t) \/ SetEmitCallback(t)
    \/ CheckRegistered(t) \/ Install(t) \/ LoadEnsure(t)
    \/ LockInstance(t) \/ CheckHookFired(t) \/ ReadContext(t) \/ CheckEmit(t)
    \/ FireHook(t) \/ OnContextReady(t)
    \/ LockRegistered(t) \/ EnterMethod(t)
    \/ EmitEvent(t) \/ CallbackReturns(t) \/ Return(t)

Next == \E t \in Threads : Begin(t) \/ Step(t)

Spec == Init /\ [][Next]_vars

\* A thread inside the module is scheduled as long as it is not blocked.
FairSpec == Spec /\ \A t \in Threads : WF_vars(Step(t))

-----------------------------------------------------------------------------

\* The types of the statics and of the threads' locals: on_context_ready only
\* ever gets a context that the host stamped.
TypeOK ==
    /\ registered \in BOOLEAN /\ created \in BOOLEAN /\ hook_fired \in BOOLEAN
    /\ context \in Contexts \cup {None}
    /\ emit \in Callbacks \cup {None}
    /\ owner \in [Lock -> Threads \cup {Nobody}]
    /\ pc \in [Threads -> Steps]
    /\ call \in [Threads -> Call]
    /\ seen \in [Threads -> Contexts \cup Callbacks \cup {None}]
    /\ hooks \in Seq(Contexts)
    /\ calls \in 0..MaxCalls

\* "One-time setup after host stamps module context": on_context_ready runs at
\* most once, whichever of the three entry points race to run it.
HookOnce == Len(hooks) <= 1

\* A method that was called after a context was set runs after
\* on_context_ready has returned, not merely after HOOK_FIRED was raised.
HookBeforeMethod ==
    \A t \in Threads : pc[t] = "method" /\ call[t].stamped => hooks # <<>>

\* Once context and callback are both set, in any order and by any threads,
\* and all calls have returned, on_context_ready has run: neither of the two
\* setters may take the other one for the last.
HookNotForgotten ==
    (/\ \A t \in Threads : pc[t] = "idle"
     /\ context # None /\ emit # None) => hooks # <<>>

\* A callback runs only while it is the one that is set, and one at a time:
\* when set_emit_callback returns, its predecessor is not running and never
\* runs again, so the host may free what it used.
OnlyCurrentCallbackRuns ==
    \A t \in Threads : pc[t] = "callback" =>
        /\ seen[t] = emit
        /\ \A u \in Threads : pc[u] = "callback" => u = t

\* The locks that the next step of a thread takes.
Wants(t) ==
    CASE pc[t] \in {"check", "install", "load", "dispatch"} -> {"REGISTERED"}
      [] pc[t] \in {"ensure", "enter"} -> {"INSTANCE"}
      [] \/ pc[t] = "emit?"
         \/ pc[t] = "store" /\ call[t].op = "set_emit"
         \/ pc[t] = "method" /\ call[t].arg > 0 -> {"EMIT"}
      [] OTHER -> {}

\* Whenever threads are inside the module, one of them finds the locks free that
\* it wants: REGISTERED is held over the whole dispatch, INSTANCE and EMIT are
\* taken below it, and no two threads may come to wait for each other, nor one
\* for itself.
SomeoneGoesOn ==
    (\E t \in Threads : pc[t] # "idle") =>
        \E t \in Threads : pc[t] # "idle" /\ \A l \in Wants(t) : Free(l)

\* Every call returns: the order in which the locks are taken admits no
\* deadlock, provided that the callback returns.
EveryCallReturns == \A t \in Threads : pc[t] # "idle" ~> pc[t] = "idle"

=============================================================================
