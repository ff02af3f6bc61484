--------------------------- MODULE ProviderProofs ---------------------------
(***************************************************************************)
(* The safety of the provider, for any number of threads, contexts,        *)
(* callbacks and calls.                                                    *)
(*                                                                         *)
(* The three locks are what the proof is about: a thread's next step says  *)
(* which of them it holds (LocksHeld), so at most one thread is between    *)
(* the check of HOOK_FIRED and the return of on_context_ready (HookState), *)
(* and a callback cannot change while it runs (CallbackState).             *)
(***************************************************************************)
EXTENDS Provider, TLAPS, SequenceTheorems

InEnsure == {"fired?", "context?", "emit?", "fire", "hook"}
InMethod == {"method", "callback"}

\* Each lock is held by the thread whose next step says so.
LocksHeld ==
    \A t \in Threads :
        /\ pc[t] \in InEnsure \cup InMethod <=> owner["INSTANCE"] = t
        /\ pc[t] \in InMethod \cup {"enter"} <=> owner["REGISTERED"] = t
        /\ pc[t] = "callback" <=> owner["EMIT"] = t

\* A thread past the check of HOOK_FIRED is the first to run the hook.
HookState ==
    /\ ~hook_fired => hooks = <<>>
    /\ hooks = <<>> \/ Len(hooks) = 1
    /\ hook_fired /\ hooks = <<>> => \E t \in Threads : pc[t] = "hook"
    /\ \A t \in Threads :
          /\ pc[t] \in {"context?", "emit?", "fire"} => ~hook_fired
          /\ pc[t] = "hook" => hook_fired /\ hooks = <<>>
          /\ pc[t] \in {"emit?", "fire", "hook"} => seen[t] \in Contexts

\* A dispatch that saw a context has been through ensure_ready by the time it
\* locks REGISTERED.
DispatchState ==
    \A t \in Threads :
        /\ pc[t] \notin {"idle", "store", "check", "install"} => registered
        /\ pc[t] \in {"store", "emit?"} => call[t].op # "dispatch"
        /\ pc[t] # "idle" /\ call[t].stamped => context # None
        /\ pc[t] \in {"dispatch", "enter"} \cup InMethod =>
              (call[t].op = "dispatch" /\ (call[t].stamped => hook_fired))

CallbackState ==
    \A t \in Threads : pc[t] = "callback" => seen[t] = emit

BeforeHook == {"check", "install", "load", "ensure", "fired?", "context?",
               "emit?", "fire"}

\* As long as the hook has still to run with context and callback set, some
\* thread is on its way to find that out.
HookPending ==
    context # None /\ emit # None /\ ~hook_fired
        => \E t \in Threads : pc[t] \in BeforeHook

Inv ==
    /\ TypeOK
    /\ LocksHeld /\ HookState /\ HookPending
    /\ DispatchState /\ CallbackState

-----------------------------------------------------------------------------

\* Before the first call.
LEMMA InitInv == Init => Inv
<1>1. SUFFICES ASSUME Init PROVE Inv
  OBVIOUS
<1>2. NoCall \in Call
  BY ProviderAssumption DEF NoCall, Call
<1>3. TypeOK
  <2>1. /\ owner \in [Lock -> Threads \cup {Nobody}]
        /\ pc \in [Threads -> Steps]
        /\ seen \in [Threads -> Contexts \cup Callbacks \cup {None}]
        /\ call \in [Threads -> Call]
    BY <1>1, <1>2 DEF Init, Steps
  <2>2. calls \in 0..MaxCalls /\ hooks \in Seq(Contexts)
    BY <1>1, ProviderAssumption DEF Init
  <2> QED
    BY <1>1, <2>1, <2>2 DEF Init, TypeOK
<1>4. LocksHeld /\ HookState /\ HookPending /\ DispatchState /\ CallbackState
  BY <1>1, ProviderAssumption
  DEF Init, LocksHeld, HookState, HookPending, BeforeHook, DispatchState,
      CallbackState, InEnsure,
      InMethod, Lock, NoCall
<1> QED
  BY <1>3, <1>4 DEF Inv

\* logos_module_set_context stamps the context.
LEMMA SetContextInv ==
    ASSUME Inv, NEW t \in Threads, SetContext(t)
    PROVE  Inv'
<1>1. call[t].arg \in Contexts
  BY DEF SetContext, Inv, TypeOK, Call
<1>2. TypeOK'
  BY <1>1 DEF SetContext, Inv, TypeOK, Goto, AfterStore, Steps
<1>3. LocksHeld' /\ HookState' /\ HookPending' /\ DispatchState' /\ CallbackState'
  BY <1>1, ProviderAssumption
  DEF SetContext, Inv, TypeOK, Goto, AfterStore, LocksHeld, HookState,
      HookPending, BeforeHook,
      DispatchState, CallbackState, InEnsure, InMethod
<1> QED
  BY <1>2, <1>3 DEF Inv

\* A thread enters the module.
LEMMA BeginInv ==
    ASSUME Inv, NEW t \in Threads, Begin(t)
    PROVE  Inv'
<1>1. TypeOK'
  <2>1. call' \in [Threads -> Call] /\ pc' \in [Threads -> Steps]
    BY DEF Begin, Inv, TypeOK, Goto, Steps
  <2>2. calls' \in 0..MaxCalls
    BY ProviderAssumption DEF Begin, Inv, TypeOK
  <2> QED
    BY <2>1, <2>2 DEF Begin, Inv, TypeOK
<1>2. LocksHeld' /\ HookState' /\ HookPending' /\ CallbackState'
  BY DEF Begin, Inv, TypeOK, Goto, LocksHeld, HookState, HookPending,
         BeforeHook, CallbackState,
         InEnsure, InMethod
<1>3. DispatchState'
  BY ZenonT(60) DEF Begin, Inv, TypeOK, Goto, DispatchState, InMethod
<1> QED
  BY <1>1, <1>2, <1>3 DEF Inv

\* The steps of set_emit_callback and of ensure_ready before ensure_impl.
LEMMA RegisterInv ==
    ASSUME Inv, NEW t \in Threads,
           \/ SetEmitCallback(t)
           \/ CheckRegistered(t) \/ Install(t) \/ LoadEnsure(t)
    PROVE  Inv'
<1>1. CASE SetEmitCallback(t)
  <2>1. call[t].arg \in Callbacks \cup {None}
    BY <1>1 DEF SetEmitCallback, Inv, TypeOK, Call
  <2>2. TypeOK'
    BY <1>1, <2>1 DEF SetEmitCallback, Inv, TypeOK, Goto, AfterStore, Steps
  <2>3. LocksHeld' /\ HookState' /\ HookPending' /\ DispatchState' /\ CallbackState'
    BY <1>1, ProviderAssumption
    DEF SetEmitCallback, Inv, TypeOK, Goto, AfterStore, LocksHeld, HookState,
        HookPending, BeforeHook,
        DispatchState, CallbackState, InEnsure, InMethod, Free
  <2> QED
    BY <2>2, <2>3 DEF Inv
<1>2. CASE CheckRegistered(t)
  BY <1>2
  DEF CheckRegistered, CheckReleases, Inv, TypeOK, Goto, LocksHeld, HookState,
      HookPending, BeforeHook,
      DispatchState, CallbackState, InEnsure, InMethod, Steps
<1>3. CASE Install(t)
  BY <1>3
  DEF Install, Inv, TypeOK, Goto, LocksHeld, HookState, HookPending, BeforeHook,
      DispatchState, CallbackState, InEnsure, InMethod, Steps
<1>4. CASE LoadEnsure(t)
  BY <1>4
  DEF LoadEnsure, Inv, TypeOK, Goto, LocksHeld, HookState, HookPending,
      BeforeHook,
      DispatchState, CallbackState, InEnsure, InMethod, Steps
<1> QED
  BY <1>1, <1>2, <1>3, <1>4

\* The steps of ensure_impl.
LEMMA EnsureInv ==
    ASSUME Inv, NEW t \in Threads,
           \/ LockInstance(t) \/ CheckHookFired(t) \/ ReadContext(t)
           \/ CheckEmit(t) \/ FireHook(t) \/ OnContextReady(t)
    PROVE  Inv'
<1> USE DEF Inv, TypeOK, Goto, Take, LocksHeld, HookState, HookPending,
            BeforeHook, DispatchState,
            CallbackState, InEnsure, InMethod, Steps, Lock
<1>1. CASE LockInstance(t)
  BY <1>1, ProviderAssumption DEF LockInstance, InstanceFree, Free
<1>2. CASE CheckHookFired(t)
  BY <1>2, ProviderAssumption DEF CheckHookFired, LeaveEnsure, AfterEnsure
<1>3. CASE ReadContext(t)
  BY <1>3, ProviderAssumption
  DEF ReadContext, LeaveEnsure, AfterEnsure, HasContext, RequireEmit
<1>4. CASE CheckEmit(t)
  BY <1>4, ProviderAssumption DEF CheckEmit, LeaveEnsure, AfterEnsure, Free
<1>5. CASE FireHook(t)
  BY <1>5, ProviderAssumption DEF FireHook
<1>6. CASE OnContextReady(t)
  BY <1>6, ProviderAssumption DEF OnContextReady, LeaveEnsure, AfterEnsure
<1> QED
  BY <1>1, <1>2, <1>3, <1>4, <1>5, <1>6

\* The steps of logos_module_dispatch after ensure_ready.
LEMMA MethodInv ==
    ASSUME Inv, NEW t \in Threads,
           \/ LockRegistered(t) \/ EnterMethod(t) \/ EmitEvent(t)
           \/ CallbackReturns(t) \/ Return(t)
    PROVE  Inv'
<1> USE DEF Inv, TypeOK, Goto, Take, LocksHeld, HookState, HookPending,
            BeforeHook, DispatchState,
            CallbackState, InEnsure, InMethod, Steps, Lock
<1>1. CASE LockRegistered(t)
  BY <1>1, ProviderAssumption DEF LockRegistered, Free
<1>2. CASE EnterMethod(t)
  BY <1>2, ProviderAssumption DEF EnterMethod, InstanceFree, Free
<1>3. CASE EmitEvent(t)
  <2>1. /\ call' \in [Threads -> Call]
        /\ \A u \in Threads : /\ call'[u].op = call[u].op
                             /\ call'[u].stamped = call[u].stamped
    <3>1. call[t].op = "dispatch" /\ call[t].arg \in 1..MaxEvents
      BY <1>3, ProviderAssumption DEF EmitEvent, Call
    <3>2. [call[t] EXCEPT !.arg = @ - 1] \in Call
      BY <3>1, ProviderAssumption DEF Call
    <3> QED
      BY <1>3, <3>1, <3>2 DEF EmitEvent, Call
  <2>2. CASE emit = None
    BY <1>3, <2>1, <2>2 DEF EmitEvent
  <2>3. CASE emit # None
    BY <1>3, <2>1, <2>3, ProviderAssumption DEF EmitEvent, HoldEmit, Free
  <2> QED
    BY <2>2, <2>3
<1>4. CASE CallbackReturns(t)
  BY <1>4, ProviderAssumption DEF CallbackReturns
<1>5. CASE Return(t)
  BY <1>5, ProviderAssumption DEF Return
<1> QED
  BY <1>1, <1>2, <1>3, <1>4, <1>5

\* Every step preserves the invariant.
LEMMA NextInv == Inv /\ [Next]_vars => Inv'
<1>1. SUFFICES ASSUME Inv, [Next]_vars PROVE Inv'
  OBVIOUS
<1>2. CASE UNCHANGED vars
  BY <1>1, <1>2
  DEF vars, Inv, TypeOK, LocksHeld, HookState, HookPending, DispatchState,
      CallbackState
<1>3. ASSUME NEW t \in Threads, Begin(t) \/ Step(t) PROVE Inv'
  BY <1>1, <1>3, BeginInv, SetContextInv, RegisterInv, EnsureInv, MethodInv
  DEF Step
<1> QED
  BY <1>1, <1>2, <1>3 DEF Next

\* The inductive invariant.
THEOREM InvHolds == Spec => []Inv
BY InitInv, NextInv, PTL DEF Spec

-----------------------------------------------------------------------------

\* The statics and locals keep their types, and on_context_ready only gets a
\* stamped context.
THEOREM ProviderTypeCorrect == Spec => []TypeOK
<1>1. Inv => TypeOK
  BY DEF Inv
<1> QED
  BY <1>1, InvHolds, PTL

\* on_context_ready runs at most once, however many threads race.
THEOREM HookRunsOnce == Spec => []HookOnce
<1>1. Len(hooks) = 1 => HookOnce
  BY DEF HookOnce
<1>2. hooks = <<>> => HookOnce
  BY DEF HookOnce
<1>3. Inv => HookOnce
  BY <1>1, <1>2 DEF Inv, HookState
<1> QED
  BY <1>3, InvHolds, PTL

\* A method called after a context was stamped runs after on_context_ready:
\* a thread still in the hook would hold INSTANCE, which the method holds.
THEOREM MethodsFollowHook == Spec => []HookBeforeMethod
<1>1. Inv => HookBeforeMethod
  <2>1. SUFFICES ASSUME Inv, NEW t \in Threads, pc[t] = "method",
                        call[t].stamped
                 PROVE  hooks # <<>>
    BY DEF HookBeforeMethod
  <2>2. hook_fired
    BY <2>1 DEF Inv, DispatchState, InMethod
  <2>3. \A u \in Threads : pc[u] # "hook"
    BY <2>1 DEF Inv, LocksHeld, InMethod, InEnsure
  <2> QED
    BY <2>1, <2>2, <2>3 DEF Inv, HookState
<1> QED
  BY <1>1, InvHolds, PTL

\* Whoever sets the second of context and callback runs the hook, or finds it
\* run: it is not forgotten.
THEOREM HookIsNotForgotten == Spec => []HookNotForgotten
<1>1. Inv => HookNotForgotten
  BY DEF Inv, HookState, HookPending, BeforeHook, HookNotForgotten
<1> QED
  BY <1>1, InvHolds, PTL

\* No callback runs once set_emit_callback has replaced it, nor two at once.
THEOREM CallbacksAreCurrent == Spec => []OnlyCurrentCallbackRuns
<1>1. Inv => OnlyCurrentCallbackRuns
  BY DEF Inv, LocksHeld, CallbackState, OnlyCurrentCallbackRuns
<1> QED
  BY <1>1, InvHolds, PTL

\* A thread waits only for locks below all those it holds.
LEMMA WantsBelow ==
    ASSUME Inv, NEW t \in Threads
    PROVE  /\ owner["EMIT"] = t => Wants(t) = {}
           /\ owner["INSTANCE"] = t => Wants(t) \subseteq {"EMIT"}
           /\ owner["REGISTERED"] = t => Wants(t) \subseteq {"INSTANCE", "EMIT"}
<1>1. owner["EMIT"] = t => Wants(t) = {}
  BY DEF Inv, LocksHeld, Wants
<1>2. owner["INSTANCE"] = t => Wants(t) \subseteq {"EMIT"}
  BY DEF Inv, LocksHeld, Wants, InEnsure, InMethod
<1>3. owner["REGISTERED"] = t => Wants(t) \subseteq {"INSTANCE", "EMIT"}
  BY DEF Inv, LocksHeld, Wants, InMethod
<1> QED
  BY <1>1, <1>2, <1>3

\* No deadlock, for any number of threads: whoever holds the lowest of the locks
\* that are taken finds the ones below it free.
THEOREM NeverDeadlocked == Spec => []SomeoneGoesOn
<1>1. Inv => SomeoneGoesOn
  <2> SUFFICES ASSUME Inv, NEW t \in Threads, pc[t] # "idle"
               PROVE  \E u \in Threads : pc[u] # "idle" /\ \A l \in Wants(u) : Free(l)
    BY DEF SomeoneGoesOn
  <2>1. \A l \in Lock : ~Free(l) => owner[l] \in Threads
    BY DEF Inv, TypeOK, Free
  <2>2. \A l \in Lock : owner[l] \in Threads => pc[owner[l]] # "idle"
    BY DEF Inv, LocksHeld, InEnsure, InMethod, Lock
  <2>3. \A u \in Threads : Wants(u) \subseteq Lock
    BY DEF Wants, Lock
  <2>4. CASE ~Free("EMIT")
    BY <2>1, <2>2, <2>4, WantsBelow DEF Lock
  <2>5. CASE Free("EMIT") /\ ~Free("INSTANCE")
    BY <2>1, <2>2, <2>5, WantsBelow DEF Lock
  <2>6. CASE Free("EMIT") /\ Free("INSTANCE") /\ ~Free("REGISTERED")
    BY <2>1, <2>2, <2>6, WantsBelow DEF Lock
  <2>7. CASE \A l \in Lock : Free(l)
    BY <2>3, <2>7
  <2> QED
    BY <2>4, <2>5, <2>6, <2>7 DEF Lock
<1> QED
  BY <1>1, InvHolds, PTL

=============================================================================
