--------------------------- MODULE AppCoreProofs ---------------------------
(***************************************************************************)
(* Proofs about AppCore and about ModuleLife, which it extends, for every  *)
(* number of modules, threads and worlds.  What ModuleLife promises comes  *)
(* first; it is kept when the rest of the program is built around it:      *)
(* every step of AppCore is one of ModuleLife or leaves its variables      *)
(* alone.                                                                  *)
(***************************************************************************)
EXTENDS AppCore, FiniteSetTheorems, TLAPS

-----------------------------------------------------------------------------
(* ModuleLife: types. *)

\* Whoever toggles found the module in the registry.
TogglesModule ==
    \A t \in Threads : body[t].at \in {"toggle", "hook"} => body[t].m \in Modules

TypeInv == TypeOK /\ TogglesModule

LEMMA InitTypeInv == Init => TypeInv
BY LifeAssumption DEF Init, TypeInv, TypeOK, TogglesModule, Modules, Outside

\* ModuleRegistry::init keeps the types.
LEMMA LoadTypeInv ==
    ASSUME TypeInv, NEW m \in Modules, Load(m) \/ Adopt(m)
    PROVE  TypeInv'
<1> USE LifeAssumption DEF TypeInv, TypeOK, TogglesModule, Modules
<1>1. CASE Load(m)
  BY <1>1 DEF Load
<1>2. CASE Adopt(m)
  BY <1>2 DEF Adopt
<1> QED BY <1>1, <1>2

\* ModuleRegistry::clear keeps the types.
LEMMA ClearTypeInv ==
    ASSUME TypeInv, BeginClear \/ Clear
    PROVE  TypeInv'
<1> USE LifeAssumption DEF TypeInv, TypeOK, TogglesModule, Modules
<1>1. CASE BeginClear
  BY <1>1 DEF BeginClear
<1>2. CASE Clear
  <2> PICK m \in Modules :
        \/ DisableHook(m) \/ Unload(m) \/ DestroyDerived(m)
        \/ CallOff(m) \/ Detach(m) \/ Destroy(m)
    BY <1>2 DEF Clear
  <2>1. CASE DisableHook(m)
    BY <2>1 DEF DisableHook
  <2>2. CASE Unload(m)
    BY <2>2 DEF Unload
  <2>3. CASE DestroyDerived(m)
    BY <2>3 DEF DestroyDerived
  <2>4. CASE CallOff(m)
    BY <2>4 DEF CallOff
  <2>5. CASE Detach(m)
    BY <2>5 DEF Detach
  <2>6. CASE Destroy(m)
    <3>1. life' \in [Modules -> {"none", "loaded", "unloaded", "dying", "gone"}]
      BY <2>6 DEF Destroy
    <3>2. run' \in [at : {"over", "derived"}, m : Modules]
      BY <2>6 DEF Destroy
    <3> QED BY <2>6, <3>1, <3>2 DEF Destroy
  <2> QED BY <2>1, <2>2, <2>3, <2>4, <2>5, <2>6
<1> QED BY <1>1, <1>2

\* What a thread of the game may do.
Step(t) ==
    \/ Process(t) \/ Advance(t) \/ Done(t)
    \/ \E m \in Modules : Listen(t, m) \/ Copy(t, m) \/ Find(t, m)

\* What a thread may do inside, or nothing.
Bodies ==
    [at : {"out", "offer", "listener", "copied", "callback", "toggle", "hook"},
     m : 0..N, on : BOOLEAN]

LEMMA BecomeTypeInv ==
    ASSUME TypeInv, NEW t \in Threads, NEW b \in Bodies, Become(t, b),
           b.at \in {"toggle", "hook"} => b.m \in Modules,
           UNCHANGED <<run, life, found, last, listens, commands>>,
           enabled' \subseteq Modules
    PROVE  TypeInv'
<1>1. body' \in [Threads -> Bodies]
  BY DEF TypeInv, TypeOK, Become, Bodies
<1>2. TogglesModule'
  BY DEF TypeInv, TypeOK, TogglesModule, Become, Modules
<1> QED BY <1>1, <1>2 DEF TypeInv, TypeOK, Bodies, Modules

LEMMA StepTypeInv ==
    ASSUME TypeInv, NEW t \in Threads, Step(t)
    PROVE  TypeInv'
<1> USE LifeAssumption
<1>1. body[t] \in Bodies /\ Inside \in Bodies /\ Outside \in Bodies
  BY DEF TypeInv, TypeOK, Bodies, Inside, Outside
<1>2. enabled \subseteq Modules
  BY DEF TypeInv, TypeOK
<1>3. CASE Process(t)
  BY <1>1, <1>2, <1>3, BecomeTypeInv DEF Process, Inside
<1>4. CASE Done(t)
  BY <1>1, <1>2, <1>4, BecomeTypeInv DEF Done, Outside
<1>5. CASE Command(t)
  <2> DEFINE b == IF body[t].m \in Requiring \ enabled THEN Inside
                  ELSE [body[t] EXCEPT !.at = "callback"]
  <2>1. b \in Bodies /\ b.at \notin {"toggle", "hook"}
    BY <1>1 DEF Bodies, Inside
  <2>2. Become(t, b) /\ UNCHANGED <<run, life, found, enabled, last, listens, commands>>
    BY <1>5 DEF Command
  <2> QED BY <1>2, <2>1, <2>2, BecomeTypeInv
<1>6. CASE Exchange(t)
  <2> DEFINE m == body[t].m
  <2>1. m \in Modules
    BY <1>6 DEF Exchange, TypeInv, TogglesModule
  <2>2. UNCHANGED <<run, life, found, last, listens, commands>>
    BY <1>6 DEF Exchange
  <2>3. CASE (m \in enabled) = body[t].on
    BY <1>1, <1>2, <1>6, <2>2, <2>3, BecomeTypeInv DEF Exchange, Inside
  <2>4. CASE (m \in enabled) # body[t].on
    <3> DEFINE b == [body[t] EXCEPT !.at = "hook"]
    <3>1. b \in Bodies /\ b.m = m
      BY <1>1 DEF Bodies
    <3>2. Become(t, b) /\ enabled' \subseteq Modules
      BY <1>2, <1>6, <2>1, <2>4 DEF Exchange
    <3> QED BY <2>1, <2>2, <3>1, <3>2, BecomeTypeInv
  <2> QED BY <2>3, <2>4
<1>7. CASE Hook(t)
  <2>1. body[t].m \in Modules
    BY <1>7 DEF Hook, TypeInv, TogglesModule
  <2> QED
    BY <1>7, <2>1
    DEF Hook, TypeInv, TypeOK, TogglesModule, Modules, Become, Inside
<1>8. CASE Return(t)
  BY <1>1, <1>2, <1>8, BecomeTypeInv DEF Return, Inside
<1>9. ASSUME NEW m \in Modules, Listen(t, m)
      PROVE  TypeInv'
  <2> DEFINE b == [at |-> "listener", m |-> m, on |-> FALSE]
  <2>1. b \in Bodies
    BY DEF Bodies, Modules
  <2>2. Become(t, b)
    BY <1>9 DEF Listen
  <2> QED BY <1>2, <1>9, <2>1, <2>2, BecomeTypeInv DEF Listen
<1>10. ASSUME NEW m \in Modules, Copy(t, m)
       PROVE  TypeInv'
  <2> DEFINE b == [at |-> "copied", m |-> m, on |-> FALSE]
  <2>1. b \in Bodies
    BY DEF Bodies, Modules
  <2>2. Become(t, b)
    BY <1>10 DEF Copy
  <2> QED BY <1>2, <1>10, <2>1, <2>2, BecomeTypeInv DEF Copy
<1>11. ASSUME NEW m \in Modules, Find(t, m)
       PROVE  TypeInv'
  <2> DEFINE b == [at |-> "toggle", m |-> m, on |-> m \notin enabled]
  <2>1. b \in Bodies
    BY DEF Bodies, Modules
  <2> QED BY <1>2, <1>11, <2>1, BecomeTypeInv DEF Find
<1> QED BY <1>3, <1>4, <1>5, <1>6, <1>7, <1>8, <1>9, <1>10, <1>11 DEF Step, Advance

LEMMA NextTypeInv == TypeInv /\ [Next]_vars => TypeInv'
<1> SUFFICES ASSUME TypeInv, [Next]_vars
             PROVE  TypeInv'
  OBVIOUS
<1>1. CASE UNCHANGED vars
  BY <1>1 DEF vars, TypeInv, TypeOK, TogglesModule
<1>2. CASE Next
  BY <1>2, LoadTypeInv, ClearTypeInv, StepTypeInv DEF Next, Step
<1> QED BY <1>1, <1>2

\* Every variable of ModuleLife keeps its type.
THEOREM TypeCorrect == Spec => []TypeOK
<1>1. TypeInv => TypeOK
  BY DEF TypeInv
<1> QED BY <1>1, InitTypeInv, NextTypeInv, PTL DEF Spec

-----------------------------------------------------------------------------
(* ModuleLife: listeners. *)

\* A listener that runs is in the Pipeline's list, nothing in the list is gone, and
\* ~Module forgets the commands only when the list does not have the module.
ListenerInv ==
    /\ \A t \in Threads : body[t].at = "listener" => body[t].m \in listens
    /\ \A m \in listens : life[m] # "gone"
    /\ run.at = "forget" => run.m \notin listens

LEMMA InitListenerInv == Init => ListenerInv
BY DEF Init, ListenerInv, Outside

LEMMA LoadListenerInv ==
    ASSUME TypeInv, ListenerInv, NEW m \in Modules, Load(m) \/ Adopt(m)
    PROVE  ListenerInv'
BY DEF TypeInv, TypeOK, ListenerInv, Load, Adopt

\* ~Module: off() waits until no listener runs.
LEMMA ClearListenerInv ==
    ASSUME TypeInv, ListenerInv, BeginClear \/ Clear
    PROVE  ListenerInv'
<1> USE DEF TypeInv, TypeOK, ListenerInv
<1>1. CASE BeginClear
  BY <1>1 DEF BeginClear
<1>2. CASE Clear
  <2> PICK m \in Modules :
        \/ DisableHook(m) \/ Unload(m) \/ DestroyDerived(m)
        \/ CallOff(m) \/ Detach(m) \/ Destroy(m)
    BY <1>2 DEF Clear
  <2>1. CASE DisableHook(m) \/ Unload(m) \/ DestroyDerived(m) \/ CallOff(m)
    BY <2>1 DEF DisableHook, Unload, DestroyDerived, CallOff
  <2>2. CASE Detach(m)
    BY <2>2 DEF Detach, Exclusive
  <2>3. CASE Destroy(m)
    BY <2>3 DEF Destroy
  <2> QED BY <2>1, <2>2, <2>3
<1> QED BY <1>1, <1>2

LEMMA StepListenerInv ==
    ASSUME TypeInv, ListenerInv, NEW t \in Threads, Step(t)
    PROVE  ListenerInv'
<1> USE DEF TypeInv, TypeOK, ListenerInv, Become, Inside, Outside
<1>1. CASE Process(t) \/ Done(t)
  BY <1>1 DEF Process, Done
<1>2. CASE Advance(t)
  BY <1>2 DEF Advance, Command, Exchange, Hook, Return
<1>3. ASSUME NEW m \in Modules, Listen(t, m) \/ Copy(t, m) \/ Find(t, m)
      PROVE  ListenerInv'
  BY <1>3 DEF Listen, Copy, Find
<1> QED BY <1>1, <1>2, <1>3 DEF Step

LEMMA NextListenerInv == TypeInv /\ ListenerInv /\ [Next]_vars => ListenerInv'
<1> SUFFICES ASSUME TypeInv, ListenerInv, [Next]_vars
             PROVE  ListenerInv'
  OBVIOUS
<1>1. CASE UNCHANGED vars
  BY <1>1 DEF vars, ListenerInv
<1>2. CASE Next
  BY <1>2, LoadListenerInv, ClearListenerInv, StepListenerInv DEF Next, Step
<1> QED BY <1>1, <1>2

\* Whatever threads are inside the Pipeline when a module is destroyed, none of its
\* listeners runs when it is gone.
THEOREM ListenersAreDetached == Spec => []ListenersDetached
<1>1. ListenerInv => ListenersDetached
  BY DEF ListenerInv, ListenersDetached
<1> QED
  BY <1>1, InitTypeInv, NextTypeInv, InitListenerInv, NextListenerInv, PTL DEF Spec

-----------------------------------------------------------------------------
(* ModuleLife: hooks. *)

Loading == run.at \in {"load", "enable", "live"}

\* The registry holds the modules before the one that is loaded; those it does not hold
\* have seen no hook, and nobody toggles them; only a typist runs commands; and who
\* changed the flag has yet to call the hook that agrees with it.
HookInv ==
    /\ run.at \in {"load", "enable"} => \A m \in found : m < run.m
    /\ Loading => \A m \in Modules \ found : last[m] = "off"
    /\ Loading => \A t \in Threads : body[t].at \in {"toggle", "hook"} => body[t].m \in found
    /\ \A t \in Threads :
          body[t].at \in {"copied", "callback", "toggle", "hook"} => t \in Typists
    /\ \A t \in Threads : body[t].at = "hook" => body[t].on = (body[t].m \in enabled)
    /\ Loading =>
         \A m \in found :
            (\A t \in Threads : body[t].at = "hook" => body[t].m # m)
                => (last[m] = "on") = (m \in enabled)

OneTypist == \A t, u \in Typists : t = u

LEMMA FewTypists ==
    ASSUME Cardinality(Typists) <= 1
    PROVE  OneTypist
<1> SUFFICES ASSUME NEW t \in Typists, NEW u \in Typists, t # u
             PROVE  FALSE
  BY DEF OneTypist
<1>1. IsFiniteSet(Typists)
  BY LifeAssumption, FS_Subset
<1>2. IsFiniteSet(Typists \ {t}) /\ Cardinality(Typists \ {t}) = Cardinality(Typists) - 1
  BY <1>1, FS_RemoveElement
<1>3. /\ IsFiniteSet((Typists \ {t}) \ {u})
      /\ Cardinality((Typists \ {t}) \ {u}) = Cardinality(Typists \ {t}) - 1
  BY <1>2, FS_RemoveElement
<1>4. Cardinality(Typists) \in Nat /\ Cardinality((Typists \ {t}) \ {u}) \in Nat
  BY <1>1, <1>3, FS_CardinalityType
<1> QED BY <1>2, <1>3, <1>4

LEMMA InitHookInv == Init => HookInv
BY DEF Init, HookInv, Outside

LEMMA LoadHookInv ==
    ASSUME TypeInv, HookInv, NEW m \in Modules, Load(m) \/ Adopt(m)
    PROVE  HookInv'
<1> USE LifeAssumption DEF TypeInv, TypeOK, HookInv, Loading, Modules
<1>1. CASE Load(m)
  BY <1>1 DEF Load
<1>2. CASE Adopt(m)
  BY <1>2 DEF Adopt
<1> QED BY <1>1, <1>2

LEMMA ClearHookInv ==
    ASSUME TypeInv, HookInv, BeginClear \/ Clear
    PROVE  HookInv'
<1> USE DEF TypeInv, TypeOK, HookInv, Loading
<1>1. CASE BeginClear
  BY <1>1 DEF BeginClear
<1>2. CASE Clear
  <2> PICK m \in Modules :
        \/ DisableHook(m) \/ Unload(m) \/ DestroyDerived(m)
        \/ CallOff(m) \/ Detach(m) \/ Destroy(m)
    BY <1>2 DEF Clear
  <2>1. CASE DisableHook(m) \/ Unload(m) \/ DestroyDerived(m)
    BY <2>1 DEF DisableHook, Unload, DestroyDerived
  <2>2. CASE CallOff(m) \/ Detach(m) \/ Destroy(m)
    BY <2>2 DEF CallOff, Detach, Destroy
  <2> QED BY <2>1, <2>2
<1> QED BY <1>1, <1>2

\* A thread that has no hook to call before or after its step.
LEMMA MoveHookInv ==
    ASSUME TypeInv, HookInv, NEW t \in Threads, NEW b, Become(t, b),
           body[t].at # "hook", b.at # "hook",
           b.at = "toggle" /\ Loading => b.m \in found,
           b.at \in {"copied", "callback", "toggle"} => t \in Typists,
           UNCHANGED <<run, found, enabled, last>>
    PROVE  HookInv'
<1>1. body'[t] = b /\ \A u \in Threads \ {t} : body'[u] = body[u]
  BY DEF Become, TypeInv, TypeOK
<1>2. \A u \in Threads : body'[u].at = "hook" <=> body[u].at = "hook"
  BY <1>1
<1>3. \A u \in Threads : body[u].at = "hook" => body'[u] = body[u]
  BY <1>1
<1>4. Loading' = Loading
  BY DEF Loading
<1>5. Loading' =>
        \A u \in Threads : body'[u].at \in {"toggle", "hook"} => body'[u].m \in found'
  BY <1>1, <1>4 DEF HookInv
<1>6. \A u \in Threads :
        body'[u].at \in {"copied", "callback", "toggle", "hook"} => u \in Typists
  BY <1>1 DEF HookInv
<1>7. \A u \in Threads :
        body'[u].at = "hook" => body'[u].on = (body'[u].m \in enabled')
  BY <1>2, <1>3 DEF HookInv
<1>8. Loading' =>
        \A m \in found' :
          (\A u \in Threads : body'[u].at = "hook" => body'[u].m # m)
              => (last'[m] = "on") = (m \in enabled')
  BY <1>2, <1>3, <1>4 DEF HookInv
<1> QED BY <1>4, <1>5, <1>6, <1>7, <1>8 DEF HookInv

\* With one typist, nobody changes a flag while another has a hook to call.
LEMMA StepHookInv ==
    ASSUME OneTypist, TypeInv, HookInv, NEW t \in Threads, Step(t)
    PROVE  HookInv'
<1>1. CASE Process(t) \/ Done(t)
  BY <1>1, MoveHookInv DEF Process, Done, Inside, Outside
<1>2. CASE Command(t)
  <2> DEFINE b == IF body[t].m \in Requiring \ enabled THEN Inside
                  ELSE [body[t] EXCEPT !.at = "callback"]
  <2>1. b.at \in {"offer", "callback"}
    BY DEF TypeInv, TypeOK, Inside
  <2>2. Become(t, b) /\ body[t].at = "copied" /\ UNCHANGED <<run, found, enabled, last>>
    BY <1>2 DEF Command
  <2>3. t \in Typists
    BY <2>2 DEF HookInv
  <2> HIDE DEF b
  <2> QED BY <2>1, <2>2, <2>3, MoveHookInv
<1>3. CASE Exchange(t)
  <2> DEFINE m == body[t].m
  <2>1. /\ m \in Modules /\ t \in Typists /\ body[t].on \in BOOLEAN
        /\ Loading => m \in found
    BY <1>3 DEF Exchange, TypeInv, TypeOK, TogglesModule, HookInv
  <2>2. body[t].at = "toggle" /\ UNCHANGED <<run, found, last>>
    BY <1>3 DEF Exchange
  <2>3. CASE (m \in enabled) = body[t].on
    <3>1. Become(t, Inside) /\ UNCHANGED enabled
      BY <1>3, <2>3 DEF Exchange
    <3> QED BY <2>2, <3>1, MoveHookInv DEF Inside
  <2>4. CASE (m \in enabled) # body[t].on
    <3>1. /\ enabled' = IF body[t].on THEN enabled \cup {m} ELSE enabled \ {m}
          /\ body' = [body EXCEPT ![t] = [body[t] EXCEPT !.at = "hook"]]
      BY <1>3, <2>4 DEF Exchange, Become
    <3>2. /\ body'[t].at = "hook" /\ body'[t].m = m /\ body'[t].on = body[t].on
          /\ \A u \in Threads \ {t} : body'[u] = body[u]
      BY <3>1 DEF TypeInv, TypeOK
    <3>3. \A u \in Threads \ {t} :
            body[u].at \notin {"copied", "callback", "toggle", "hook"}
      BY <2>1 DEF HookInv, OneTypist
    <3>4. /\ body[t].on = (m \in enabled')
          /\ \A x \in Modules \ {m} : x \in enabled' <=> x \in enabled
      BY <2>1, <3>1
    <3>5. Loading' = Loading
      BY <2>2 DEF Loading
    <3>6. Loading' =>
            \A u \in Threads : body'[u].at \in {"toggle", "hook"} => body'[u].m \in found'
      BY <2>1, <2>2, <3>2, <3>3, <3>5
    <3>7. \A u \in Threads :
            body'[u].at \in {"copied", "callback", "toggle", "hook"} => u \in Typists
      BY <2>1, <3>2, <3>3
    <3>8. \A u \in Threads :
            body'[u].at = "hook" => body'[u].on = (body'[u].m \in enabled')
      BY <3>2, <3>3, <3>4
    <3>9. ASSUME Loading, NEW x \in found,
                 \A u \in Threads : body'[u].at = "hook" => body'[u].m # x
          PROVE  (last[x] = "on") = (x \in enabled')
      <4>1. x # m /\ x \in Modules
        BY <3>2, <3>9 DEF TypeInv, TypeOK
      <4>2. \A u \in Threads : body[u].at # "hook"
        BY <2>2, <3>3
      <4> QED BY <3>4, <3>9, <4>1, <4>2 DEF HookInv
    <3> QED BY <2>2, <3>5, <3>6, <3>7, <3>8, <3>9 DEF HookInv
  <2> QED BY <2>3, <2>4
<1>4. CASE Hook(t)
  <2> DEFINE m == body[t].m
  <2>1. /\ m \in Modules /\ t \in Typists
        /\ body[t].on = (m \in enabled)
        /\ Loading => m \in found
    BY <1>4 DEF Hook, TypeInv, TogglesModule, HookInv
  <2>2. /\ last'[m] = IF m \in enabled THEN "on" ELSE "off"
        /\ \A x \in Modules \ {m} : last'[x] = last[x]
    BY <1>4, <2>1 DEF Hook, TypeInv, TypeOK
  <2>3. /\ body'[t] = Inside
        /\ \A u \in Threads \ {t} : body'[u] = body[u] /\ body[u].at # "hook"
        /\ UNCHANGED <<run, found, enabled>>
    BY <1>4, <2>1 DEF Hook, OneTypist, Become, TypeInv, TypeOK, HookInv
  <2>4. Loading' =>
          \A x \in found' :
            (\A u \in Threads : body'[u].at = "hook" => body'[u].m # x)
                => (last'[x] = "on") = (x \in enabled')
    <3> SUFFICES ASSUME Loading, NEW x \in found
                 PROVE  (last'[x] = "on") = (x \in enabled)
      BY <2>3 DEF Loading
    <3>1. CASE x = m
      BY <2>2, <3>1
    <3>2. CASE x # m
      <4>1. \A u \in Threads : body[u].at = "hook" => body[u].m # x
        BY <2>3, <3>2
      <4> QED BY <2>2, <3>2, <4>1 DEF HookInv, TypeInv, TypeOK
    <3> QED BY <3>1, <3>2
  <2>5. Loading' => \A x \in Modules \ found' : last'[x] = "off"
    BY <2>1, <2>2, <2>3 DEF HookInv, Loading
  <2>6. \A u \in Threads \ {t} : body'[u] = body[u]
    BY <2>3
  <2>7. body'[t].at = "offer"
    BY <2>3 DEF Inside
  <2>8. Loading' => \A u \in Threads : body'[u].at \in {"toggle", "hook"} => body'[u].m \in found'
    BY <2>3, <2>6, <2>7 DEF HookInv, Loading
  <2>9. /\ \A u \in Threads :
             body'[u].at \in {"copied", "callback", "toggle", "hook"} => u \in Typists
        /\ \A u \in Threads : body'[u].at # "hook"
    BY <2>3, <2>6, <2>7 DEF HookInv
  <2> QED BY <2>3, <2>4, <2>5, <2>8, <2>9 DEF HookInv
<1>5. CASE Return(t)
  BY <1>5, MoveHookInv DEF Return, Inside
<1>6. ASSUME NEW m \in Modules, Listen(t, m)
      PROVE  HookInv'
  BY <1>6, MoveHookInv DEF Listen
<1>7. ASSUME NEW m \in Modules, Copy(t, m)
      PROVE  HookInv'
  BY <1>7, MoveHookInv DEF Copy
<1>8. ASSUME NEW m \in Modules, Find(t, m)
      PROVE  HookInv'
  <2>1. t \in Typists
    BY <1>8 DEF Find, HookInv
  <2> QED BY <1>8, <2>1, MoveHookInv DEF Find
<1> QED BY <1>1, <1>2, <1>3, <1>4, <1>5, <1>6, <1>7, <1>8 DEF Step, Advance

LEMMA NextHookInv == OneTypist /\ TypeInv /\ HookInv /\ [Next]_vars => HookInv'
<1> SUFFICES ASSUME OneTypist, TypeInv, HookInv, [Next]_vars
             PROVE  HookInv'
  OBVIOUS
<1>1. CASE UNCHANGED vars
  BY <1>1 DEF vars, HookInv, Loading
<1>2. CASE Next
  BY <1>2, LoadHookInv, ClearHookInv, StepHookInv DEF Next, Step
<1> QED BY <1>1, <1>2

\* The last hook a module was told agrees with its flag, for any number of modules
\* and of threads that only listen.
THEOREM HooksAlwaysAgree == Spec => []HooksAgree
<1>1. CASE Cardinality(Typists) <= 1
  <2>1. OneTypist
    BY <1>1, FewTypists
  <2>2. TypeInv /\ HookInv => HooksAgree
    BY DEF TypeInv, TypeOK, HookInv, Loading, HooksAgree
  <2>3. TypeInv /\ HookInv /\ [Next]_vars => HookInv'
    BY <2>1, NextHookInv
  <2> QED BY <2>2, <2>3, InitTypeInv, NextTypeInv, InitHookInv, PTL DEF Spec
<1>2. CASE ~(Cardinality(Typists) <= 1)
  <2>1. HooksAgree
    BY <1>2 DEF HooksAgree
  <2> QED BY <2>1, PTL
<1> QED BY <1>1, <1>2

-----------------------------------------------------------------------------
(* AppCore implements ModuleLife. *)

LEMMA GameIsStep ==
    ASSUME NEW t \in Threads, Game(t)
    PROVE  Step(t) \/ UNCHANGED vars
<1>1. CASE Offer(t)
  BY <1>1 DEF Offer, Step
<1>2. CASE Inner(t)
  BY <1>2 DEF Inner, Step
<1>3. CASE Exit(t)
  BY <1>3 DEF Exit, Step
<1>4. CASE Track(t) \/ Transfer(t) \/ Await(t) \/ Hear(t)
  BY <1>4 DEF Track, Transfer, Await, Hear
<1>5. CASE RequestEject(t) \/ Trycmd(t)
  BY <1>5 DEF RequestEject, Trycmd
<1> QED BY <1>1, <1>2, <1>3, <1>4, <1>5 DEF Game

LEMMA AppStepIsStep == [AppNext]_appVars => [Next]_vars
<1> SUFFICES ASSUME [AppNext]_appVars
             PROVE  [Next]_vars
  OBVIOUS
<1>1. CASE UNCHANGED appVars
  BY <1>1 DEF appVars
<1>2. CASE Join \/ Quit \/ Attach \/ Stop
  BY <1>2 DEF Join, Quit, Attach, Stop
<1>3. CASE Start
  BY <1>3 DEF Start, Resolve, Install, Serve, LoadModules, Next
<1>4. CASE Tick
  BY <1>4 DEF Tick, Sense, Dispatch, Send, TickModules, RegisterInTick
<1>5. CASE Teardown
  BY <1>5 DEF Teardown, ClearModules, StopPool, JoinPool, Unhook, Free, Next
<1>6. CASE Work
  BY <1>6 DEF Work, TakeTask, SubmitInTask, RegisterInTask, FinishTask
<1>7. ASSUME NEW t \in Threads, Game(t)
      PROVE  [Next]_vars
  BY <1>7, GameIsStep DEF Step, Next
<1> QED BY <1>1, <1>2, <1>3, <1>4, <1>5, <1>6, <1>7 DEF AppNext

\* The program around the modules does nothing to them that ModuleLife does not say,
\* so it keeps what ModuleLife promises.
THEOREM ImplementsModuleLife == AppSpec => Spec
<1>1. AppInit => Init
  BY DEF AppInit
<1> QED BY <1>1, AppStepIsStep, PTL DEF AppSpec, Spec

\* In the whole program, no listener of a module runs when the module is gone.
THEOREM ListenersAreDetachedInApp == AppSpec => []ListenersDetached
BY ImplementsModuleLife, ListenersAreDetached, PTL

\* In the whole program, the last hook a module was told agrees with its flag.
THEOREM HooksAgreeInApp == AppSpec => []HooksAgree
BY ImplementsModuleLife, HooksAlwaysAgree, PTL

-----------------------------------------------------------------------------
(* AppCore: the end of the library. *)

Early == {"off", "addresses", "hooking"}

\* Before the hooks are in, nothing runs in the library; once the pool is joined no task
\* does, and once the hooks are out and the last trap is left, nothing does again.
EndInv ==
    /\ stage \in Early => ~hooked /\ Exclusive /\ pool = "off" /\ task = "none"
    /\ stage \in {"hooks", "gone"} => pool = "off" /\ task # "running"
    /\ stage = "gone" => ~hooked /\ Exclusive

LEMMA InitEndInv == AppInit => EndInv
BY DEF AppInit, Init, EndInv, Early, Exclusive, Outside

LEMMA GameEndInv ==
    ASSUME TypeInv, EndInv, NEW t \in Threads, Game(t)
    PROVE  EndInv'
<1> USE DEF EndInv, Early, Exclusive
<1>1. UNCHANGED <<stage, hooked, pool, task>>
  BY DEF Game, Offer, Track, Transfer, Await, Hear, RequestEject, Trycmd, Inner, Exit,
         coreVars, poolVars
<1>2. CASE Offer(t)
  BY <1>1, <1>2 DEF Offer
<1>3. CASE ~Offer(t)
  <2>1. body[t].at # "out" \/ UNCHANGED body
    BY <1>3 DEF Game, Track, Transfer, Await, Hear, RequestEject, Trycmd, Inner, Exit,
                vars, Advance, Command, Exchange, Hook, Return, Listen, Copy, Find, Done
  <2> QED BY <1>1, <2>1
<1> QED BY <1>2, <1>3

LEMMA AppEndInv ==
    ASSUME Patient, TypeInv, EndInv, [AppNext]_appVars
    PROVE  EndInv'
<1> USE DEF EndInv, Early, Exclusive
<1>1. CASE UNCHANGED appVars
  BY <1>1 DEF appVars, vars, coreVars, poolVars
<1>2. CASE Join \/ Quit \/ Attach \/ Stop
  BY <1>2 DEF Join, Quit, Attach, Stop, vars, coreVars, poolVars
<1>3. CASE Start
  BY <1>3 DEF Start, Resolve, Install, Serve, LoadModules, Load, Adopt, vars, poolVars
<1>4. CASE Tick
  BY <1>4 DEF Tick, Sense, Dispatch, Send, TickModules, RegisterInTick, Execute, Register,
              vars, poolVars
<1>5. CASE Teardown
  <2>1. CASE ClearModules
    BY <2>1 DEF ClearModules, BeginClear, Clear, poolVars
  <2>2. CASE StopPool \/ JoinPool \/ Unhook \/ Free
    BY <2>2 DEF StopPool, JoinPool, Unhook, Free, vars, coreVars, poolVars
  <2> QED BY <1>5, <2>1, <2>2 DEF Teardown
<1>6. CASE Work
  BY <1>6 DEF Work, TakeTask, SubmitInTask, RegisterInTask, FinishTask, vars, coreVars,
              poolVars
<1>7. ASSUME NEW t \in Threads, Game(t)
      PROVE  EndInv'
  BY <1>7, GameEndInv
<1> QED BY <1>1, <1>2, <1>3, <1>4, <1>5, <1>6, <1>7 DEF AppNext

\* However many threads and tasks are busy when the player ejects, the library is freed
\* after the last of them left it, if no thread is inside for longer than uninstall()
\* waits.
THEOREM NothingRunsAfterFree == Patient => (AppSpec => []NothingAfterFree)
<1> SUFFICES ASSUME Patient
             PROVE  AppSpec => []NothingAfterFree
  OBVIOUS
<1>1. EndInv => NothingAfterFree
  BY DEF EndInv, NothingAfterFree
<1>2. AppInit => TypeInv
  BY InitTypeInv DEF AppInit
<1>3. TypeInv /\ [AppNext]_appVars => TypeInv'
  BY AppStepIsStep, NextTypeInv
<1>4. TypeInv /\ EndInv /\ [AppNext]_appVars => EndInv'
  BY AppEndInv
<1> QED BY <1>1, <1>2, <1>3, <1>4, InitEndInv, PTL DEF AppSpec

-----------------------------------------------------------------------------
(* AppCore: types. *)

\* What AppTypeOK adds to the types of ModuleLife.
CoreTypeOK ==
    /\ stage \in {"off", "addresses", "hooking", "serving", "modules", "loop", "commands",
                  "sending", "ticking", "registering", "clearing", "pool", "hooks", "gone"}
    /\ eject \in BOOLEAN /\ was \in BOOLEAN /\ hooked \in BOOLEAN /\ inited \in BOOLEAN
    /\ pool \in {"off", "on", "stopping"} /\ task \in {"none", "queued", "running"}
    /\ request \in {"none", "pending", "sent"}
    /\ want \subseteq Receivers
    /\ writer \in Threads \cup {"none", "run", "task"}

WorldTypeOK ==
    /\ joined \in 0..MaxSessions /\ world \in 0..joined /\ asked \in 0..joined
    /\ of \in [Threads -> 0..joined]
    /\ kept \subseteq 1..joined /\ seen \subseteq 1..joined

AppTypeInv == TypeInv /\ CoreTypeOK /\ WorldTypeOK

LEMMA InitAppTypeInv == AppInit => AppTypeInv
<1> SUFFICES ASSUME AppInit
             PROVE  AppTypeInv
  OBVIOUS
<1>1. TypeInv
  BY InitTypeInv DEF AppInit
<1>2. CoreTypeOK
  BY DEF AppInit, CoreTypeOK
<1>3. WorldTypeOK
  BY AppAssumption DEF AppInit, WorldTypeOK
<1> QED BY <1>1, <1>2, <1>3 DEF AppTypeInv

\* The world the player is in, the packets of it and what is remembered: one more world,
\* and sets of worlds that grow by known ones.
LEMMA EnterType ==
    ASSUME WorldTypeOK, Enter, asked' \in {asked, 0}, of' \in [Threads -> 0..joined],
           kept' \subseteq 1..joined, seen' \subseteq 1..joined
    PROVE  WorldTypeOK'
BY AppAssumption DEF WorldTypeOK, Enter

\* Whatever else happens, worlds are left and sessions forgotten.
LEMMA LeaveType ==
    ASSUME WorldTypeOK, UNCHANGED joined, world' \in {world, 0},
           asked' \in {asked, world, 0}, of' \in [Threads -> 0..joined],
           kept' \in {kept, {}}, seen' \subseteq 1..joined
    PROVE  WorldTypeOK'
BY DEF WorldTypeOK

LEMMA GameCoreType ==
    ASSUME CoreTypeOK, NEW t \in Threads, Game(t)
    PROVE  CoreTypeOK'
<1>1. UNCHANGED <<stage, was, hooked, pool, task>> /\ eject' \in {eject, TRUE}
  BY DEF Game, Offer, Track, Transfer, Await, Hear, RequestEject, Trycmd, Inner, Exit,
         coreVars, poolVars
<1>2. inited' \in BOOLEAN /\ writer' \in Threads \cup {"none", "run", "task"}
  <2>1. CASE Trycmd(t)
    BY <2>1 DEF Trycmd, Execute, Queue, CoreTypeOK
  <2>2. CASE ~Trycmd(t)
    BY <2>2 DEF CoreTypeOK, Game, Offer, Track, Transfer, Await, Hear, RequestEject, Inner,
                Exit, lockVars
  <2> QED BY <2>1, <2>2
<1>3. request' \in {"none", "pending", "sent"}
  <2>1. CASE Trycmd(t)
    BY <2>1 DEF Trycmd, Execute, Queue, CoreTypeOK
  <2>2. CASE ~Trycmd(t)
    BY <2>2 DEF CoreTypeOK, Game, Offer, Track, Transfer, Await, Hear, RequestEject, Inner,
                Exit, Drop, lockVars
  <2> QED BY <2>1, <2>2
<1>4. want' \subseteq Receivers
  <2>1. CASE Await(t) \/ Hear(t)
    BY <2>1 DEF Await, Hear, Reading, CoreTypeOK
  <2>2. CASE ~(Await(t) \/ Hear(t))
    BY <2>2 DEF CoreTypeOK, Game, Offer, Track, Transfer, RequestEject, Trycmd, Inner, Exit,
                lockVars
  <2> QED BY <2>1, <2>2
<1> QED BY <1>1, <1>2, <1>3, <1>4 DEF CoreTypeOK

\* A request is of the world it is queued in until it is dropped.
AskedStep == asked' \in {asked, 0} \/ (asked' = world /\ world' = world)

LEMMA ExecuteAsked ==
    ASSUME NEW who, Execute(who) \/ Register(who), world' = world
    PROVE  AskedStep
BY DEF Execute, Register, Queue, AskedStep

LEMMA GameAsked ==
    ASSUME NEW t \in Threads, Game(t)
    PROVE  AskedStep
<1>1. CASE Trycmd(t)
  BY <1>1, ExecuteAsked DEF Trycmd, worldVars
<1>2. CASE Transfer(t) \/ Hear(t)
  BY <1>2 DEF Transfer, Hear, Drop, AskedStep
<1>3. CASE ~(Trycmd(t) \/ Transfer(t) \/ Hear(t))
  BY <1>3 DEF Game, Offer, Track, Await, RequestEject, Inner, Exit, lockVars, AskedStep
<1> QED BY <1>1, <1>2, <1>3

LEMMA RunThreadAsked ==
    ASSUME Start \/ Tick \/ Teardown \/ Work
    PROVE  AskedStep
<1>1. CASE Start
  BY <1>1 DEF Start, Resolve, Install, Serve, LoadModules, lockVars, AskedStep
<1>2. CASE Sense \/ Free
  BY <1>2 DEF Sense, Free, Shutdown, Drop, AskedStep
<1>3. CASE TickModules \/ RegisterInTick \/ SubmitInTask \/ RegisterInTask
  <2>1. world' = world
    BY <1>3 DEF TickModules, RegisterInTick, SubmitInTask, RegisterInTask, worldVars
  <2>2. UNCHANGED lockVars \/ \E who : Execute(who) \/ Register(who)
    BY <1>3 DEF TickModules, RegisterInTick, SubmitInTask, RegisterInTask
  <2> QED BY <2>1, <2>2, ExecuteAsked DEF lockVars, AskedStep
<1>4. CASE Dispatch \/ Send \/ TakeTask \/ FinishTask
  BY <1>4 DEF Dispatch, Send, TakeTask, FinishTask, lockVars, AskedStep
<1>5. CASE ClearModules \/ StopPool \/ JoinPool \/ Unhook
  BY <1>5 DEF ClearModules, StopPool, JoinPool, Unhook, lockVars, AskedStep
<1> QED BY <1>1, <1>2, <1>3, <1>4, <1>5 DEF Tick, Teardown, Work

LEMMA GameWorldType ==
    ASSUME WorldTypeOK, NEW t \in Threads, Game(t)
    PROVE  WorldTypeOK'
<1>0. AskedStep
  BY GameAsked
<1>1. world \in 0..joined /\ 0 \in 0..joined /\ {} \subseteq 1..joined
  BY AppAssumption DEF WorldTypeOK
<1>2. of' \in [Threads -> 0..joined]
  <2>1. CASE Offer(t)
    BY <1>1, <2>1 DEF Offer, WorldTypeOK
  <2>2. CASE Track(t) \/ Transfer(t) \/ Await(t) \/ Exit(t)
    BY <1>1, <2>2 DEF Track, Transfer, Await, Exit, WorldTypeOK
  <2>3. CASE Hear(t) \/ RequestEject(t) \/ Trycmd(t) \/ Inner(t)
    BY <2>3 DEF Hear, RequestEject, Trycmd, Inner, WorldTypeOK, worldVars
  <2> QED BY <2>1, <2>2, <2>3 DEF Game
<1>3. CASE Transfer(t)
  <2>1. kept' = {} /\ asked' = 0 /\ seen' \subseteq 1..joined
    BY <1>3 DEF Transfer, Drop, WorldTypeOK
  <2>2. CASE Enter
    BY <1>1, <1>2, <2>1, <2>2, EnterType
  <2>3. CASE UNCHANGED <<world, joined>>
    BY <1>2, <2>1, <2>3, LeaveType
  <2> QED BY <1>3, <2>2, <2>3 DEF Transfer
<1>4. CASE Track(t)
  <2>1. of[t] \in 1..joined
    BY <1>4 DEF Track, Reading, WorldTypeOK
  <2>2. kept' \subseteq 1..joined
    BY <1>4, <2>1 DEF Track, WorldTypeOK
  <2> QED BY <1>2, <1>4, <2>2 DEF Track, WorldTypeOK, lockVars
<1>5. CASE ~Transfer(t) /\ ~Track(t)
  <2>1. UNCHANGED <<world, joined, kept, seen>>
    BY <1>5 DEF Game, Offer, Await, Hear, RequestEject, Trycmd, Inner, Exit, worldVars
  <2>2. seen' \subseteq 1..joined
    BY <2>1 DEF WorldTypeOK
  <2> QED BY <1>0, <1>2, <2>1, <2>2, LeaveType DEF AskedStep
<1> QED BY <1>3, <1>4, <1>5

\* What CommandManager::execute does to its flag, its request and the registration.
LEMMA ExecuteType ==
    ASSUME CoreTypeOK, NEW who \in Threads \cup {"run", "task"}, Execute(who) \/ Register(who)
    PROVE  /\ inited' \in BOOLEAN /\ request' \in {"none", "pending", "sent"}
           /\ writer' \in Threads \cup {"none", "run", "task"}
<1>1. CASE Execute(who)
  BY <1>1 DEF Execute, Queue, CoreTypeOK
<1>2. CASE Register(who)
  BY <1>2 DEF Register, Queue, CoreTypeOK
<1> QED BY <1>1, <1>2

LEMMA RunThreadCoreType ==
    ASSUME CoreTypeOK, Start \/ Tick \/ Teardown \/ Work
    PROVE  CoreTypeOK'
<1>1. CASE Resolve
  BY <1>1 DEF Resolve, CoreTypeOK, poolVars, lockVars
<1>2. CASE Install
  BY <1>2 DEF Install, CoreTypeOK, lockVars
<1>3. CASE Serve
  BY <1>3 DEF Serve, CoreTypeOK, poolVars
<1>4. CASE LoadModules
  <2>1. stage' \in {"loop", "modules"}
    BY <1>4 DEF LoadModules
  <2>2. UNCHANGED <<eject, was, hooked, poolVars, lockVars>>
    BY <1>4 DEF LoadModules
  <2> QED BY <2>1, <2>2 DEF CoreTypeOK, poolVars, lockVars
<1>5. CASE Sense
  <2>1. was' \in BOOLEAN
    BY <1>5 DEF Sense
  <2>2. /\ inited' \in {inited, FALSE} /\ request' \in {request, "none"}
        /\ stage' = "commands"
        /\ UNCHANGED <<eject, hooked, pool, task, want, writer>>
    BY <1>5 DEF Sense, Shutdown, Drop, poolVars
  <2> QED BY <2>1, <2>2 DEF CoreTypeOK
<1>6. CASE Dispatch \/ Send
  BY <1>6 DEF Dispatch, Send, CoreTypeOK, poolVars, lockVars
<1>7. CASE TickModules
  <2>1. /\ stage' \in {"registering", "loop"} /\ task' \in {task, "queued"}
        /\ UNCHANGED <<eject, was, hooked, pool, want>>
    BY <1>7 DEF TickModules, poolVars, lockVars
  <2>2. UNCHANGED lockVars \/ Execute("run")
    BY <1>7 DEF TickModules
  <2>3. /\ inited' \in BOOLEAN /\ request' \in {"none", "pending", "sent"}
        /\ writer' \in Threads \cup {"none", "run", "task"}
    BY <2>2, ExecuteType DEF lockVars, CoreTypeOK
  <2> QED BY <2>1, <2>3 DEF CoreTypeOK
<1>8. CASE RegisterInTick
  <2>1. stage' = "loop" /\ UNCHANGED <<eject, was, hooked, poolVars>> /\ Register("run")
    BY <1>8 DEF RegisterInTick
  <2>2. want' = want
    BY <2>1 DEF Register
  <2> QED BY <2>1, <2>2, ExecuteType DEF CoreTypeOK, poolVars
<1>9. CASE ClearModules
  <2>1. stage' \in {"pool", "clearing"}
    BY <1>9 DEF ClearModules
  <2>2. UNCHANGED <<eject, was, hooked, poolVars, lockVars>>
    BY <1>9 DEF ClearModules
  <2> QED BY <2>1, <2>2 DEF CoreTypeOK, poolVars, lockVars
<1>10. CASE StopPool
  BY <1>10 DEF StopPool, CoreTypeOK, coreVars, lockVars
<1>11. CASE JoinPool \/ Unhook
  BY <1>11 DEF JoinPool, Unhook, CoreTypeOK, poolVars, lockVars
<1>12. CASE Free
  BY <1>12 DEF Free, Shutdown, Drop, CoreTypeOK, poolVars
<1>13. CASE TakeTask \/ FinishTask
  BY <1>13 DEF TakeTask, FinishTask, CoreTypeOK, coreVars, lockVars
<1>14. CASE SubmitInTask \/ RegisterInTask
  <2>1. Execute("task") \/ Register("task")
    BY <1>14 DEF SubmitInTask, RegisterInTask
  <2>2. UNCHANGED <<coreVars, poolVars, want>>
    BY <1>14 DEF SubmitInTask, RegisterInTask, Register
  <2> QED BY <2>1, <2>2, ExecuteType DEF CoreTypeOK, coreVars, poolVars
<1> QED
  BY <1>1, <1>2, <1>3, <1>4, <1>5, <1>6, <1>7, <1>8, <1>9, <1>10, <1>11, <1>12, <1>13, <1>14
  DEF Start, Tick, Teardown, Work

LEMMA RunThreadWorldType ==
    ASSUME WorldTypeOK, Start \/ Tick \/ Teardown \/ Work
    PROVE  WorldTypeOK'
<1>1. UNCHANGED <<world, joined, of>> /\ kept' \in {kept, {}}
  <2>1. CASE Start \/ Work
    BY <2>1 DEF Start, Work, Resolve, Install, Serve, LoadModules, TakeTask, SubmitInTask,
                RegisterInTask, FinishTask, worldVars
  <2>2. CASE Tick
    BY <2>2 DEF Tick, Sense, Dispatch, Send, TickModules, RegisterInTick, worldVars
  <2>3. CASE Teardown
    BY <2>3 DEF Teardown, ClearModules, StopPool, JoinPool, Unhook, Free, worldVars
  <2> QED BY <2>1, <2>2, <2>3
<1>2. seen' \in {seen, seen \cup ({world} \ {0})}
  <2>1. CASE Start \/ Work
    BY <2>1 DEF Start, Work, Resolve, Install, Serve, LoadModules, TakeTask, SubmitInTask,
                RegisterInTask, FinishTask, worldVars
  <2>2. CASE Tick
    BY <2>2 DEF Tick, Sense, Dispatch, Send, TickModules, RegisterInTick, worldVars
  <2>3. CASE Teardown
    BY <2>3 DEF Teardown, ClearModules, StopPool, JoinPool, Unhook, Free, worldVars
  <2> QED BY <2>1, <2>2, <2>3
<1>3. seen' \subseteq 1..joined /\ of' \in [Threads -> 0..joined]
  BY <1>1, <1>2 DEF WorldTypeOK
<1>4. asked' \in {asked, world, 0}
  BY RunThreadAsked DEF AskedStep
<1> QED BY <1>1, <1>3, <1>4, LeaveType

LEMMA NextAppTypeInv == AppTypeInv /\ [AppNext]_appVars => AppTypeInv'
<1> SUFFICES ASSUME AppTypeInv, [AppNext]_appVars
             PROVE  AppTypeInv'
  OBVIOUS
<1>0. TypeInv /\ CoreTypeOK /\ WorldTypeOK
  BY DEF AppTypeInv
<1>1. TypeInv'
  BY <1>0, AppStepIsStep, NextTypeInv
<1>2. CASE UNCHANGED appVars
  <2>1. CoreTypeOK'
    BY <1>0, <1>2 DEF appVars, coreVars, poolVars, lockVars, CoreTypeOK
  <2>2. WorldTypeOK'
    BY <1>0, <1>2 DEF appVars, worldVars, lockVars, WorldTypeOK
  <2> QED BY <1>1, <2>1, <2>2 DEF AppTypeInv
<1>3. CASE Join \/ Quit
  <2>1. CoreTypeOK'
    BY <1>0, <1>3 DEF Join, Quit, coreVars, poolVars, lockVars, CoreTypeOK
  <2>2. UNCHANGED <<asked, of, kept, seen>>
    BY <1>3 DEF Join, Quit, lockVars
  <2>3. of' \in [Threads -> 0..joined] /\ kept' \subseteq 1..joined /\ seen' \subseteq 1..joined
    BY <1>0, <2>2 DEF WorldTypeOK
  <2>4. Enter \/ (world' = 0 /\ joined' = joined)
    BY <1>3 DEF Join, Quit
  <2>5. WorldTypeOK'
    BY <1>0, <2>2, <2>3, <2>4, EnterType, LeaveType
  <2> QED BY <1>1, <2>1, <2>5 DEF AppTypeInv
<1>4. CASE Attach \/ Stop
  <2>1. CoreTypeOK'
    BY <1>0, <1>4 DEF Attach, Stop, poolVars, lockVars, CoreTypeOK
  <2>2. WorldTypeOK'
    BY <1>0, <1>4 DEF Attach, Stop, worldVars, lockVars, WorldTypeOK
  <2> QED BY <1>1, <2>1, <2>2 DEF AppTypeInv
<1>5. CASE Start \/ Tick \/ Teardown \/ Work
  BY <1>0, <1>1, <1>5, RunThreadCoreType, RunThreadWorldType DEF AppTypeInv
<1>6. ASSUME NEW t \in Threads, Game(t)
      PROVE  AppTypeInv'
  BY <1>0, <1>1, <1>6, GameCoreType, GameWorldType DEF AppTypeInv
<1> QED BY <1>2, <1>3, <1>4, <1>5, <1>6 DEF AppNext

LEMMA AppTypeInvariance == AppSpec => []AppTypeInv
BY InitAppTypeInv, NextAppTypeInv, PTL DEF AppSpec

\* Every variable of AppCore keeps its type.
THEOREM AppTypeCorrect == AppSpec => []AppTypeOK
<1>1. AppTypeInv => AppTypeOK
  BY DEF AppTypeInv, TypeInv, CoreTypeOK, WorldTypeOK, AppTypeOK
<1> QED BY <1>1, AppTypeInvariance, PTL

-----------------------------------------------------------------------------
(* AppCore: sessions. *)

\* A thread handles packets of the world the player is in; a world a tick has met is
\* remembered by the tick as one; and what is kept of it is its own.
SessionInv ==
    /\ \A t \in Receivers : of[t] \in {0, world}
    /\ world \in seen => was
    /\ SeenSessionsForgotten

LEMMA InitSessionInv == AppInit => SessionInv
BY DEF AppInit, SessionInv, SeenSessionsForgotten, Receivers

\* A world nobody met yet.
LEMMA EnterSession ==
    ASSUME WorldTypeOK, Enter, seen' = seen,
           (kept' \cup {asked'}) \cap seen = {},
           \A t \in Receivers : of'[t] = 0
    PROVE  SessionInv'
BY AppAssumption DEF WorldTypeOK, Enter, SessionInv, SeenSessionsForgotten

LEMMA GameSession ==
    ASSUME Settled, AppTypeInv, SessionInv, NEW t \in Threads, Game(t)
    PROVE  SessionInv'
<1> USE DEF AppTypeInv, WorldTypeOK, SessionInv, SeenSessionsForgotten, Receivers, coreVars,
            worldVars
<1>0. AskedStep
  BY GameAsked
<1>1. CASE Offer(t)
  BY <1>1 DEF Offer, lockVars
<1>2. CASE Track(t)
  BY <1>2 DEF Track, Reading, lockVars
<1>3. CASE Transfer(t)
  <2>1. /\ kept' = {} /\ asked' = 0 /\ seen' = seen /\ 0 \notin seen
        /\ \A u \in Receivers : of'[u] = 0
    BY <1>3 DEF Transfer, Drop, Reading
  <2>2. CASE Enter
    BY <2>1, <2>2, EnterSession
  <2>3. CASE UNCHANGED <<world, joined>>
    BY <1>3, <2>1, <2>3 DEF Transfer
  <2> QED BY <1>3, <2>2, <2>3 DEF Transfer
<1>4. CASE Await(t) \/ Exit(t)
  BY <1>4 DEF Await, Exit, lockVars
<1>5. CASE Hear(t) \/ RequestEject(t) \/ Trycmd(t) \/ Inner(t)
  <2>1. UNCHANGED <<was, world, of, kept, seen>> /\ 0 \notin seen
    BY <1>5 DEF Hear, RequestEject, Trycmd, Inner
  <2> QED BY <1>0, <2>1 DEF AskedStep
<1> QED BY <1>1, <1>2, <1>3, <1>4, <1>5 DEF Game

LEMMA NextSessionInv ==
    ASSUME Slow, Settled, AppTypeInv, SessionInv, [AppNext]_appVars
    PROVE  SessionInv'
<1> USE DEF AppTypeInv, WorldTypeOK, SessionInv, SeenSessionsForgotten, coreVars, worldVars,
            lockVars
<1>1. CASE UNCHANGED appVars
  BY <1>1 DEF appVars
<1>2. CASE Join
  <2>1. (kept \cup {asked}) \cap seen = {} /\ \A t \in Receivers : of[t] = 0
    BY <1>2 DEF Join
  <2> QED BY <1>2, <2>1, EnterSession DEF Join
<1>3. CASE Quit
  BY <1>3 DEF Quit
<1>4. CASE Sense
  <2>1. UNCHANGED <<world, of>>
    BY <1>4 DEF Sense
  <2>2. seen' = seen \cup ({world} \ {0})
    BY <1>4 DEF Sense
  <2>3. was' <=> world # 0
    BY <1>4 DEF Sense
  <2>4. /\ 0 \notin seen
        /\ IF was /\ world = 0 THEN kept' = {} /\ asked' = 0
                             ELSE kept' = kept /\ asked' = asked
    BY <1>4 DEF Sense, Shutdown, Drop
  <2>5. \A w \in ((kept \cup {asked}) \cap seen)' : w = world \/ (world = 0 /\ was')
    <3>1. CASE was /\ world = 0
      BY <2>2, <2>4, <3>1
    <3>2. CASE ~(was /\ world = 0)
      BY <2>2, <2>4, <3>2
    <3> QED BY <3>1, <3>2
  <2>6. world' \in seen' => was'
    BY <2>1, <2>2, <2>3
  <2> QED BY <2>1, <2>5, <2>6
<1>5. CASE Attach \/ Stop
  BY <1>5 DEF Attach, Stop
<1>6. CASE Start \/ (Tick /\ ~Sense) \/ Teardown \/ Work
  <2>1. AskedStep /\ 0 \notin seen
    BY <1>6, RunThreadAsked
  <2>2. UNCHANGED <<was, world, of, seen>> /\ kept' \in {kept, {}}
    <3>1. CASE Start
      BY <3>1 DEF Start, Resolve, Install, Serve, LoadModules
    <3>2. CASE Tick /\ ~Sense
      BY <3>2 DEF Tick, Dispatch, Send, TickModules, RegisterInTick
    <3>3. CASE Teardown
      BY <3>3 DEF Teardown, ClearModules, StopPool, JoinPool, Unhook, Free
    <3>4. CASE Work
      BY <3>4 DEF Work, TakeTask, SubmitInTask, RegisterInTask, FinishTask
    <3> QED BY <1>6, <3>1, <3>2, <3>3, <3>4
  <2> QED BY <2>1, <2>2 DEF AskedStep
<1> QED
  BY <1>1, <1>2, <1>3, <1>4, <1>5, <1>6, GameSession DEF AppNext

\* If the menu lasts until a tick has seen it, and no packet of a world is handled after
\* it, then however many worlds are joined, left and changed by transfer, nothing of one,
\* a request included, is remembered in another.
THEOREM SessionsAreForgotten ==
    Slow /\ Settled => (AppSpec => []SeenSessionsForgotten)
<1> SUFFICES ASSUME Slow, Settled
             PROVE  AppSpec => []SeenSessionsForgotten
  OBVIOUS
<1>1. AppTypeInv /\ SessionInv /\ [AppNext]_appVars => SessionInv'
  BY NextSessionInv
<1>2. SessionInv => SeenSessionsForgotten
  BY DEF SessionInv
<1> QED BY <1>1, <1>2, InitSessionInv, AppTypeInvariance, PTL DEF AppSpec
=============================================================================
