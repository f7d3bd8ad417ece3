------------------------ MODULE CommandManagerProofs ------------------------
(***************************************************************************)
(* Proofs about CommandManager, for every set of requests, threads, lines, *)
(* forms and packets.                                                      *)
(***************************************************************************)
EXTENDS CommandManager, TLAPS

\* One callback per request: it is held by the manager, or collected by one
\* thread, or called, and never two of these.
Once ==
    \A r \in Reqs :
        /\ r \in held => /\ told[r] = <<>>
                         /\ \A t \in Threads, o \in Outcomes : <<r, o>> \notin owed[t]
        /\ \A t \in Threads, o \in Outcomes : <<r, o>> \in owed[t] =>
             /\ told[r] = <<>>
             /\ \A t2 \in Threads, o2 \in Outcomes :
                  <<r, o2>> \in owed[t2] => t2 = t /\ o2 = o
        /\ Len(told[r]) <= 1

\* A thread inside execute() has a request of its own, not yet submitted.
CallersSound ==
    /\ \A t \in Users : caller[t].at # "out" =>
         caller[t].req \in Reqs /\ phase[caller[t].req] = "submitting"
    /\ \A t, u \in Users : /\ t # u
                           /\ caller[t].at # "out" /\ caller[u].at # "out"
                           => caller[t].req # caller[u].req

\* A completed request holds no callback any more.
Released == \A r \in Reqs : phase[r] \in {"squelching", "done"} => r \notin held

\* A callback is held, owed or called, unless its request was dropped.
Kept ==
    \A r \in Reqs : Attr[r].callback =>
        r \in held \/ told[r] # <<>> \/ IsOwed(r) \/ phase[r] = "dropped"

Inv == TypeOK /\ Once /\ CallersSound /\ Released /\ Kept

\* The packet being handled has lines left to scan while it is scanned.
PacketSound ==
    /\ net.at # "idle" => net.lines # <<>> \/ net.form # Null
    /\ net.at \in {"check", "lock", "scan"} => net.lines # <<>>
    /\ net.at = "scan" => net.left # <<>>

\* Calling onComplete of a request that is still held, on the spot.
LEMMA CallNow ==
    ASSUME TypeOK, Once, NEW D \in SUBSET Reqs,
           held' = held \ D, UNCHANGED owed,
           told' = [r \in Reqs |-> IF r \in D \cap held
                                   THEN Append(told[r], "Error") ELSE told[r]]
    PROVE  /\ Once' /\ told' \in [Reqs -> Seq(Outcomes)]
           /\ \A r \in Reqs : r \in D \cap held => told'[r] # <<>>
<1>1. \A r \in Reqs : told[r] \in Seq(Outcomes)
  BY DEF TypeOK
<1>2. \A r \in Reqs : Append(told[r], "Error") \in Seq(Outcomes)
                      /\ Append(told[r], "Error") # <<>>
                      /\ Len(Append(told[r], "Error")) = Len(told[r]) + 1
  BY <1>1 DEF Outcomes
<1>3. Once'
  <2> SUFFICES ASSUME NEW r \in Reqs
               PROVE  /\ r \in held' =>
                           /\ told'[r] = <<>>
                           /\ \A u \in Threads, o \in Outcomes :
                                <<r, o>> \notin owed[u]
                      /\ \A u \in Threads, o \in Outcomes : <<r, o>> \in owed[u] =>
                           /\ told'[r] = <<>>
                           /\ \A u2 \in Threads, o2 \in Outcomes :
                                <<r, o2>> \in owed[u2] => u2 = u /\ o2 = o
                      /\ Len(told'[r]) <= 1
    BY DEF Once
  <2>1. CASE r \in D \cap held
    <3>1. told[r] = <<>> /\ \A u \in Threads, o \in Outcomes : <<r, o>> \notin owed[u]
      BY <2>1 DEF Once
    <3>2. Len(told'[r]) = 1 /\ r \notin held'
      BY <1>2, <2>1, <3>1
    <3> QED BY <3>1, <3>2
  <2>2. CASE r \notin D \cap held
    BY <2>2 DEF Once
  <2> QED BY <2>1, <2>2
<1> QED BY <1>1, <1>2, <1>3

LEMMA InitInv == Init => Inv
<1> SUFFICES ASSUME Init PROVE Inv
  OBVIOUS
<1> USE ManagerAssumption DEF Init
<1>1. TypeOK
  <2>1. told \in [Reqs -> Seq(Outcomes)]
    OBVIOUS
  <2>2. net \in [at : {"idle", "check", "lock", "scan", "form", "fire"},
                lines : Seq(Lines), left : Seq(Lines),
                form : Forms \cup {Null}, pass : 0..MaxRegs, dropped : BOOLEAN]
    BY DEF Idle
  <2>3. owed \in [Threads -> SUBSET Calls]
    OBVIOUS
  <2>4. caller \in [Users -> [at : {"out", "register", "submit"},
                            req : Reqs \cup {Null}]]
    OBVIOUS
  <2>5. /\ phase \in [Reqs -> Phases] /\ stamp \in [Reqs -> Nat] /\ clock \in Nat
        /\ got \in [Reqs -> 0..LineCap] /\ expired \in [Reqs -> SUBSET Timers]
        /\ held \subseteq Reqs
    BY DEF Phases
  <2> QED BY <2>1, <2>2, <2>3, <2>4, <2>5 DEF TypeOK
<1>2. Once
  <2>1. Len(<<>>) <= 1
    OBVIOUS
  <2> QED BY <2>1 DEF Once
<1>3. CallersSound /\ Released /\ Kept
  BY DEF CallersSound, Released, Kept
<1> QED BY <1>1, <1>2, <1>3 DEF Inv

LEMMA ExecuteStep ==
    ASSUME Inv, NEW t \in Users, NEW r \in Reqs, Execute(t, r)
    PROVE  Inv'
<1> USE DEF Inv, Execute
<1>1. TypeOK'
  <2>1. caller' \in [Users -> [at : {"out", "register", "submit"},
                             req : Reqs \cup {Null}]]
    BY DEF TypeOK
  <2>2. phase' \in [Reqs -> Phases]
    BY DEF TypeOK, Phases
  <2> QED BY <2>1, <2>2 DEF TypeOK
<1>2. Once'
  BY DEF Once
<1>3. CallersSound'
  BY DEF CallersSound, TypeOK
<1>4. Released'
  BY DEF Released, TypeOK
<1>5. Kept'
  BY DEF Kept, IsOwed, TypeOK
<1> QED BY <1>1, <1>2, <1>3, <1>4, <1>5

LEMMA RegisterStep ==
    ASSUME Inv, NEW t \in Users, Register(t)
    PROVE  Inv'
<1> USE DEF Inv, Register, reqVars
<1>1. TypeOK'
  <2>1. caller' \in [Users -> [at : {"out", "register", "submit"},
                             req : Reqs \cup {Null}]]
    BY ZenonT(60) DEF TypeOK
  <2>2. regs' \in 1..MaxRegs
    BY ManagerAssumption DEF TypeOK
  <2> QED BY <2>1, <2>2 DEF TypeOK
<1>2. Once'
  BY DEF Once
<1>3. CallersSound'
  <2>1. \A u \in Users : /\ caller'[u].req = caller[u].req
                         /\ caller'[u].at # "out" => caller[u].at # "out"
    BY DEF TypeOK
  <2> QED BY <2>1 DEF CallersSound
<1>4. Released' /\ Kept'
  BY DEF Released, Kept, IsOwed
<1> QED BY <1>1, <1>2, <1>3, <1>4

\* Phases may change as they like outside execute(), so long as nobody's
\* request inside it does.
LEMMA CallersKept ==
    ASSUME CallersSound, UNCHANGED caller,
           \A r \in Reqs : phase[r] = "submitting" => phase'[r] = "submitting"
    PROVE  CallersSound'
BY DEF CallersSound

LEMMA SubmitStep ==
    ASSUME Inv, NEW t \in Users, Submit(t)
    PROVE  Inv'
<1> USE DEF Inv
<1> DEFINE r == caller[t].req
<1>1. r \in Reqs /\ phase[r] = "submitting" /\ caller[t].at = "submit"
  BY DEF Submit, CallersSound
<1>2. /\ clock' = clock + 1
      /\ stamp' = [stamp EXCEPT ![r] = clock + 1]
      /\ caller' = [caller EXCEPT ![t] = [at |-> "out", req |-> Null]]
      /\ UNCHANGED <<got, expired, owed, initialized, regs, net, lockOwner>>
  BY DEF Submit
<1> DEFINE D == IF phase'[r] = "done" THEN {r} ELSE {}
<1>3. /\ cool' \in BOOLEAN
      /\ held' = held \ D
      /\ told' = [q \in Reqs |-> IF q \in D \cap held
                                 THEN Append(told[q], "Error") ELSE told[q]]
      /\ \E p \in {"pending", "capturing", "done"} : phase' = [phase EXCEPT ![r] = p]
  <2>1. CASE Pending = {} /\ cool
    <3>1. PICK sent \in BOOLEAN : Dispatch(r, sent)
      BY <2>1 DEF Submit
    <3>2. CASE sent
      <4>1. phase' = [phase EXCEPT ![r] = "capturing"] /\ UNCHANGED <<held, told>>
        BY <3>1, <3>2 DEF Dispatch
      <4>2. phase'[r] = "capturing"
        BY <1>1, <4>1 DEF TypeOK
      <4>3. told' = [q \in Reqs |-> told[q]]
        BY <4>1 DEF TypeOK
      <4>4. cool' \in BOOLEAN
        BY <2>1 DEF Submit
      <4> HIDE DEF r
      <4> QED BY <4>1, <4>2, <4>3, <4>4
    <3>3. CASE ~sent
      <4>1. /\ phase' = [phase EXCEPT ![r] = "done"]
            /\ held' = held \ {r}
            /\ told' = IF r \in held THEN [told EXCEPT ![r] = Append(@, "Error")]
                       ELSE told
        BY <3>1, <3>3 DEF Dispatch
      <4>2. phase'[r] = "done"
        BY <1>1, <4>1 DEF TypeOK
      <4>3. told' = [q \in Reqs |-> IF q \in {r} \cap held
                                    THEN Append(told[q], "Error") ELSE told[q]]
        BY <1>1, <4>1 DEF TypeOK
      <4>4. cool' \in BOOLEAN
        BY <2>1 DEF Submit
      <4> HIDE DEF r
      <4> QED BY <4>1, <4>2, <4>3, <4>4
    <3> QED BY <3>2, <3>3
  <2>2. CASE ~(Pending = {} /\ cool)
    BY <1>1, <2>2 DEF Submit, TypeOK
  <2> QED BY <2>1, <2>2
<1> HIDE DEF r
<1>4. D \in SUBSET Reqs
  BY <1>1
<1>5. PICK p \in {"pending", "capturing", "done"} : phase' = [phase EXCEPT ![r] = p]
  BY <1>3
<1>6. /\ phase' \in [Reqs -> Phases] /\ phase'[r] = p
      /\ \A q \in Reqs : q # r => phase'[q] = phase[q]
  BY <1>1, <1>5 DEF TypeOK, Phases
<1> HIDE DEF D
<1>7. /\ Once' /\ told' \in [Reqs -> Seq(Outcomes)]
      /\ \A q \in Reqs : q \in D \cap held => told'[q] # <<>>
  BY <1>2, <1>3, <1>4, CallNow
<1>8. TypeOK'
  <2>1. caller' \in [Users -> [at : {"out", "register", "submit"},
                             req : Reqs \cup {Null}]]
    BY <1>2 DEF TypeOK
  <2>2. stamp' \in [Reqs -> Nat] /\ clock' \in Nat
    <3>1. stamp \in [Reqs -> Nat] /\ clock \in Nat
      BY DEF TypeOK
    <3>2. clock + 1 \in Nat
      BY <3>1
    <3> QED BY <1>2, <3>1, <3>2
  <2>3. held' \subseteq Reqs
    BY <1>3 DEF TypeOK
  <2> QED BY <1>2, <1>3, <1>6, <1>7, <2>1, <2>2, <2>3 DEF TypeOK
<1>9. CallersSound'
  <2>1. caller'[t].at = "out"
    BY <1>2 DEF TypeOK
  <2>2. \A u \in Users \ {t} : caller'[u] = caller[u]
    BY <1>2 DEF TypeOK
  <2>3. \A u \in Users \ {t} : caller[u].at # "out" => caller[u].req # r
    BY <1>1 DEF CallersSound, r
  <2> QED BY <1>6, <2>1, <2>2, <2>3 DEF CallersSound
<1>10. Released'
  BY <1>3, <1>5, <1>6 DEF Released, D
<1>11. Kept'
  <2> SUFFICES ASSUME NEW q \in Reqs, Attr[q].callback
               PROVE  \/ q \in held' \/ told'[q] # <<>>
                      \/ (\E u \in Threads, o \in Outcomes : <<q, o>> \in owed[u])
                      \/ phase'[q] = "dropped"
    BY <1>2 DEF Kept, IsOwed
  <2>1. CASE q \in D \cap held
    BY <1>7, <2>1
  <2>2. CASE q \notin D \cap held
    BY <1>1, <1>3, <1>6, <2>2 DEF Kept, IsOwed
  <2> QED BY <2>1, <2>2
<1> QED BY <1>7, <1>8, <1>9, <1>10, <1>11
\* Completing requests: the callbacks of S are collected, those of F called on
\* the spot, and the requests of D hold none any more; what was held and is in
\* neither S nor F is dropped.
LEMMA Completion ==
    ASSUME Inv, NEW t \in Threads, NEW D \in SUBSET Reqs,
           NEW S \in SUBSET D, NEW F \in SUBSET D, S \cap F = {},
           NEW outcome \in [S -> Outcomes],
           Collect(t, S, outcome), held' = held \ D, UNCHANGED caller,
           told' = [r \in Reqs |-> IF r \in F \cap held
                                   THEN Append(told[r], "Error") ELSE told[r]],
           \A r \in Reqs :
             /\ phase[r] = "submitting" => phase'[r] = "submitting"
             /\ phase[r] = "dropped" => phase'[r] = "dropped"
             /\ phase'[r] \in {"squelching", "done"} =>
                  phase[r] \in {"squelching", "done"} \/ r \in D
             /\ r \in (D \cap held) \ (S \cup F) => phase'[r] = "dropped"
    PROVE  /\ Once' /\ CallersSound' /\ Released' /\ Kept'
           /\ owed' \in [Threads -> SUBSET Calls] /\ held' \subseteq Reqs
           /\ told' \in [Reqs -> Seq(Outcomes)]
<1> USE DEF Inv
<1>1. owed' = [owed EXCEPT ![t] = @ \cup {<<r, outcome[r]>> : r \in S \cap held}]
  BY DEF Collect
<1>2. {<<r, outcome[r]>> : r \in S \cap held} \in SUBSET Calls
  BY DEF Calls
<1>3. owed' \in [Threads -> SUBSET Calls] /\ held' \subseteq Reqs
  BY <1>1, <1>2 DEF TypeOK
<1>4. \A r \in Reqs, u \in Threads, o \in Outcomes : <<r, o>> \in owed'[u] =>
        \/ <<r, o>> \in owed[u]
        \/ u = t /\ r \in S /\ r \in held /\ o = outcome[r]
  BY <1>1 DEF TypeOK
<1>5. \A r \in Reqs, u \in Threads, o \in Outcomes :
        <<r, o>> \in owed[u] => <<r, o>> \in owed'[u]
  BY <1>1 DEF TypeOK
<1>6. \A r \in S \cap held : outcome[r] \in Outcomes /\ <<r, outcome[r]>> \in owed'[t]
  BY <1>1 DEF TypeOK
<1>7. \A r \in Reqs : /\ Append(told[r], "Error") \in Seq(Outcomes)
                      /\ Append(told[r], "Error") # <<>>
                      /\ Len(Append(told[r], "Error")) = Len(told[r]) + 1
  <2>1. \A r \in Reqs : told[r] \in Seq(Outcomes)
    BY DEF TypeOK
  <2> QED BY SMTT(30), <2>1 DEF Outcomes
<1>8. told' \in [Reqs -> Seq(Outcomes)]
  BY <1>7 DEF TypeOK
<1>9. Once'
  <2> SUFFICES ASSUME NEW r \in Reqs
               PROVE  /\ r \in held' =>
                           /\ told'[r] = <<>>
                           /\ \A u \in Threads, o \in Outcomes :
                                <<r, o>> \notin owed'[u]
                      /\ \A u \in Threads, o \in Outcomes : <<r, o>> \in owed'[u] =>
                           /\ told'[r] = <<>>
                           /\ \A u2 \in Threads, o2 \in Outcomes :
                                <<r, o2>> \in owed'[u2] => u2 = u /\ o2 = o
                      /\ Len(told'[r]) <= 1
    BY DEF Once
  <2>1. CASE r \in S /\ r \in held
    <3>1. told[r] = <<>> /\ \A u \in Threads, o \in Outcomes : <<r, o>> \notin owed[u]
      BY <2>1 DEF Once
    <3>2. r \notin held' /\ told'[r] = told[r]
      BY <2>1
    <3>3. Len(told'[r]) <= 1
      BY <3>1, <3>2
    <3> QED BY <1>4, <3>1, <3>2, <3>3
  <2>2. CASE r \in F /\ r \in held
    <3>1. told[r] = <<>> /\ \A u \in Threads, o \in Outcomes : <<r, o>> \notin owed[u]
      BY <2>2 DEF Once
    <3>2. Len(told'[r]) = 1 /\ r \notin held'
      BY <1>7, <2>2, <3>1
    <3> QED BY <1>4, <2>2, <3>1, <3>2
  <2>3. CASE ~(r \in S /\ r \in held) /\ ~(r \in F /\ r \in held)
    <3>1. \A u \in Threads, o \in Outcomes : <<r, o>> \in owed'[u] => <<r, o>> \in owed[u]
      BY <1>4, <2>3
    <3>2. (r \in held' => r \in held) /\ told'[r] = told[r]
      BY <2>3
    <3> QED BY <3>1, <3>2 DEF Once
  <2> QED BY <2>1, <2>2, <2>3
<1>10. CallersSound'
  BY CallersKept
<1>11. Released'
  BY DEF Released
<1>12. Kept'
  <2> SUFFICES ASSUME NEW r \in Reqs, Attr[r].callback
               PROVE  \/ r \in held' \/ told'[r] # <<>>
                      \/ (\E u \in Threads, o \in Outcomes : <<r, o>> \in owed'[u])
                      \/ phase'[r] = "dropped"
    BY DEF Kept, IsOwed
  <2>1. CASE r \in S /\ r \in held
    BY <1>6, <2>1
  <2>2. CASE r \in F /\ r \in held
    BY <1>7, <2>2
  <2>3. CASE r \in held /\ r \notin S /\ r \notin F
    BY <2>3
  <2>4. CASE r \notin held
    <3>1. told[r] # <<>> \/ IsOwed(r) \/ phase[r] = "dropped"
      BY <2>4 DEF Kept
    <3>2. told'[r] = told[r]
      BY <2>4
    <3> QED BY <1>5, <3>1, <3>2 DEF IsOwed
  <2> QED BY <2>1, <2>2, <2>3, <2>4
<1> QED BY <1>3, <1>8, <1>9, <1>10, <1>11, <1>12

\* The same where nothing is called on the spot.
LEMMA Completed ==
    ASSUME Inv, NEW t \in Threads, NEW D \in SUBSET Reqs, NEW S \in SUBSET D,
           NEW outcome \in [S -> Outcomes],
           Collect(t, S, outcome), held' = held \ D, UNCHANGED <<caller, told>>,
           \A r \in Reqs :
             /\ phase[r] = "submitting" => phase'[r] = "submitting"
             /\ phase[r] = "dropped" => phase'[r] = "dropped"
             /\ phase'[r] \in {"squelching", "done"} =>
                  phase[r] \in {"squelching", "done"} \/ r \in D
             /\ r \in (D \cap held) \ S => phase'[r] = "dropped"
    PROVE  /\ Once' /\ CallersSound' /\ Released' /\ Kept'
           /\ owed' \in [Threads -> SUBSET Calls] /\ held' \subseteq Reqs
<1> DEFINE F == {}
<1>1. told' = [r \in Reqs |-> IF r \in F \cap held
                              THEN Append(told[r], "Error") ELSE told[r]]
  BY DEF Inv, TypeOK
<1>2. F \in SUBSET D /\ S \cap F = {}
  OBVIOUS
<1>3. \A r \in Reqs :
        /\ phase[r] = "submitting" => phase'[r] = "submitting"
        /\ phase[r] = "dropped" => phase'[r] = "dropped"
        /\ phase'[r] \in {"squelching", "done"} =>
             phase[r] \in {"squelching", "done"} \/ r \in D
        /\ r \in (D \cap held) \ (S \cup F) => phase'[r] = "dropped"
  OBVIOUS
<1>4. F \in SUBSET D
  OBVIOUS
<1> HIDE DEF F
<1> QED BY <1>1, <1>2, <1>3, <1>4, Completion, Zenon

\* And where nothing is collected either: requests are only forgotten.
LEMMA Forgotten ==
    ASSUME Inv, NEW D \in SUBSET Reqs, held' = held \ D,
           UNCHANGED <<caller, told, owed>>,
           \A r \in Reqs :
             /\ phase[r] = "submitting" => phase'[r] = "submitting"
             /\ phase[r] = "dropped" => phase'[r] = "dropped"
             /\ phase'[r] \in {"squelching", "done"} =>
                  phase[r] \in {"squelching", "done"} \/ r \in D
             /\ r \in D \cap held => phase'[r] = "dropped"
    PROVE  Once' /\ CallersSound' /\ Released' /\ Kept' /\ held' \subseteq Reqs
<1>1. Once'
  BY DEF Inv, Once
<1>2. CallersSound'
  BY CallersKept DEF Inv
<1>3. Released'
  BY DEF Inv, Released
<1>4. Kept'
  BY DEF Inv, Kept, IsOwed
<1> QED BY <1>1, <1>2, <1>3, <1>4 DEF Inv, TypeOK

LEMMA CancelPendingStep ==
    ASSUME Inv, NEW base \in Bases, CancelPending(base)
    PROVE  Inv'
<1> USE DEF Inv, CancelPending
<1> DEFINE D == {r \in Pending : Attr[r].base = base}
<1>1. phase' \in [Reqs -> Phases]
  BY DEF TypeOK, Phases
<1>2. D \in SUBSET Reqs /\ held' = held \ D
  BY DEF Pending
<1>3. \A r \in Reqs :
        /\ phase[r] = "submitting" => phase'[r] = "submitting"
        /\ phase[r] = "dropped" => phase'[r] = "dropped"
        /\ phase'[r] \in {"squelching", "done"} =>
             phase[r] \in {"squelching", "done"} \/ r \in D
        /\ r \in D \cap held => phase'[r] = "dropped"
  BY DEF Pending
<1> HIDE DEF D
<1>4. Once' /\ CallersSound' /\ Released' /\ Kept' /\ held' \subseteq Reqs
  <2>1. UNCHANGED <<caller, told, owed>>
    OBVIOUS
  <2> HIDE DEF CancelPending, Inv
  <2> QED BY <1>2, <1>3, <2>1, Forgotten
<1> QED BY <1>1, <1>4 DEF TypeOK

\* What the network thread does to net alone touches no request.
LEMMA NetStep ==
    ASSUME Inv, UNCHANGED <<reqVars, owed, told, cool, initialized, regs, caller>>,
           lockOwner' \in {Null, Net},
           net' \in [at : {"idle", "check", "lock", "scan", "form", "fire"},
                     lines : Seq(Lines), left : Seq(Lines),
                     form : Forms \cup {Null}, pass : 0..MaxRegs, dropped : BOOLEAN]
    PROVE  Inv'
<1>1. TypeOK'
  BY DEF Inv, reqVars, TypeOK
<1>2. Once' /\ CallersSound'
  BY DEF Inv, reqVars, Once, CallersSound
<1>3. Released' /\ Kept'
  BY DEF Inv, reqVars, Released, Kept, IsOwed
<1> QED BY <1>1, <1>2, <1>3 DEF Inv

LEMMA ReceiveStep ==
    ASSUME Inv, \/ \E lines \in TextPackets : ReceiveText(lines)
                \/ \E form \in Forms : ReceiveForm(form)
    PROVE  Inv'
<1>1. net' \in [at : {"idle", "check", "lock", "scan", "form", "fire"},
                lines : Seq(Lines), left : Seq(Lines),
                form : Forms \cup {Null}, pass : 0..MaxRegs, dropped : BOOLEAN]
  <2>1. CASE \E lines \in TextPackets : ReceiveText(lines)
    <3>1. PICK lines \in TextPackets : ReceiveText(lines)
      BY <2>1
    <3>2. lines \in Seq(Lines) /\ 1 \in 0..MaxRegs
      BY ManagerAssumption
    <3>3. net' = [at |-> "check", lines |-> lines, left |-> <<>>, form |-> Null,
                  pass |-> 1, dropped |-> FALSE]
      BY <3>1 DEF ReceiveText, Idle
    <3> QED BY <3>2, <3>3
  <2>2. CASE \E form \in Forms : ReceiveForm(form)
    <3>1. PICK form \in Forms : ReceiveForm(form)
      BY <2>2
    <3>2. 1 \in 0..MaxRegs
      BY ManagerAssumption
    <3>3. net' = [at |-> "form", lines |-> <<>>, left |-> <<>>, form |-> form,
                  pass |-> 1, dropped |-> FALSE]
      BY <3>1 DEF ReceiveForm, Idle
    <3> QED BY <3>2, <3>3
  <2> QED BY <2>1, <2>2
<1>2. /\ UNCHANGED <<reqVars, owed, told, cool, initialized, regs, caller>>
      /\ lockOwner' = lockOwner
  BY DEF ReceiveText, ReceiveForm
<1> QED BY <1>1, <1>2, NetStep DEF Inv, TypeOK

LEMMA LookStep ==
    ASSUME Inv, CheckText \/ LockText \/ NextHandler
    PROVE  Inv'
<1>1. net' \in [at : {"idle", "check", "lock", "scan", "form", "fire"},
                lines : Seq(Lines), left : Seq(Lines),
                form : Forms \cup {Null}, pass : 0..MaxRegs, dropped : BOOLEAN]
  <2>1. CASE CheckText
    BY <2>1 DEF CheckText, Inv, TypeOK
  <2>2. CASE LockText
    BY <2>2 DEF LockText, Inv, TypeOK
  <2>3. CASE NextHandler
    <3>1. net.pass < regs => net.pass + 1 \in 0..MaxRegs
      <4>1. net.pass \in Nat /\ regs \in 1..MaxRegs
        BY DEF Inv, TypeOK
      <4> QED BY <4>1, ManagerAssumption
    <3>2. net.pass \in Nat /\ regs \in Nat
      BY DEF Inv, TypeOK
    <3>3. ~(net.pass >= regs) => net.pass < regs
      BY <3>2
    <3>4. Idle \in [at : {"idle", "check", "lock", "scan", "form", "fire"},
                lines : Seq(Lines), left : Seq(Lines),
                form : Forms \cup {Null}, pass : 0..MaxRegs, dropped : BOOLEAN]
      BY ManagerAssumption DEF Idle
    <3> QED BY <2>3, <3>1, <3>3, <3>4 DEF NextHandler, Inv, TypeOK
  <2> QED BY <2>1, <2>2, <2>3
<1>2. /\ UNCHANGED <<reqVars, owed, told, cool, initialized, regs, caller>>
      /\ lockOwner' \in {Null, Net}
  BY DEF CheckText, LockText, NextHandler, Inv, TypeOK
<1> QED BY <1>1, <1>2, NetStep

LEMMA HandleFormStep ==
    ASSUME Inv, HandleForm
    PROVE  Inv'
<1> DEFINE taker == First({r \in Capturing : Attr[r].expects # "Text"
                                             /\ MatchesForm(r, net.form)})
           outcome == [r \in taker |-> "Form"]
<1>1. taker \in SUBSET Reqs /\ \A r \in taker : phase[r] = "capturing"
  BY DEF First, Capturing
<1>2. outcome \in [taker -> Outcomes]
  BY DEF Outcomes
<1>3. /\ phase' = [r \in Reqs |-> IF r \in taker THEN "squelching" ELSE phase[r]]
      /\ expired' = [r \in Reqs |-> IF r \in taker THEN {} ELSE expired[r]]
      /\ Collect(Net, taker, outcome)
      /\ held' = held \ taker
      /\ UNCHANGED <<stamp, clock, got, told, cool, initialized, regs, caller,
                     lockOwner>>
  BY DEF HandleForm
<1>4. net' \in [at : {"idle", "check", "lock", "scan", "form", "fire"},
                lines : Seq(Lines), left : Seq(Lines),
                form : Forms \cup {Null}, pass : 0..MaxRegs, dropped : BOOLEAN]
  <2>1. \E b \in BOOLEAN : net' = [net EXCEPT !.at = "fire", !.dropped = b]
    BY DEF HandleForm
  <2> QED BY <2>1 DEF Inv, TypeOK
<1> HIDE DEF taker, outcome
<1>5. /\ Once' /\ CallersSound' /\ Released' /\ Kept'
      /\ owed' \in [Threads -> SUBSET Calls] /\ held' \subseteq Reqs
  <2>1. \A r \in Reqs :
          /\ phase[r] = "submitting" => phase'[r] = "submitting"
          /\ phase[r] = "dropped" => phase'[r] = "dropped"
          /\ phase'[r] \in {"squelching", "done"} =>
               phase[r] \in {"squelching", "done"} \/ r \in taker
          /\ r \in (taker \cap held) \ taker => phase'[r] = "dropped"
    BY <1>1, <1>3
  <2>2. Net \in Threads /\ taker \in SUBSET taker
    BY DEF Threads
  <2> QED BY <1>1, <1>2, <1>3, <2>1, <2>2, Completed
<1>6. phase' \in [Reqs -> Phases] /\ expired' \in [Reqs -> SUBSET Timers]
  BY <1>3 DEF Inv, TypeOK, Phases
<1> QED BY <1>3, <1>4, <1>5, <1>6 DEF Inv, TypeOK

LEMMA ScanLineStep ==
    ASSUME Inv, PacketSound, ScanLine
    PROVE  Inv'
<1> DEFINE line == Head(net.left)
           full == {r \in Taking(line) : Enough(r, got[r] + 1)}
           done == Erring(line) \cup full
           outcome == [r \in done |-> IF r \in Erring(line) THEN "Error" ELSE "Text"]
<1>1. done \in SUBSET Reqs /\ \A r \in done : phase[r] = "capturing"
  BY DEF Erring, Taking, Capturing
<1>2. outcome \in [done -> Outcomes]
  BY DEF Outcomes
<1>3. /\ got' = [r \in Reqs |-> IF r \in Taking(line) /\ got[r] < LineCap
                                THEN got[r] + 1 ELSE got[r]]
      /\ expired' = [r \in Reqs |->
                       IF r \in done THEN {}
                       ELSE IF r \in Taking(line) THEN expired[r] \ {"debounce"}
                       ELSE expired[r]]
      /\ phase' = [r \in Reqs |-> IF r \in done THEN "squelching" ELSE phase[r]]
      /\ Collect(Net, done, outcome)
      /\ held' = held \ done
      /\ UNCHANGED <<stamp, clock, told, cool, initialized, regs, caller>>
  BY DEF ScanLine
<1>4. /\ net.at = "scan"
      /\ \E b \in BOOLEAN, left \in {Tail(net.left)} :
           net' = [net EXCEPT !.left = left,
                              !.at = IF left = <<>> THEN "fire" ELSE @,
                              !.dropped = b]
      /\ lockOwner' \in {Null, lockOwner}
  <2>1. \A b \in BOOLEAN, P \in BOOLEAN : (b \/ P) \in BOOLEAN
    OBVIOUS
  <2>2. net.dropped \in BOOLEAN
    BY DEF Inv, TypeOK
  <2> QED BY <2>2 DEF ScanLine
<1> HIDE DEF done, outcome, full, line
<1>5. /\ Once' /\ CallersSound' /\ Released' /\ Kept'
      /\ owed' \in [Threads -> SUBSET Calls] /\ held' \subseteq Reqs
  <2>1. \A r \in Reqs :
          /\ phase[r] = "submitting" => phase'[r] = "submitting"
          /\ phase[r] = "dropped" => phase'[r] = "dropped"
          /\ phase'[r] \in {"squelching", "done"} =>
               phase[r] \in {"squelching", "done"} \/ r \in done
          /\ r \in (done \cap held) \ done => phase'[r] = "dropped"
    BY <1>1, <1>3
  <2>2. Net \in Threads /\ done \in SUBSET done
    BY DEF Threads
  <2> QED BY <1>1, <1>2, <1>3, <2>1, <2>2, Completed
<1>6. phase' \in [Reqs -> Phases] /\ expired' \in [Reqs -> SUBSET Timers]
  BY <1>3 DEF Inv, TypeOK, Phases
<1>7. got' \in [Reqs -> 0..LineCap]
  <2>1. \A r \in Reqs : got[r] \in 0..LineCap
    BY DEF Inv, TypeOK
  <2>2. \A r \in Reqs : got[r] < LineCap => got[r] + 1 \in 0..LineCap
    BY <2>1, ManagerAssumption
  <2> QED BY <1>3, <2>1, <2>2
<1>8. net' \in [at : {"idle", "check", "lock", "scan", "form", "fire"},
                lines : Seq(Lines), left : Seq(Lines),
                form : Forms \cup {Null}, pass : 0..MaxRegs, dropped : BOOLEAN]
  <2>1. Tail(net.left) \in Seq(Lines)
    BY <1>4 DEF Inv, TypeOK, PacketSound
  <2> QED BY ZenonT(60), <1>4, <2>1 DEF Inv, TypeOK
<1> QED BY <1>3, <1>4, <1>5, <1>6, <1>7, <1>8 DEF Inv, TypeOK

LEMMA TickStep ==
    ASSUME Inv, Tick
    PROVE  Inv'
<1> DEFINE due == IF cool THEN First(Pending) ELSE {}
           done == Sealed \cup Over
           outcome == [r \in done |-> IF got[r] > 0 THEN "Text" ELSE "Timeout"]
<1>1. PICK sent \in SUBSET due :
        /\ cool' = (cool /\ due = {})
        /\ phase' = [r \in Reqs |->
                       IF r \in sent THEN "capturing"
                       ELSE IF r \in (due \ sent) \cup Erased THEN "done"
                       ELSE IF r \in done THEN "squelching"
                       ELSE phase[r]]
        /\ expired' = [r \in Reqs |-> IF r \in done THEN {} ELSE expired[r]]
        /\ Collect(Run, done, outcome)
        /\ told' = [r \in Reqs |-> IF r \in (due \ sent) \cap held
                                   THEN Append(told[r], "Error") ELSE told[r]]
        /\ held' = held \ (done \cup (due \ sent))
  BY DEF Tick
<1>2. UNCHANGED <<stamp, clock, got, initialized, regs, caller, net, lockOwner>>
  BY DEF Tick
<1> DEFINE failed == due \ sent
           D == done \cup failed
<1>3. /\ due \in SUBSET Reqs /\ \A r \in due : phase[r] = "pending"
      /\ done \in SUBSET Reqs /\ \A r \in done : phase[r] = "capturing"
      /\ Erased \in SUBSET Reqs /\ \A r \in Erased : phase[r] = "squelching"
      /\ cool \in BOOLEAN
  BY DEF First, Pending, Sealed, Over, Erased, Capturing, Squelching, Inv, TypeOK
<1>4. outcome \in [done -> Outcomes]
  BY DEF Outcomes
<1>5. held' = held \ D /\ UNCHANGED caller
  BY <1>1, <1>2
<1> HIDE DEF due, done, outcome
<1>6. /\ D \in SUBSET Reqs /\ done \in SUBSET D /\ failed \in SUBSET D
      /\ done \cap failed = {}
  BY <1>3
<1>7. \A r \in Reqs :
        /\ phase[r] = "submitting" => phase'[r] = "submitting"
        /\ phase[r] = "dropped" => phase'[r] = "dropped"
        /\ phase'[r] \in {"squelching", "done"} =>
             phase[r] \in {"squelching", "done"} \/ r \in D
        /\ r \in (D \cap held) \ (done \cup failed) => phase'[r] = "dropped"
  BY <1>1, <1>3
<1>8. Run \in Threads
  BY DEF Threads
<1>9. /\ Collect(Run, done, outcome)
      /\ told' = [r \in Reqs |-> IF r \in failed \cap held
                                 THEN Append(told[r], "Error") ELSE told[r]]
  BY <1>1
<1>10. phase' \in [Reqs -> Phases] /\ expired' \in [Reqs -> SUBSET Timers]
  BY <1>1 DEF Inv, TypeOK, Phases
<1>11. cool' \in BOOLEAN
  BY <1>1, <1>3
<1> HIDE DEF failed, D
<1>12. /\ Once' /\ CallersSound' /\ Released' /\ Kept'
       /\ owed' \in [Threads -> SUBSET Calls] /\ held' \subseteq Reqs
       /\ told' \in [Reqs -> Seq(Outcomes)]
  BY ZenonT(60), <1>4, <1>5, <1>6, <1>7, <1>8, <1>9, Completion
<1> QED BY <1>2, <1>10, <1>11, <1>12 DEF Inv, TypeOK

LEMMA FireStep ==
    ASSUME Inv, NEW t \in Threads, Fire(t)
    PROVE  Inv'
<1>1. PICK c \in owed[t] :
        /\ owed' = [owed EXCEPT ![t] = @ \ {c}]
        /\ told' = [told EXCEPT ![c[1]] = Append(@, c[2])]
  BY DEF Fire
<1>2. PICK q \in Reqs, p \in Outcomes : c = <<q, p>>
  BY DEF Inv, TypeOK, Calls
<1>3. /\ c[1] = q /\ c[2] = p /\ <<q, p>> \in owed[t]
      /\ UNCHANGED <<reqVars, cool, initialized, regs, caller, net, lockOwner>>
  BY <1>2 DEF Fire
<1>4. /\ told[q] = <<>> /\ q \notin held
      /\ \A u \in Threads, o \in Outcomes : <<q, o>> \in owed[u] => u = t /\ o = p
  BY <1>3 DEF Inv, Once
<1>5. /\ told' \in [Reqs -> Seq(Outcomes)]
      /\ told'[q] = <<p>> /\ \A r \in Reqs \ {q} : told'[r] = told[r]
  BY <1>1, <1>3, <1>4 DEF Inv, TypeOK
<1>6. /\ owed' \in [Threads -> SUBSET Calls]
      /\ \A u \in Threads, r \in Reqs, o \in Outcomes :
           /\ <<r, o>> \in owed'[u] => <<r, o>> \in owed[u] /\ r # q
           /\ r # q /\ <<r, o>> \in owed[u] => <<r, o>> \in owed'[u]
  <2>1. \A u \in Threads : owed'[u] = IF u = t THEN owed[t] \ {<<q, p>>} ELSE owed[u]
    BY <1>1, <1>2 DEF Inv, TypeOK
  <2>2. owed' \in [Threads -> SUBSET Calls]
    BY <1>1 DEF Inv, TypeOK
  <2> QED BY <1>4, <2>1, <2>2
<1>7. TypeOK'
  BY <1>3, <1>5, <1>6 DEF Inv, TypeOK, reqVars
<1>8. Once'
  <2>1. Len(told'[q]) = 1 /\ told'[q] # <<>>
    BY <1>5
  <2>2. held' = held
    BY <1>3 DEF reqVars
  <2> SUFFICES ASSUME NEW r \in Reqs
               PROVE  /\ r \in held =>
                           /\ told'[r] = <<>>
                           /\ \A u \in Threads, o \in Outcomes :
                                <<r, o>> \notin owed'[u]
                      /\ \A u \in Threads, o \in Outcomes : <<r, o>> \in owed'[u] =>
                           /\ told'[r] = <<>>
                           /\ \A u2 \in Threads, o2 \in Outcomes :
                                <<r, o2>> \in owed'[u2] => u2 = u /\ o2 = o
                      /\ Len(told'[r]) <= 1
    BY <2>2 DEF Once
  <2>3. CASE r = q
    <3>1. r \notin held
      BY <1>4, <2>3
    <3>3. Len(told'[r]) = 1
      BY <2>1, <2>3, Zenon
    <3>4. Len(told'[r]) <= 1
      BY <3>3
    <3>2. \A u \in Threads, o \in Outcomes : <<r, o>> \notin owed'[u]
      BY <1>6, <2>3
    <3> QED BY <3>1, <3>2, <3>4
  <2>4. CASE r # q
    <3>1. told'[r] = told[r]
      BY <1>5, <2>4
    <3>2. \A u \in Threads, o \in Outcomes : <<r, o>> \in owed'[u] => <<r, o>> \in owed[u]
      BY <1>6
    <3> QED BY <3>1, <3>2 DEF Inv, Once
  <2> QED BY <2>3, <2>4
<1>9. CallersSound' /\ Released'
  BY <1>3 DEF Inv, CallersSound, Released, reqVars
<1>10. Kept'
  <2> SUFFICES ASSUME NEW r \in Reqs, Attr[r].callback
               PROVE  \/ r \in held \/ told'[r] # <<>>
                      \/ (\E u \in Threads, o \in Outcomes : <<r, o>> \in owed'[u])
                      \/ phase[r] = "dropped"
    BY <1>3 DEF Kept, IsOwed, reqVars
  <2>1. CASE r = q
    <3>1. told'[q] # <<>>
      BY <1>5
    <3> QED BY <2>1, <3>1
  <2>2. CASE r # q
    <3>1. r \in held \/ told[r] # <<>> \/ IsOwed(r) \/ phase[r] = "dropped"
      BY DEF Inv, Kept
    <3>2. told'[r] = told[r]
      BY <1>5, <2>2
    <3>3. IsOwed(r) => \E u \in Threads, o \in Outcomes : <<r, o>> \in owed'[u]
      BY <1>6, <2>2 DEF IsOwed
    <3> QED BY <3>1, <3>2, <3>3
  <2> QED BY <2>1, <2>2
<1> QED BY <1>7, <1>8, <1>9, <1>10 DEF Inv

LEMMA ResetStep ==
    ASSUME Inv, Reset
    PROVE  Inv'
<1> DEFINE D == Pending \cup Active
           outcome == [r \in Active |-> IF got[r] > 0 THEN "Text" ELSE "Error"]
<1>1. /\ phase' = [r \in Reqs |-> IF r \in Pending THEN "dropped"
                                  ELSE IF r \in Active THEN "done" ELSE phase[r]]
      /\ Collect(Net, Active, outcome) /\ held' = held \ D /\ cool' = TRUE
      /\ UNCHANGED <<stamp, clock, got, expired, told, initialized, regs, caller,
                     net, lockOwner>>
  BY DEF Reset
<1>2. D \in SUBSET Reqs /\ Active \in SUBSET D /\ Net \in Threads
  BY DEF Pending, Active, Capturing, Squelching, Threads
<1>3. outcome \in [Active -> Outcomes]
  BY DEF Outcomes
<1>4. \A r \in Reqs :
        /\ phase[r] = "submitting" => phase'[r] = "submitting"
        /\ phase[r] = "dropped" => phase'[r] = "dropped"
        /\ phase'[r] \in {"squelching", "done"} =>
             phase[r] \in {"squelching", "done"} \/ r \in D
        /\ r \in (D \cap held) \ Active => phase'[r] = "dropped"
  BY <1>1 DEF Pending, Active, Capturing, Squelching
<1>5. phase' \in [Reqs -> Phases]
  BY <1>1 DEF Inv, TypeOK, Phases
<1> HIDE DEF D, outcome
<1>6. /\ Once' /\ CallersSound' /\ Released' /\ Kept'
      /\ owed' \in [Threads -> SUBSET Calls] /\ held' \subseteq Reqs
  BY <1>1, <1>2, <1>3, <1>4, Completed
<1> QED BY <1>1, <1>5, <1>6 DEF Inv, TypeOK

LEMMA ShutdownStep ==
    ASSUME Inv, Shutdown
    PROVE  Inv'
<1> DEFINE D == Pending \cup Active
<1>1. /\ phase' = [r \in Reqs |-> IF r \in Pending \cup (Active \cap held)
                                  THEN "dropped"
                                  ELSE IF r \in Active THEN "done" ELSE phase[r]]
      /\ held' = held \ D /\ cool' = TRUE /\ initialized' = FALSE
      /\ UNCHANGED <<stamp, clock, got, expired, owed, told, regs, caller, net,
                     lockOwner>>
  BY DEF Shutdown
<1>2. D \in SUBSET Reqs
  BY DEF Pending, Active, Capturing, Squelching
<1>3. \A r \in Reqs :
        /\ phase[r] = "submitting" => phase'[r] = "submitting"
        /\ phase[r] = "dropped" => phase'[r] = "dropped"
        /\ phase'[r] \in {"squelching", "done"} =>
             phase[r] \in {"squelching", "done"} \/ r \in D
        /\ r \in D \cap held => phase'[r] = "dropped"
  BY <1>1 DEF Pending, Active, Capturing, Squelching
<1>4. phase' \in [Reqs -> Phases]
  BY <1>1 DEF Inv, TypeOK, Phases
<1> HIDE DEF D
<1>5. Once' /\ CallersSound' /\ Released' /\ Kept' /\ held' \subseteq Reqs
  BY <1>1, <1>2, <1>3, Forgotten
<1> QED BY <1>1, <1>4, <1>5 DEF Inv, TypeOK

LEMMA TimeStep ==
    ASSUME Inv, CooldownEnds \/ \E r \in Reqs, timer \in Timers : Expire(r, timer)
    PROVE  Inv'
<1>1. /\ UNCHANGED <<phase, stamp, clock, got, held, owed, told, initialized,
                     regs, caller, net, lockOwner>>
      /\ expired' \in [Reqs -> SUBSET Timers] /\ cool' \in BOOLEAN
  <2>1. CASE CooldownEnds
    BY <2>1 DEF CooldownEnds, reqVars, Inv, TypeOK
  <2>2. CASE \E r \in Reqs, timer \in Timers : Expire(r, timer)
    <3>1. PICK r \in Reqs, timer \in Timers : Expire(r, timer)
      BY <2>2
    <3>2. expired' = [expired EXCEPT ![r] = @ \cup {timer}]
      BY <3>1 DEF Expire
    <3>3. expired' \in [Reqs -> SUBSET Timers]
      BY <3>2 DEF Inv, TypeOK
    <3>4. UNCHANGED <<phase, stamp, clock, got, held, owed, told, cool,
                      initialized, regs, caller, net, lockOwner>>
      BY <3>1 DEF Expire
    <3> QED BY <3>3, <3>4 DEF Inv, TypeOK
  <2> QED BY <2>1, <2>2
<1>2. TypeOK'
  BY <1>1 DEF Inv, TypeOK
<1>3. Once' /\ CallersSound'
  BY <1>1 DEF Inv, Once, CallersSound
<1>4. Released' /\ Kept'
  BY <1>1 DEF Inv, Released, Kept, IsOwed
<1> QED BY <1>2, <1>3, <1>4 DEF Inv

\* Every step keeps the invariant, and the scanned packet non-empty.
LEMMA NextInv ==
    ASSUME Inv, PacketSound, [Next]_vars
    PROVE  Inv'
<1>1. ASSUME NEW t \in Users, \/ \E r \in Reqs : Execute(t, r)
                              \/ Register(t) \/ Submit(t)
      PROVE  Inv'
  BY <1>1, ExecuteStep, RegisterStep, SubmitStep
<1>2. ASSUME NEW base \in Bases, CancelPending(base) PROVE Inv'
  BY <1>2, CancelPendingStep
<1>3. CASE \/ \E lines \in TextPackets : ReceiveText(lines)
           \/ \E form \in Forms : ReceiveForm(form)
  BY <1>3, ReceiveStep
<1>4. CASE HandlePacket
  BY <1>4, LookStep, ScanLineStep, HandleFormStep DEF HandlePacket
<1>5. CASE Tick
  BY <1>5, TickStep
<1>6. ASSUME NEW t \in Threads, Fire(t) PROVE Inv'
  BY <1>6, FireStep
<1>7. CASE Reset \/ Shutdown
  BY <1>7, ResetStep, ShutdownStep
<1>8. CASE CooldownEnds \/ \E r \in Reqs, timer \in Timers : Expire(r, timer)
  BY <1>8, TimeStep
<1>9. CASE UNCHANGED vars
  <2>1. UNCHANGED <<reqVars, owed, told, cool, initialized, regs, caller>>
        /\ UNCHANGED <<net, lockOwner>>
    BY <1>9 DEF vars, reqVars
  <2>2. lockOwner' \in {Null, Net}
        /\ net' \in [at : {"idle", "check", "lock", "scan", "form", "fire"},
                     lines : Seq(Lines), left : Seq(Lines),
                     form : Forms \cup {Null}, pass : 0..MaxRegs, dropped : BOOLEAN]
    BY <2>1 DEF Inv, TypeOK
  <2> QED BY <2>1, <2>2, NetStep
<1> QED BY <1>1, <1>2, <1>3, <1>4, <1>5, <1>6, <1>7, <1>8, <1>9 DEF Next

LEMMA NextPacketSound ==
    ASSUME TypeOK, PacketSound, [Next]_vars
    PROVE  PacketSound'
<1> USE DEF PacketSound
<1> DEFINE Nets == [at : {"idle", "check", "lock", "scan", "form", "fire"},
                    lines : Seq(Lines), left : Seq(Lines),
                    form : Forms \cup {Null}, pass : 0..MaxRegs, dropped : BOOLEAN]
<1>1. net \in Nets
  BY DEF TypeOK
<1>2. CASE UNCHANGED net
  BY <1>2
<1>3. CASE \E lines \in TextPackets : ReceiveText(lines)
  BY <1>3, ManagerAssumption DEF ReceiveText, Idle
<1>4. CASE \E form \in Forms : ReceiveForm(form)
  BY <1>4, ManagerAssumption DEF ReceiveForm, Idle
<1>5. CASE CheckText
  BY <1>1, <1>5 DEF CheckText
<1>6. CASE LockText
  BY <1>1, <1>6 DEF LockText
<1>7. CASE ScanLine
  <2>1. /\ net.at = "scan"
        /\ \E b \in {net'.dropped}, left \in {Tail(net.left)} :
             net' = [net EXCEPT !.left = left,
                                !.at = IF left = <<>> THEN "fire" ELSE @,
                                !.dropped = b]
    BY <1>1, <1>7 DEF ScanLine
  <2> QED BY <1>1, <2>1
<1>8. CASE HandleForm
  <2>1. /\ net.at = "form"
        /\ \E b \in {net'.dropped} : net' = [net EXCEPT !.at = "fire", !.dropped = b]
    BY <1>1, <1>8 DEF HandleForm
  <2> QED BY <1>1, <2>1
<1>9. CASE NextHandler
  BY <1>1, <1>9 DEF NextHandler, Idle
<1>10. CASE \/ \E t \in Users : \/ \E r \in Reqs : Execute(t, r)
                                \/ Register(t) \/ Submit(t)
            \/ \E base \in Bases : CancelPending(base)
            \/ Tick
            \/ \E t \in Threads : Fire(t)
            \/ Reset \/ Shutdown
            \/ \E r \in Reqs, timer \in Timers : Expire(r, timer)
            \/ CooldownEnds
  <2>1. UNCHANGED net
    BY <1>10 DEF Execute, Register, Submit, CancelPending, Tick, Fire, Reset,
                 Shutdown, Expire, CooldownEnds
  <2> QED BY <1>2, <2>1
<1>11. CASE UNCHANGED vars
  BY <1>2, <1>11 DEF vars
<1> QED BY <1>3, <1>4, <1>5, <1>6, <1>7, <1>8, <1>9, <1>10, <1>11
        DEF Next, HandlePacket

LEMMA InitPacketSound == Init => PacketSound
BY DEF Init, PacketSound, Idle

\* The invariant of CommandManager: types, one live copy of every callback,
\* nobody forgotten.
THEOREM Invariance == Spec => [](Inv /\ PacketSound)
<1>1. Init => Inv /\ PacketSound
  BY InitInv, InitPacketSound
<1>2. Inv /\ PacketSound /\ [Next]_vars => (Inv /\ PacketSound)'
  BY NextInv, NextPacketSound DEF Inv
<1> QED BY <1>1, <1>2, PTL DEF Spec

\* Every variable of CommandManager keeps its type.
THEOREM TypeCorrect == Spec => []TypeOK
<1>1. Inv => TypeOK
  BY DEF Inv
<1> QED BY <1>1, Invariance, PTL

\* However replies, timeouts, ticks, resets and handlers registered twice race,
\* CommandManager calls no onComplete twice.
THEOREM CalledAtMostOnce == Spec => []AtMostOnce
<1>1. Inv => AtMostOnce
  BY DEF Inv, Once, AtMostOnce
<1> QED BY <1>1, Invariance, PTL

\* CommandManager never completes a request without calling its onComplete, or
\* leaving that to a thread that has it in hand.
THEOREM NobodyIsForgotten == Spec => []NobodyForgotten
<1>1. Inv => NobodyForgotten
  BY DEF Inv, Released, Kept, NobodyForgotten
<1> QED BY <1>1, Invariance, PTL

\* Stamps are given in order, and the queue holds only what came after everything
\* that was sent.
Ordered == InOrder /\ \A r \in Reqs : stamp[r] <= clock

\* A step that sends and submits nothing keeps the order.
LEMMA OrderKept ==
    ASSUME Ordered, UNCHANGED <<stamp, clock>>,
           Pending' \subseteq Pending, Active' \subseteq Active
    PROVE  Ordered'
BY DEF Ordered, InOrder

LEMMA SubmitOrdered ==
    ASSUME Inv, Ordered, NEW t \in Users, Submit(t)
    PROVE  Ordered'
<1> DEFINE r == caller[t].req
<1>1. r \in Reqs /\ phase[r] = "submitting"
  BY DEF Inv, Submit, CallersSound
<1>2. clock' = clock + 1 /\ stamp' = [stamp EXCEPT ![r] = clock + 1]
  BY DEF Submit
<1>3. \A q \in Reqs \ {r} : stamp'[q] = stamp[q] /\ phase'[q] = phase[q]
  BY <1>1, <1>2 DEF Inv, TypeOK, Submit, Dispatch
<1>4. stamp'[r] = clock + 1 /\ stamp \in [Reqs -> Nat] /\ clock \in Nat
  BY <1>1, <1>2 DEF Inv, TypeOK
<1>5. phase'[r] \in {"capturing", "squelching"} => Pending = {}
  BY <1>1 DEF Inv, TypeOK, Submit, Dispatch
<1> HIDE DEF r
<1>6. \A q \in Reqs : stamp'[q] <= clock'
  BY <1>2, <1>3, <1>4 DEF Ordered
<1>7. ASSUME NEW p \in Pending', NEW q \in Active' PROVE stamp'[q] < stamp'[p]
  <2>1. p \in Reqs /\ q \in Reqs
        /\ phase'[p] = "pending" /\ phase'[q] \in {"capturing", "squelching"}
    BY DEF Pending, Active, Capturing, Squelching
  <2>2. CASE p = r
    BY <1>2, <1>3, <1>4, <2>1, <2>2 DEF Ordered
  <2>3. CASE p # r
    <3>1. p \in Pending
      BY <1>3, <2>1, <2>3 DEF Pending
    <3>2. q # r
      BY <1>5, <2>1, <3>1
    <3>3. q \in Active
      BY <1>3, <2>1, <3>2 DEF Active, Capturing, Squelching
    <3> QED BY <1>3, <2>1, <2>3, <3>1, <3>2, <3>3 DEF Ordered, InOrder
  <2> QED BY <2>2, <2>3
<1> QED BY <1>6, <1>7 DEF Ordered, InOrder

LEMMA TickOrdered ==
    ASSUME TypeOK, Ordered, Tick
    PROVE  Ordered'
<1> DEFINE due == IF cool THEN First(Pending) ELSE {}
<1>1. PICK sent \in SUBSET due :
        phase' = [r \in Reqs |-> IF r \in sent THEN "capturing"
                                 ELSE IF r \in (due \ sent) \cup Erased THEN "done"
                                 ELSE IF r \in Sealed \cup Over THEN "squelching"
                                 ELSE phase[r]]
  BY DEF Tick
<1>2. UNCHANGED <<stamp, clock>> /\ stamp \in [Reqs -> Nat]
  BY DEF Tick, TypeOK
<1>3. ASSUME NEW p \in Pending', NEW q \in Active' PROVE stamp[q] < stamp[p]
  <2>1. p \in Pending \ due
    BY <1>1 DEF Pending
  <2>2. q \in Reqs /\ (q \in sent \/ q \in Active)
    BY <1>1 DEF Active, Capturing, Squelching, Sealed, Over
  <2>3. CASE q \in Active
    BY <2>1, <2>3 DEF Ordered, InOrder
  <2>4. CASE q \in sent
    <3>1. cool /\ q \in First(Pending) /\ p \notin First(Pending)
      BY <2>1, <2>4
    <3>2. PICK o \in Pending : ~(stamp[p] <= stamp[o])
      BY <2>1, <3>1 DEF First
    <3>3. stamp[q] <= stamp[o]
      BY <3>1 DEF First
    <3> QED BY <1>2, <2>1, <2>2, <3>2, <3>3 DEF Pending
  <2> QED BY <2>2, <2>3, <2>4
<1> QED BY <1>2, <1>3 DEF Ordered, InOrder

LEMMA NextOrdered ==
    ASSUME Inv, Ordered, [Next]_vars
    PROVE  Ordered'
<1>1. ASSUME NEW t \in Users, Submit(t) PROVE Ordered'
  BY <1>1, SubmitOrdered
<1>2. CASE Tick
  BY <1>2, TickOrdered DEF Inv
<1>3. ASSUME NEW t \in Users, NEW r \in Reqs, Execute(t, r) PROVE Ordered'
  BY <1>3, OrderKept DEF Execute, Pending, Active, Capturing, Squelching, Inv, TypeOK
<1>4. CASE \/ \E base \in Bases : CancelPending(base)
           \/ ScanLine \/ HandleForm \/ Reset \/ Shutdown
  <2>1. UNCHANGED <<stamp, clock>>
    BY <1>4 DEF CancelPending, ScanLine, HandleForm, Reset, Shutdown
  <2>2. \A r \in Reqs : /\ phase'[r] = "pending" => r \in Pending
                        /\ phase'[r] \in {"capturing", "squelching"} => r \in Active
    BY <1>4 DEF CancelPending, ScanLine, HandleForm, Reset, Shutdown, First, Taking,
                Erring, Pending, Active, Capturing, Squelching
  <2>3. Pending' \subseteq Pending /\ Active' \subseteq Active
    BY <2>2 DEF Pending, Active, Capturing, Squelching
  <2> QED BY <2>1, <2>3, OrderKept
<1>5. CASE \/ \E t \in Users : Register(t)
           \/ \E lines \in TextPackets : ReceiveText(lines)
           \/ \E form \in Forms : ReceiveForm(form)
           \/ CheckText \/ LockText \/ NextHandler
           \/ \E t \in Threads : Fire(t)
           \/ \E r \in Reqs, timer \in Timers : Expire(r, timer)
           \/ CooldownEnds \/ UNCHANGED vars
  <2>1. UNCHANGED <<stamp, clock, phase>>
    BY <1>5 DEF Register, ReceiveText, ReceiveForm, CheckText, LockText, NextHandler,
                Fire, Expire, CooldownEnds, reqVars, vars
  <2> QED BY <2>1, OrderKept DEF Pending, Active, Capturing, Squelching
<1> QED BY <1>1, <1>2, <1>3, <1>4, <1>5 DEF Next, HandlePacket

LEMMA InitOrdered == Init => Ordered
BY DEF Init, Ordered, InOrder, Pending

\* CommandManager sends commands in the order they were submitted: whatever waits
\* in the queue was submitted after everything that is active.
THEOREM SentInOrder == Spec => []InOrder
<1>1. Inv /\ PacketSound /\ Ordered /\ [Next]_vars => Ordered'
  BY NextOrdered
<1>2. Init => Ordered
  BY InitOrdered
<1>3. Ordered => InOrder
  BY DEF Ordered
<1> QED BY <1>1, <1>2, <1>3, Invariance, PTL DEF Spec

-----------------------------------------------------------------------------
(* Answers fit. *)

\* The answer suits the request and the n lines captured for it.
Fits(r, o, n) ==
    /\ o = "Text" => n > 0 /\ Attr[r].expects # "Form"
    /\ o = "Form" => Attr[r].expects # "Text"
    /\ o \in {"Timeout", "Error"} => n = 0

Waiting == {"new", "submitting", "pending"}
Open == Waiting \cup {"capturing"}

\* Lines are captured only between sending and answering, and for no request that wants a
\* form; what is answered is not open any more.
FitInv ==
    \A r \in Reqs :
        /\ phase[r] \in Waiting => got[r] = 0
        /\ got[r] > 0 => Attr[r].expects # "Form"
        /\ phase[r] \in Open => Answers(r) = {}
        /\ \A o \in Answers(r) : Fits(r, o, got[r])

\* Requests that go on as they should, lines captured while they are open, and new answers
\* that fit.
LEMMA FitStep ==
    ASSUME FitInv,
           \A r \in Reqs :
             /\ got[r] \in Nat /\ got'[r] \in Nat /\ got'[r] >= got[r]
             /\ got'[r] # got[r] => phase[r] = "capturing" /\ Attr[r].expects # "Form"
             /\ phase'[r] \in Waiting => phase[r] \in Waiting
             /\ phase'[r] \in Open => phase[r] \in Open
             /\ \A o \in Answers(r)' :
                  o \in Answers(r) \/ (Fits(r, o, got'[r]) /\ phase'[r] \notin Open)
    PROVE  FitInv'
<1> SUFFICES ASSUME NEW r \in Reqs
             PROVE  /\ phase'[r] \in Waiting => got'[r] = 0
                    /\ got'[r] > 0 => Attr[r].expects # "Form"
                    /\ phase'[r] \in Open => Answers(r)' = {}
                    /\ \A o \in Answers(r)' : Fits(r, o, got'[r])
  BY DEF FitInv, Fits
<1>1. /\ phase[r] \in Waiting => got[r] = 0
      /\ got[r] > 0 => Attr[r].expects # "Form"
      /\ phase[r] \in Open => Answers(r) = {}
      /\ \A o \in Answers(r) : Fits(r, o, got[r])
  BY DEF FitInv
<1>2. phase'[r] \in Waiting => got'[r] = 0
  BY <1>1 DEF Waiting
<1>3. got'[r] > 0 => Attr[r].expects # "Form"
  BY <1>1
<1>4. phase'[r] \in Open => Answers(r)' = {}
  BY <1>1
<1>5. Answers(r) # {} => got'[r] = got[r]
  BY <1>1 DEF Open
<1>6. \A o \in Answers(r)' : Fits(r, o, got'[r])
  BY <1>1, <1>5
<1> QED BY <1>2, <1>3, <1>4, <1>6

\* What collecting callbacks, and calling some with an error, adds to the answers.
LEMMA OwedAnswers ==
    ASSUME TypeOK, NEW t \in Threads, NEW S \in SUBSET Reqs, NEW outcome \in [S -> Outcomes],
           Collect(t, S, outcome)
    PROVE  \A r \in Reqs, u \in Threads, o \in Outcomes : <<r, o>> \in owed'[u] =>
             <<r, o>> \in owed[u] \/ (r \in S /\ o = outcome[r])
<1>1. owed' = [owed EXCEPT ![t] = @ \cup {<<r, outcome[r]>> : r \in S \cap held}]
  BY DEF Collect
<1> QED BY <1>1 DEF TypeOK

LEMMA ToldAnswers ==
    ASSUME TypeOK, NEW F,
           told' = [r \in Reqs |-> IF r \in F THEN Append(told[r], "Error") ELSE told[r]]
    PROVE  \A r \in Reqs : \A i \in 1..Len(told'[r]) :
             \/ \E j \in 1..Len(told[r]) : told'[r][i] = told[r][j]
             \/ r \in F /\ told'[r][i] = "Error"
<1> SUFFICES ASSUME NEW r \in Reqs, NEW i \in 1..Len(told'[r])
             PROVE  \/ \E j \in 1..Len(told[r]) : told'[r][i] = told[r][j]
                    \/ r \in F /\ told'[r][i] = "Error"
  OBVIOUS
<1>1. told[r] \in Seq(Outcomes) /\ "Error" \in Outcomes
  BY DEF TypeOK, Outcomes
<1>2. CASE r \notin F
  BY <1>2
<1>3. CASE r \in F
  <2>1. told'[r] = Append(told[r], "Error")
    BY <1>3
  <2>2. /\ Len(told'[r]) = Len(told[r]) + 1 /\ Len(told[r]) \in Nat
        /\ told'[r][Len(told[r]) + 1] = "Error"
        /\ \A j \in 1..Len(told[r]) : told'[r][j] = told[r][j]
    BY <1>1, <2>1
  <2>3. i \in 1..Len(told[r]) \/ i = Len(told[r]) + 1
    BY <2>2
  <2> QED BY <1>3, <2>2, <2>3
<1> QED BY <1>2, <1>3

LEMMA GotFacts ==
    ASSUME TypeOK
    PROVE  \A r \in Reqs : LineCap \in Nat \ {0} /\ got[r] \in 0..LineCap /\ got[r] \in Nat
<1>1. \A r \in Reqs : got[r] \in 0..LineCap
  BY DEF TypeOK
<1>2. LineCap \in Nat /\ \A r \in Reqs : Attr[r].expectedLines \in Nat /\ Attr[r].expectedLines < LineCap
  BY ManagerAssumption DEF Attributes
<1>3. ASSUME NEW r \in Reqs
      PROVE  LineCap \in Nat \ {0} /\ got[r] \in 0..LineCap /\ got[r] \in Nat
  <2> DEFINE n == Attr[r].expectedLines
             g == got[r]
  <2>1. n \in Nat /\ n < LineCap /\ g \in 0..LineCap /\ LineCap \in Nat
    BY <1>1, <1>2
  <2> HIDE DEF n, g
  <2>2. LineCap \in Nat \ {0} /\ g \in 0..LineCap /\ g \in Nat
    BY <2>1
  <2> QED BY <2>2 DEF g
<1> QED BY <1>3

\* Nothing is captured, answered or reopened.
LEMMA FitKept ==
    ASSUME TypeOK, FitInv, UNCHANGED <<got, owed, told>>,
           \A r \in Reqs : /\ phase'[r] \in Waiting => phase[r] \in Waiting
                           /\ phase'[r] \in Open => phase[r] \in Open
    PROVE  FitInv'
<1>1. \A r \in Reqs : got[r] \in Nat
  BY GotFacts
<1>2. \A r \in Reqs : Answers(r)' = Answers(r)
  BY DEF Answers
<1> QED BY <1>1, <1>2, FitStep

LEMMA SubmitFits == ASSUME Inv, FitInv, NEW t \in Users, Submit(t) PROVE FitInv'
<1> DEFINE r == caller[t].req
<1>1. r \in Reqs /\ phase[r] = "submitting"
  BY DEF Inv, Submit, CallersSound
<1>2. UNCHANGED <<got, owed>>
  BY DEF Submit
<1>3. \/ UNCHANGED told /\ \E p \in {"pending", "capturing"} : phase' = [phase EXCEPT ![r] = p]
      \/ /\ phase' = [phase EXCEPT ![r] = "done"]
         /\ told' = told \/ told' = [told EXCEPT ![r] = Append(@, "Error")]
  BY DEF Submit, Dispatch
<1> HIDE DEF r
<1>4. \A q \in Reqs : got[q] \in Nat
  BY GotFacts DEF Inv
<1>5. \A q \in Reqs : /\ phase'[q] \in Waiting => phase[q] \in Waiting
                      /\ phase'[q] \in Open => phase[q] \in Open
  <2>1. \A q \in Reqs : q # r => phase'[q] = phase[q]
    BY <1>1, <1>3 DEF Inv, TypeOK
  <2> QED BY <1>1, <2>1 DEF Open, Waiting
<1>6. CASE told' = told
  BY <1>2, <1>5, <1>6, FitKept DEF Inv
<1>7. CASE /\ phase' = [phase EXCEPT ![r] = "done"]
           /\ told' = [told EXCEPT ![r] = Append(@, "Error")]
  <2> DEFINE F == {r}
  <2>1. told' = [q \in Reqs |-> IF q \in F THEN Append(told[q], "Error") ELSE told[q]]
    BY <1>1, <1>7 DEF Inv, TypeOK
  <2> HIDE DEF F
  <2>2. \A q \in Reqs : \A o \in Answers(q)' : o \in Answers(q) \/ (q \in F /\ o = "Error")
    BY <1>2, <2>1, ToldAnswers DEF Answers, Inv
  <2>3. phase'[r] = "done"
    BY <1>1, <1>7 DEF Inv, TypeOK
  <2>4. Fits(r, "Error", got'[r]) /\ phase'[r] \notin Open
    BY <1>1, <1>2, <2>3 DEF Fits, FitInv, Waiting, Open
  <2>5. \A q \in Reqs : \A o \in Answers(q)' :
          o \in Answers(q) \/ (Fits(q, o, got'[q]) /\ phase'[q] \notin Open)
    BY <2>2, <2>4 DEF F
  <2> QED BY <1>2, <1>4, <1>5, <2>5, FitStep
<1> QED BY <1>3, <1>6, <1>7

LEMMA ScanLineFits == ASSUME Inv, FitInv, ScanLine PROVE FitInv'
<1> DEFINE line == Head(net.left)
           full == {r \in Taking(line) : Enough(r, got[r] + 1)}
           done == Erring(line) \cup full
           outcome == [r \in done |-> IF r \in Erring(line) THEN "Error" ELSE "Text"]
<1>1. /\ got' = [r \in Reqs |-> IF r \in Taking(line) /\ got[r] < LineCap
                                THEN got[r] + 1 ELSE got[r]]
      /\ phase' = [r \in Reqs |-> IF r \in done THEN "squelching" ELSE phase[r]]
      /\ Collect(Net, done, outcome) /\ UNCHANGED told
  BY DEF ScanLine
<1>2. /\ \A r \in Taking(line) : phase[r] = "capturing" /\ Attr[r].expects # "Form"
      /\ \A r \in Erring(line) : got[r] = 0 /\ phase[r] = "capturing" /\ r \notin Taking(line)
      /\ done \in SUBSET Reqs /\ Net \in Threads
      /\ \A r \in done : r \in Erring(line) \/ r \in Taking(line)
      /\ \A r \in done : outcome[r] = IF r \in Erring(line) THEN "Error" ELSE "Text"
      /\ outcome \in [done -> Outcomes]
  BY DEF Taking, Erring, Capturing, Threads, Outcomes
<1> HIDE DEF line, done, outcome
<1>3. \A r \in Reqs : LineCap \in Nat \ {0} /\ got[r] \in 0..LineCap
  BY GotFacts DEF Inv
<1>4. \A r \in Reqs :
        /\ got[r] \in Nat /\ got'[r] \in Nat /\ got'[r] >= got[r]
        /\ r \in Taking(line) => got'[r] > 0
        /\ r \notin Taking(line) => got'[r] = got[r]
  BY <1>1, <1>3
<1>5. \A r \in Reqs : \A o \in Answers(r)' :
        o \in Answers(r) \/ (r \in done /\ o = outcome[r])
  <2>1. \A r \in Reqs, u \in Threads, o \in Outcomes : <<r, o>> \in owed'[u] =>
          <<r, o>> \in owed[u] \/ (r \in done /\ o = outcome[r])
    <3>1. TypeOK /\ Collect(Net, done, outcome)
      BY <1>1 DEF Inv
    <3> QED BY <1>2, <3>1, OwedAnswers
  <2> QED BY <1>1, <2>1 DEF Answers
<1>6. \A r \in done : Fits(r, outcome[r], got'[r]) /\ phase'[r] = "squelching"
  BY <1>1, <1>2, <1>4 DEF Fits
<1>7. \A r \in Reqs : /\ phase'[r] \in Waiting => phase[r] \in Waiting
                      /\ phase'[r] \in Open => phase[r] \in Open
  BY <1>1 DEF Waiting, Open
<1>8. \A r \in Reqs : \A o \in Answers(r)' :
        o \in Answers(r) \/ (Fits(r, o, got'[r]) /\ phase'[r] \notin Open)
  BY <1>5, <1>6 DEF Open, Waiting
<1>9. \A r \in Reqs : got'[r] # got[r] => phase[r] = "capturing" /\ Attr[r].expects # "Form"
  BY <1>2, <1>4
<1> QED BY <1>4, <1>7, <1>8, <1>9, FitStep

LEMMA HandleFormFits == ASSUME Inv, FitInv, HandleForm PROVE FitInv'
<1> DEFINE taker == First({r \in Capturing : Attr[r].expects # "Text"
                                             /\ MatchesForm(r, net.form)})
           outcome == [r \in taker |-> "Form"]
<1>1. /\ phase' = [r \in Reqs |-> IF r \in taker THEN "squelching" ELSE phase[r]]
      /\ Collect(Net, taker, outcome) /\ UNCHANGED <<got, told>>
  BY DEF HandleForm
<1>2. /\ taker \in SUBSET Reqs /\ Net \in Threads
      /\ \A r \in taker : Attr[r].expects # "Text" /\ outcome[r] = "Form"
      /\ outcome \in [taker -> Outcomes]
  BY DEF First, Capturing, Threads, Outcomes
<1> HIDE DEF taker, outcome
<1>3. \A r \in Reqs : got[r] \in Nat
  BY GotFacts DEF Inv
<1>4. \A r \in Reqs : \A o \in Answers(r)' :
        o \in Answers(r) \/ (r \in taker /\ o = outcome[r])
  <2>1. \A r \in Reqs, u \in Threads, o \in Outcomes : <<r, o>> \in owed'[u] =>
          <<r, o>> \in owed[u] \/ (r \in taker /\ o = outcome[r])
    <3>1. TypeOK /\ Collect(Net, taker, outcome)
      BY <1>1 DEF Inv
    <3> QED BY <1>2, <3>1, OwedAnswers
  <2> QED BY <1>1, <2>1 DEF Answers
<1>5. \A r \in taker : Fits(r, outcome[r], got'[r]) /\ phase'[r] = "squelching"
  BY <1>1, <1>2 DEF Fits
<1>6. \A r \in Reqs : /\ phase'[r] \in Waiting => phase[r] \in Waiting
                      /\ phase'[r] \in Open => phase[r] \in Open
  BY <1>1 DEF Waiting, Open
<1>7. \A r \in Reqs : \A o \in Answers(r)' :
        o \in Answers(r) \/ (Fits(r, o, got'[r]) /\ phase'[r] \notin Open)
  BY <1>4, <1>5 DEF Open, Waiting
<1> QED BY <1>1, <1>3, <1>6, <1>7, FitStep

LEMMA TickFits == ASSUME Inv, FitInv, Tick PROVE FitInv'
<1> DEFINE due == IF cool THEN First(Pending) ELSE {}
           done == Sealed \cup Over
           outcome == [r \in done |-> IF got[r] > 0 THEN "Text" ELSE "Timeout"]
<1>1. PICK sent \in SUBSET due :
        /\ phase' = [r \in Reqs |->
                       IF r \in sent THEN "capturing"
                       ELSE IF r \in (due \ sent) \cup Erased THEN "done"
                       ELSE IF r \in done THEN "squelching"
                       ELSE phase[r]]
        /\ Collect(Run, done, outcome)
        /\ told' = [r \in Reqs |-> IF r \in (due \ sent) \cap held
                                   THEN Append(told[r], "Error") ELSE told[r]]
        /\ UNCHANGED got
  BY DEF Tick
<1> DEFINE F == (due \ sent) \cap held
<1>2. /\ \A r \in due : r \in Reqs /\ phase[r] = "pending"
      /\ done \in SUBSET Reqs /\ Run \in Threads
      /\ \A r \in done : phase[r] = "capturing"
      /\ \A r \in done : outcome[r] = IF got[r] > 0 THEN "Text" ELSE "Timeout"
      /\ outcome \in [done -> Outcomes]
  BY DEF First, Pending, Sealed, Over, Capturing, Threads, Outcomes
<1>3. told' = [r \in Reqs |-> IF r \in F THEN Append(told[r], "Error") ELSE told[r]]
  BY <1>1
<1>4. \A r \in F : r \in due /\ r \notin sent
  OBVIOUS
<1> HIDE DEF due, done, outcome, F
<1>5. \A r \in Reqs : got[r] \in Nat
  BY GotFacts DEF Inv
<1>6. \A r \in Reqs : \A o \in Answers(r)' :
        \/ o \in Answers(r)
        \/ r \in done /\ o = outcome[r]
        \/ r \in F /\ o = "Error"
  <2>1. \A r \in Reqs, u \in Threads, o \in Outcomes : <<r, o>> \in owed'[u] =>
          <<r, o>> \in owed[u] \/ (r \in done /\ o = outcome[r])
    <3>1. TypeOK /\ Collect(Run, done, outcome)
      BY <1>1 DEF Inv
    <3> QED BY <1>2, <3>1, OwedAnswers
  <2>2. \A r \in Reqs : \A i \in 1..Len(told'[r]) :
          \/ \E j \in 1..Len(told[r]) : told'[r][i] = told[r][j]
          \/ r \in F /\ told'[r][i] = "Error"
    BY <1>3, ToldAnswers DEF Inv
  <2> QED BY <2>1, <2>2 DEF Answers
<1>7. \A r \in done : Fits(r, outcome[r], got'[r]) /\ phase'[r] \in {"squelching", "done"}
  <2> SUFFICES ASSUME NEW r \in done
               PROVE  Fits(r, outcome[r], got'[r]) /\ phase'[r] \in {"squelching", "done"}
    OBVIOUS
  <2>1. r \in Reqs /\ got'[r] = got[r] /\ got[r] \in Nat /\ got[r] > 0 => Attr[r].expects # "Form"
    BY <1>1, <1>2, <1>5 DEF FitInv
  <2>2. phase'[r] \in {"squelching", "done"}
    BY <1>1, <1>2
  <2> QED BY <1>1, <1>2, <1>5, <2>1, <2>2 DEF Fits
<1>8. \A r \in F : Fits(r, "Error", got'[r]) /\ phase'[r] = "done"
  BY <1>1, <1>2, <1>4 DEF Fits, FitInv, Waiting
<1>9. \A r \in Reqs : /\ phase'[r] \in Waiting => phase[r] \in Waiting
                      /\ phase'[r] \in Open => phase[r] \in Open
  BY <1>1, <1>2 DEF Waiting, Open
<1>10. \A r \in Reqs : \A o \in Answers(r)' :
         o \in Answers(r) \/ (Fits(r, o, got'[r]) /\ phase'[r] \notin Open)
  BY <1>6, <1>7, <1>8 DEF Open, Waiting
<1> QED BY <1>1, <1>5, <1>9, <1>10, FitStep

LEMMA FireFits == ASSUME Inv, FitInv, NEW t \in Threads, Fire(t) PROVE FitInv'
<1>1. PICK c \in owed[t] :
        /\ owed' = [owed EXCEPT ![t] = @ \ {c}]
        /\ told' = [told EXCEPT ![c[1]] = Append(@, c[2])]
  BY DEF Fire
<1>2. PICK q \in Reqs, p \in Outcomes : c = <<q, p>>
  BY DEF Inv, TypeOK, Calls
<1>3. UNCHANGED <<phase, got>>
  BY DEF Fire, reqVars
<1>4. told[q] = <<>> /\ <<q, p>> \in owed[t]
  BY <1>2 DEF Inv, Once
<1>5. told'[q] = <<p>> /\ \A r \in Reqs \ {q} : told'[r] = told[r]
  BY <1>1, <1>2, <1>4 DEF Inv, TypeOK
<1>6. \A u \in Threads : owed'[u] \subseteq owed[u]
  BY <1>1 DEF Inv, TypeOK
<1>7. p \in Answers(q)
  BY <1>4 DEF Answers
<1>8. \A i \in 1..Len(told'[q]) : told'[q][i] = p
  <2>1. Len(<<p>>) = 1 /\ <<p>>[1] = p
    OBVIOUS
  <2> QED BY <1>5, <2>1
<1>9. \A r \in Reqs : \A o \in Answers(r)' : o \in Answers(r)
  <2> SUFFICES ASSUME NEW r \in Reqs, NEW o \in Answers(r)'
               PROVE  o \in Answers(r)
    OBVIOUS
  <2>1. CASE \E u \in Threads : <<r, o>> \in owed'[u]
    BY <1>6, <2>1 DEF Answers
  <2>2. CASE \E i \in 1..Len(told'[r]) : told'[r][i] = o
    BY <1>5, <1>7, <1>8, <2>2 DEF Answers
  <2> QED BY <2>1, <2>2 DEF Answers
<1>10. \A r \in Reqs : got[r] \in Nat
  BY GotFacts DEF Inv
<1> QED BY <1>3, <1>9, <1>10, FitStep

LEMMA ResetFits == ASSUME Inv, FitInv, Reset PROVE FitInv'
<1> DEFINE outcome == [r \in Active |-> IF got[r] > 0 THEN "Text" ELSE "Error"]
<1>1. /\ phase' = [r \in Reqs |-> IF r \in Pending THEN "dropped"
                                  ELSE IF r \in Active THEN "done" ELSE phase[r]]
      /\ Collect(Net, Active, outcome) /\ UNCHANGED <<got, told>>
  BY DEF Reset
<1>2. /\ Active \in SUBSET Reqs /\ Net \in Threads
      /\ \A r \in Active : outcome[r] = IF got[r] > 0 THEN "Text" ELSE "Error"
      /\ outcome \in [Active -> Outcomes]
  BY DEF Active, Capturing, Squelching, Threads, Outcomes
<1> HIDE DEF outcome
<1>3. \A r \in Reqs : got[r] \in Nat
  BY GotFacts DEF Inv
<1>4. \A r \in Reqs : \A o \in Answers(r)' :
        o \in Answers(r) \/ (r \in Active /\ o = outcome[r])
  <2>1. \A r \in Reqs, u \in Threads, o \in Outcomes : <<r, o>> \in owed'[u] =>
          <<r, o>> \in owed[u] \/ (r \in Active /\ o = outcome[r])
    <3>1. TypeOK /\ Collect(Net, Active, outcome)
      BY <1>1 DEF Inv
    <3> QED BY <1>2, <3>1, OwedAnswers
  <2> QED BY <1>1, <2>1 DEF Answers
<1>5. \A r \in Active : Fits(r, outcome[r], got'[r])
  BY <1>1, <1>2, <1>3 DEF Fits, FitInv
<1>6. \A r \in Active : phase'[r] \in {"dropped", "done"}
  BY <1>1, <1>2
<1>7. \A r \in Reqs : /\ phase'[r] \in Waiting => phase[r] \in Waiting
                      /\ phase'[r] \in Open => phase[r] \in Open
  BY <1>1 DEF Waiting, Open
<1>8. \A r \in Reqs : \A o \in Answers(r)' :
        o \in Answers(r) \/ (Fits(r, o, got'[r]) /\ phase'[r] \notin Open)
  BY <1>4, <1>5, <1>6 DEF Open, Waiting
<1> QED BY <1>1, <1>3, <1>7, <1>8, FitStep

LEMMA NextFits == ASSUME Inv, FitInv, [Next]_vars PROVE FitInv'
<1>1. ASSUME NEW t \in Users, Submit(t) PROVE FitInv'
  BY <1>1, SubmitFits
<1>2. CASE ScanLine \/ HandleForm \/ Tick \/ Reset
  BY <1>2, ScanLineFits, HandleFormFits, TickFits, ResetFits
<1>3. ASSUME NEW t \in Threads, Fire(t) PROVE FitInv'
  BY <1>3, FireFits
<1>4. ASSUME NEW t \in Users, NEW r \in Reqs, Execute(t, r) PROVE FitInv'
  <2>1. UNCHANGED <<got, owed, told>> /\ phase[r] = "new"
        /\ phase' = [phase EXCEPT ![r] = "submitting"]
    BY <1>4 DEF Execute
  <2>2. \A q \in Reqs : /\ phase'[q] \in Waiting => phase[q] \in Waiting
                        /\ phase'[q] \in Open => phase[q] \in Open
    BY <2>1 DEF Inv, TypeOK, Waiting, Open
  <2> QED BY <2>1, <2>2, FitKept DEF Inv
<1>5. CASE Shutdown \/ \E base \in Bases : CancelPending(base)
  <2>1. UNCHANGED <<got, owed, told>>
    BY <1>5 DEF Shutdown, CancelPending
  <2>2. \A q \in Reqs : phase'[q] \in {"dropped", "done", phase[q]}
    BY <1>5 DEF Shutdown, CancelPending
  <2>3. \A q \in Reqs : /\ phase'[q] \in Waiting => phase[q] \in Waiting
                        /\ phase'[q] \in Open => phase[q] \in Open
    BY <2>2 DEF Waiting, Open
  <2> QED BY <2>1, <2>3, FitKept DEF Inv
<1>6. CASE \/ \E t \in Users : Register(t)
           \/ \E lines \in TextPackets : ReceiveText(lines)
           \/ \E form \in Forms : ReceiveForm(form)
           \/ CheckText \/ LockText \/ NextHandler
           \/ \E r \in Reqs, timer \in Timers : Expire(r, timer)
           \/ CooldownEnds \/ UNCHANGED vars
  <2>1. UNCHANGED <<phase, got, owed, told>>
    BY <1>6 DEF Register, ReceiveText, ReceiveForm, CheckText, LockText, NextHandler,
                Expire, CooldownEnds, reqVars, vars
  <2> QED BY <2>1, FitKept DEF Inv
<1> QED BY <1>1, <1>2, <1>3, <1>4, <1>5, <1>6 DEF Next, HandlePacket

LEMMA InitFits == Init => FitInv
<1> SUFFICES ASSUME Init PROVE FitInv
  OBVIOUS
<1>1. \A r \in Reqs : /\ got[r] = 0 /\ Len(told[r]) = 0
                      /\ \A t \in Threads : owed[t] = {}
  BY DEF Init
<1>2. \A r \in Reqs : Answers(r) = {}
  <2>1. \A r \in Reqs : \A i \in 1..Len(told[r]) : FALSE
    BY <1>1
  <2> QED BY <1>1, <2>1, Zenon DEF Answers
<1>3. \A r \in Reqs : ~(got[r] > 0)
  <2>1. ~(0 > 0)
    OBVIOUS
  <2> QED BY <1>1, <2>1, Zenon
<1> QED BY <1>1, <1>2, <1>3, Zenon DEF FitInv

\* CommandManager.cpp:334-388, 490-497, 577-611 and 644-659: whatever completes a request, its caller gets text
\* only if lines were captured and text was wanted, a form only if that was, and an error or a
\* timeout only if nothing was captured.
THEOREM AnswersFit == Spec => []FittingAnswer
<1>1. Inv /\ PacketSound /\ FitInv /\ [Next]_vars => FitInv'
  BY NextFits
<1>2. Init => FitInv
  BY InitFits
<1>3. FitInv => FittingAnswer
  <2>1. \A r \in Reqs : \A o \in Answers(r) : o \in Outcomes
    BY DEF Answers
  <2> QED BY <2>1 DEF FitInv, FittingAnswer, Fits, Suiting
<1> QED BY <1>1, <1>2, <1>3, Invariance, PTL DEF Spec

-----------------------------------------------------------------------------
(* The desk. *)

Submitted(r) == phase[r] \notin {"new", "submitting"}

\* Only a callback that was given is held, and no two requests drew the same number.
DeskInv ==
    /\ \A r \in held : Attr[r].callback
    /\ \A r, s \in Reqs : r # s /\ Submitted(r) /\ Submitted(s) => stamp[r] # stamp[s]

\* A step that submits nothing keeps the numbers.
LEMMA NumbersKept ==
    ASSUME DeskInv, held' \subseteq held, UNCHANGED stamp,
           \A r \in Reqs : Submitted(r)' => Submitted(r)
    PROVE  DeskInv'
BY DEF DeskInv

LEMMA SubmitNumbers ==
    ASSUME Inv, Ordered, DeskInv, NEW t \in Users, Submit(t)
    PROVE  DeskInv'
<1> DEFINE r == caller[t].req
<1>1. r \in Reqs /\ phase[r] = "submitting"
  BY DEF Inv, Submit, CallersSound
<1>2. clock' = clock + 1 /\ stamp' = [stamp EXCEPT ![r] = clock + 1]
  BY DEF Submit
<1>3. \A q \in Reqs \ {r} : stamp'[q] = stamp[q] /\ phase'[q] = phase[q]
  BY <1>1, <1>2 DEF Inv, TypeOK, Submit, Dispatch
<1>4. stamp'[r] = clock + 1 /\ stamp \in [Reqs -> Nat] /\ clock \in Nat
  BY <1>1, <1>2 DEF Inv, TypeOK
<1>5. held' \subseteq held
  BY DEF Submit, Dispatch
<1> HIDE DEF r
<1>6. \A q \in Reqs \ {r} : stamp'[q] < stamp'[r]
  BY <1>3, <1>4 DEF Ordered
<1>7. ASSUME NEW q \in Reqs, NEW s \in Reqs, q # s, Submitted(q)', Submitted(s)'
      PROVE  stamp'[q] # stamp'[s]
  <2>1. CASE q = r
    BY <1>3, <1>4, <1>6, <1>7, <2>1
  <2>2. CASE s = r
    BY <1>3, <1>4, <1>6, <1>7, <2>2
  <2>3. CASE q # r /\ s # r
    BY <1>3, <1>7, <2>3 DEF DeskInv, Submitted
  <2> QED BY <2>1, <2>2, <2>3
<1> QED BY <1>5, <1>7 DEF DeskInv

LEMMA NextNumbers ==
    ASSUME Inv, Ordered, DeskInv, [Next]_vars
    PROVE  DeskInv'
<1>1. ASSUME NEW t \in Users, Submit(t) PROVE DeskInv'
  BY <1>1, SubmitNumbers
<1>2. ASSUME NEW t \in Users, NEW r \in Reqs, Execute(t, r) PROVE DeskInv'
  BY <1>2, NumbersKept DEF Execute, Submitted, Inv, TypeOK
<1>3. CASE \/ \E base \in Bases : CancelPending(base)
           \/ ScanLine \/ HandleForm \/ Tick \/ Reset \/ Shutdown
  <2>1. UNCHANGED stamp /\ held' \subseteq held
    BY <1>3 DEF CancelPending, ScanLine, HandleForm, Tick, Reset, Shutdown
  <2>2. \A r \in Reqs : phase'[r] # phase[r] =>
          phase[r] \in {"pending", "capturing", "squelching"}
    <3>1. CASE \/ \E base \in Bases : CancelPending(base)
               \/ Reset \/ Shutdown
      BY <3>1 DEF CancelPending, Reset, Shutdown, Pending, Active, Capturing, Squelching
    <3>2. CASE ScanLine \/ HandleForm
      BY <3>2 DEF ScanLine, HandleForm, First, Taking, Erring, Capturing
    <3>3. CASE Tick
      BY <3>3 DEF Tick, First, Sealed, Over, Erased, Pending, Capturing, Squelching
    <3> QED BY <1>3, <3>1, <3>2, <3>3
  <2>3. \A r \in Reqs : Submitted(r)' => Submitted(r)
    BY <2>2 DEF Submitted
  <2> QED BY <2>1, <2>3, NumbersKept
<1>4. CASE \/ \E t \in Users : Register(t)
           \/ \E lines \in TextPackets : ReceiveText(lines)
           \/ \E form \in Forms : ReceiveForm(form)
           \/ CheckText \/ LockText \/ NextHandler
           \/ \E t \in Threads : Fire(t)
           \/ \E r \in Reqs, timer \in Timers : Expire(r, timer)
           \/ CooldownEnds \/ UNCHANGED vars
  <2>1. UNCHANGED <<stamp, held, phase>>
    BY <1>4 DEF Register, ReceiveText, ReceiveForm, CheckText, LockText, NextHandler,
                Fire, Expire, CooldownEnds, reqVars, vars
  <2> QED BY <2>1, NumbersKept DEF Submitted
<1> QED BY <1>1, <1>2, <1>3, <1>4 DEF Next, HandlePacket

\* The caller of a request that is open has its callback held, and was told nothing.
LEMMA OpenHeld ==
    ASSUME Inv, FitInv, DeskInv, NEW r \in Reqs, phase[r] \in Open
    PROVE  /\ r \in held <=> Attr[r].callback
           /\ Attr[r].callback => Answers(r) = {} /\ told[r] = <<>>
<1>1. Answers(r) = {}
  BY DEF FitInv
<1>2. ~IsOwed(r)
  BY <1>1 DEF IsOwed, Answers
<1>3. told[r] = <<>>
  <2>1. told[r] \in Seq(Outcomes)
    BY DEF Inv, TypeOK
  <2>2. ASSUME told[r] # <<>> PROVE FALSE
    <3>1. 1 \in 1..Len(told[r]) /\ told[r][1] \in Outcomes
      BY <2>1, <2>2
    <3> QED BY <1>1, <3>1 DEF Answers
  <2> QED BY <2>2
<1>4. phase[r] # "dropped"
  BY DEF Open, Waiting
<1> QED BY <1>1, <1>2, <1>3, <1>4 DEF Inv, Kept, DeskInv

\* Callbacks of closed requests are collected, those of failed ones called on the spot: those
\* are the answers that come, and no other changes.
LEMMA NewAnswers ==
    ASSUME TypeOK, Once, NEW t \in Threads, NEW closed \in SUBSET Reqs,
           NEW failed \in SUBSET Reqs, closed \cap failed = {},
           NEW outcome \in [closed -> Outcomes], Collect(t, closed, outcome),
           told' = [r \in Reqs |-> IF r \in failed \cap held
                                   THEN Append(told[r], "Error") ELSE told[r]]
    PROVE  \A r \in Reqs :
             /\ Answers(r)' = IF r \in failed \cap held THEN {"Error"}
                              ELSE IF r \in closed \cap held THEN {outcome[r]}
                              ELSE Answers(r)
             /\ told'[r] = IF r \in failed \cap held THEN <<"Error">> ELSE told[r]
<1> DEFINE S == closed \cap held
           F == failed \cap held
<1> SUFFICES ASSUME NEW r \in Reqs
             PROVE  /\ Answers(r)' = IF r \in F THEN {"Error"}
                                     ELSE IF r \in S THEN {outcome[r]} ELSE Answers(r)
                    /\ told'[r] = IF r \in F THEN <<"Error">> ELSE told[r]
  OBVIOUS
<1>1. \A u \in Threads, o \in Outcomes : <<r, o>> \in owed'[u] <=>
        <<r, o>> \in owed[u] \/ (u = t /\ r \in S /\ o = outcome[r])
  BY DEF TypeOK, Collect
<1> DEFINE told2 == IF r \in F THEN Append(told[r], "Error") ELSE told[r]
<1>2. /\ told'[r] = told2 /\ F \subseteq held /\ S \subseteq held /\ S \cap F = {}
      /\ r \in S => outcome[r] \in Outcomes
  OBVIOUS
<1> HIDE DEF S, F
<1>3. r \in held => /\ told[r] = <<>>
                    /\ \A u \in Threads, o \in Outcomes : <<r, o>> \notin owed[u]
  BY DEF Once
<1>4. Answers(r)' = {o \in Outcomes : \/ \E i \in 1..Len(told'[r]) : told'[r][i] = o
                                      \/ \E u \in Threads : <<r, o>> \in owed'[u]}
  BY DEF Answers
<1>5. CASE r \in F
  <2>1. told'[r] = <<"Error">> /\ Len(<<"Error">>) = 1 /\ <<"Error">>[1] = "Error"
    <3>1. told'[r] = Append(<<>>, "Error")
      BY <1>2, <1>3, <1>5
    <3>2. /\ Append(<<>>, "Error") = <<"Error">>
          /\ Len(<<"Error">>) = 1 /\ <<"Error">>[1] = "Error"
      OBVIOUS
    <3> QED BY <3>1, <3>2
  <2>2. \A u \in Threads, o \in Outcomes : <<r, o>> \notin owed'[u]
    BY <1>1, <1>2, <1>3, <1>5
  <2>3. "Error" \in Outcomes /\ \A o \in Outcomes :
          (\E i \in 1..Len(told'[r]) : told'[r][i] = o) <=> o = "Error"
    BY <2>1 DEF Outcomes
  <2>4. \A o : o \in Answers(r)' <=> o = "Error"
    BY <1>4, <2>2, <2>3
  <2> QED BY <1>5, <2>1, <2>4
<1>6. CASE r \in S
  <2>1. told'[r] = <<>> /\ Len(<<>>) = 0 /\ r \notin F /\ outcome[r] \in Outcomes
    BY <1>2, <1>3, <1>6
  <2>2. \A o \in Outcomes : (\E u \in Threads : <<r, o>> \in owed'[u]) <=> o = outcome[r]
    BY <1>1, <1>2, <1>3, <1>6
  <2>3. \A i \in 1..Len(told'[r]) : FALSE
    BY <2>1
  <2>4. Answers(r)' = {outcome[r]}
    BY <1>4, <2>1, <2>2, <2>3
  <2> QED BY <1>3, <1>6, <2>1, <2>4
<1>7. CASE r \notin S /\ r \notin F
  <2>1. told'[r] = told[r]
    BY <1>2, <1>7
  <2>2. \A u \in Threads, o \in Outcomes : <<r, o>> \in owed'[u] <=> <<r, o>> \in owed[u]
    BY <1>1, <1>7
  <2>3. Answers(r)' = Answers(r)
    BY <1>4, <2>1, <2>2 DEF Answers
  <2> QED BY <1>7, <2>1, <2>3
<1> QED BY <1>5, <1>6, <1>7

\* Where requests stand at the desk.
LEMMA DeskSets ==
    ASSUME TypeOK
    PROVE  /\ AtDesk!Waiting = Pending /\ AtDesk!Sent = Capturing
           /\ \A r \in Reqs : /\ Standing(r) = "waiting" <=> r \in Pending
                              /\ Standing(r) = "sent" <=> r \in Capturing
BY DEF AtDesk!Waiting, AtDesk!Sent, Standing, Pending, Capturing, TypeOK, Phases

LEMMA DeskQuiet ==
    ASSUME UNCHANGED <<stamp, clock, cool, told>>,
           \A r \in Reqs : Standing(r)' = Standing(r) /\ Answers(r)' = Answers(r)
    PROVE  UNCHANGED AtDesk!vars
BY DEF AtDesk!vars

LEMMA DeskMove ==
    ASSUME NEW sent, NEW failed, NEW closed, NEW choice, told' \in [Reqs -> Seq(Outcomes)],
           \A r \in Reqs :
             /\ Standing(r)' = IF r \in sent THEN "sent"
                               ELSE IF r \in failed \cup closed THEN "over"
                               ELSE Standing(r)
             /\ Answers(r)' = IF Attr[r].callback /\ r \in failed THEN {"Error"}
                              ELSE IF Attr[r].callback /\ r \in closed THEN {choice[r]}
                              ELSE Answers(r)
             /\ told'[r] = IF Attr[r].callback /\ r \in failed THEN <<"Error">>
                           ELSE told[r]
    PROVE  AtDesk!Move(sent, failed, closed, choice)
BY DEF AtDesk!Move

\* What a step does to where requests stand, and whom it tells of an error on the spot.
Stands(sent, over) ==
    \A r \in Reqs : Standing(r)' = IF r \in sent THEN "sent"
                                   ELSE IF r \in over THEN "over" ELSE Standing(r)
TellsError(S) ==
    told' = [r \in Reqs |-> IF r \in S THEN Append(told[r], "Error") ELSE told[r]]

\* A step that calls some whose turn it is, and closes some that were sent.
LEMMA DeskServe ==
    ASSUME Inv, FitInv, DeskInv, NEW t \in Threads,
           NEW called \in SUBSET Pending, NEW sent \in SUBSET called,
           NEW closed \in SUBSET Capturing, NEW outcome \in [closed -> Outcomes],
           \A r \in called : cool /\ r \in First(Pending),
           \A r \in closed : outcome[r] \in Suiting(r),
           cool' = (cool /\ called = {}), UNCHANGED <<stamp, clock>>,
           Collect(t, closed, outcome), TellsError((called \ sent) \cap held),
           told' \in [Reqs -> Seq(Outcomes)], Stands(sent, (called \ sent) \cup closed)
    PROVE  AtDesk!Serve
<1>1. AtDesk!Waiting = Pending /\ AtDesk!Sent = Capturing
  BY DeskSets DEF Inv
<1> DEFINE failed == called \ sent
<1>2. /\ closed \in SUBSET Reqs /\ failed \in SUBSET Reqs /\ closed \cap failed = {}
      /\ told' = [r \in Reqs |-> IF r \in failed \cap held
                                 THEN Append(told[r], "Error") ELSE told[r]]
      /\ TypeOK /\ Once
  BY DEF Pending, Capturing, Inv, TellsError
<1>3. \A r \in Reqs : r \in failed \cup closed => (r \in held <=> Attr[r].callback)
  BY OpenHeld DEF Pending, Capturing, Open, Waiting
<1>4. \A r \in Reqs :
        /\ Answers(r)' = IF r \in failed \cap held THEN {"Error"}
                         ELSE IF r \in closed \cap held THEN {outcome[r]}
                         ELSE Answers(r)
        /\ told'[r] = IF r \in failed \cap held THEN <<"Error">> ELSE told[r]
  <2> HIDE DEF failed
  <2> QED BY <1>2, NewAnswers
<1>5. \A r \in Reqs :
        /\ r \in failed \cap held <=> Attr[r].callback /\ r \in failed
        /\ r \in closed \cap held <=> Attr[r].callback /\ r \in closed
  BY <1>3
<1>6. AtDesk!Move(sent, failed, closed, outcome)
  BY <1>4, <1>5, DeskMove DEF Stands
<1>7. outcome \in AtDesk!Choices(closed)
  BY DEF AtDesk!Choices, Capturing
<1>8. ASSUME NEW r \in called PROVE AtDesk!Turn(r)
  <2>1. ASSUME NEW s \in Pending \ {r} PROVE stamp[r] < stamp[s]
    <3>1. stamp[r] <= stamp[s] /\ r \in Reqs /\ s \in Reqs
      BY DEF First, Pending
    <3>2. stamp[r] # stamp[s]
      BY <3>1, <2>1 DEF DeskInv, Submitted, Pending
    <3> QED BY <3>1, <3>2 DEF Inv, TypeOK
  <2> QED BY <1>1, <2>1 DEF AtDesk!Turn
<1> QED BY <1>1, <1>6, <1>7, <1>8 DEF AtDesk!Serve

LEMMA SubmitDesk ==
    ASSUME Inv, FitInv, DeskInv, NEW t \in Users, Submit(t)
    PROVE  AtDesk!Next
<1> DEFINE r == caller[t].req
<1>1. r \in Reqs /\ phase[r] = "submitting" /\ Standing(r) = "away"
  BY DEF Inv, Submit, CallersSound, Standing
<1>2. /\ clock' = clock + 1 /\ stamp' = [stamp EXCEPT ![r] = clock + 1]
      /\ UNCHANGED owed /\ AtDesk!Waiting = Pending
      /\ told' \in [Reqs -> Seq(Outcomes)] /\ Net \in Threads
  BY SubmitStep, DeskSets DEF Submit, Inv, TypeOK, Threads
<1>3. CASE Pending = {} /\ cool
  <2>1. cool' = FALSE /\ \E sent \in BOOLEAN : Dispatch(r, sent)
    BY <1>3 DEF Submit
  <2>2. CASE Dispatch(r, TRUE)
    <3>1. phase' = [phase EXCEPT ![r] = "capturing"] /\ UNCHANGED <<held, told>>
      BY <2>2 DEF Dispatch
    <3> HIDE DEF r
    <3>2. \A q \in Reqs : Standing(q)' = IF q \in {r} THEN "sent" ELSE Standing(q)
      BY <1>1, <3>1 DEF Standing, Inv, TypeOK
    <3>3. \A q \in Reqs : Answers(q)' = Answers(q) /\ told'[q] = told[q]
      BY <1>2, <3>1 DEF Answers
    <3>4. AtDesk!Move({r}, {}, {}, <<>>)
      BY <1>2, <3>2, <3>3, DeskMove
    <3> QED BY <1>1, <1>2, <1>3, <2>1, <3>4 DEF AtDesk!Next, AtDesk!Arrive
  <2>3. CASE Dispatch(r, FALSE)
    <3>1. /\ phase' = [phase EXCEPT ![r] = "done"]
          /\ told' = [q \in Reqs |-> IF q \in {r} \cap held
                                    THEN Append(told[q], "Error") ELSE told[q]]
      BY <1>1, <2>3 DEF Dispatch, Inv, TypeOK
    <3>2. r \in held <=> Attr[r].callback
      BY <1>1, OpenHeld DEF Open, Waiting
    <3> HIDE DEF r
    <3>3. \A q \in Reqs : Standing(q)' = IF q \in {r} THEN "over" ELSE Standing(q)
      BY <1>1, <3>1 DEF Standing, Inv, TypeOK
    <3>4. \A q \in Reqs :
            /\ Answers(q)' = IF q \in {r} \cap held THEN {"Error"} ELSE Answers(q)
            /\ told'[q] = IF q \in {r} \cap held THEN <<"Error">> ELSE told[q]
      <4> DEFINE closed == {}
                 failed == {r}
                 outcome == [q \in closed |-> "Error"]
      <4>1. /\ TypeOK /\ Once /\ closed \in SUBSET Reqs /\ failed \in SUBSET Reqs
            /\ closed \cap failed = {} /\ outcome \in [closed -> Outcomes]
        BY <1>1 DEF Inv
      <4>2. Collect(Net, closed, outcome)
        BY <1>2 DEF Collect, Inv, TypeOK
      <4>3. \A q \in Reqs : q \notin closed
        OBVIOUS
      <4>4. told' = [q \in Reqs |-> IF q \in failed \cap held
                                    THEN Append(told[q], "Error") ELSE told[q]]
        BY <3>1
      <4>5. failed = {r}
        OBVIOUS
      <4> HIDE DEF closed, failed, outcome
      <4>6. \A q \in Reqs :
              /\ Answers(q)' = IF q \in failed \cap held THEN {"Error"}
                               ELSE IF q \in closed \cap held THEN {outcome[q]}
                               ELSE Answers(q)
              /\ told'[q] = IF q \in failed \cap held THEN <<"Error">> ELSE told[q]
        BY <1>2, <4>1, <4>2, <4>4, NewAnswers
      <4> QED BY <4>3, <4>5, <4>6
    <3>5. \A q \in Reqs : q \in {r} \cap held <=> Attr[q].callback /\ q \in {r}
      BY <3>2
    <3>6. AtDesk!Move({}, {r}, {}, <<>>)
      BY <1>2, <3>3, <3>4, <3>5, DeskMove
    <3> QED BY <1>1, <1>2, <1>3, <2>1, <3>6 DEF AtDesk!Next, AtDesk!Arrive
  <2> QED BY <2>1, <2>2, <2>3
<1>4. CASE ~(Pending = {} /\ cool)
  <2>1. phase' = [phase EXCEPT ![r] = "pending"] /\ UNCHANGED <<held, told, cool>>
    BY <1>4 DEF Submit
  <2> HIDE DEF r
  <2>2. \A q \in Reqs : Standing(q)' = IF q = r THEN "waiting" ELSE Standing(q)
    BY <1>1, <2>1 DEF Standing, Inv, TypeOK
  <2>3. \A q \in Reqs : Answers(q)' = Answers(q)
    BY <1>2, <2>1 DEF Answers
  <2> QED BY <1>1, <1>2, <1>4, <2>1, <2>2, <2>3 DEF AtDesk!Next, AtDesk!Arrive
<1> QED BY <1>3, <1>4

\* Neither a line nor a form calls anybody.
LEMMA PacketDesk ==
    ASSUME Inv, FitInv, DeskInv, NEW closed \in SUBSET Capturing,
           NEW outcome \in [closed -> Outcomes], \A r \in closed : outcome[r] \in Suiting(r),
           Collect(Net, closed, outcome), UNCHANGED <<stamp, clock, cool, told>>,
           phase' = [r \in Reqs |-> IF r \in closed THEN "squelching" ELSE phase[r]]
    PROVE  AtDesk!Next
<1> DEFINE called == {}
           sent == {}
<1>1. /\ called \in SUBSET Pending /\ sent \in SUBSET called /\ Net \in Threads
      /\ \A r \in called : cool /\ r \in First(Pending)
      /\ cool' = (cool /\ called = {}) /\ told' \in [Reqs -> Seq(Outcomes)]
      /\ TellsError((called \ sent) \cap held)
  BY DEF Inv, TypeOK, Threads, TellsError
<1>2. Stands(sent, (called \ sent) \cup closed)
  BY DEF Standing, Capturing, Stands
<1> HIDE DEF called, sent
<1>3. AtDesk!Serve
  BY ZenonT(60), <1>1, <1>2, DeskServe
<1> QED BY <1>3 DEF AtDesk!Next

LEMMA ScanLineDesk == ASSUME Inv, FitInv, DeskInv, ScanLine PROVE AtDesk!Next
<1> DEFINE line == Head(net.left)
           full == {r \in Taking(line) : Enough(r, got[r] + 1)}
           done == Erring(line) \cup full
           outcome == [r \in done |-> IF r \in Erring(line) THEN "Error" ELSE "Text"]
<1>1. /\ phase' = [r \in Reqs |-> IF r \in done THEN "squelching" ELSE phase[r]]
      /\ Collect(Net, done, outcome) /\ UNCHANGED <<stamp, clock, cool, told>>
  BY DEF ScanLine
<1>2. /\ done \in SUBSET Capturing /\ outcome \in [done -> Outcomes]
      /\ \A r \in done : outcome[r] \in Suiting(r)
  BY DEF Taking, Erring, Capturing, Outcomes, Suiting
<1> HIDE DEF done, outcome
<1> QED BY <1>1, <1>2, PacketDesk

LEMMA HandleFormDesk == ASSUME Inv, FitInv, DeskInv, HandleForm PROVE AtDesk!Next
<1> DEFINE taker == First({r \in Capturing : Attr[r].expects # "Text"
                                             /\ MatchesForm(r, net.form)})
           outcome == [r \in taker |-> "Form"]
<1>1. /\ phase' = [r \in Reqs |-> IF r \in taker THEN "squelching" ELSE phase[r]]
      /\ Collect(Net, taker, outcome) /\ UNCHANGED <<stamp, clock, cool, told>>
  BY DEF HandleForm
<1>2. /\ taker \in SUBSET Capturing /\ outcome \in [taker -> Outcomes]
      /\ \A r \in taker : outcome[r] \in Suiting(r)
  BY DEF First, Capturing, Outcomes, Suiting
<1> HIDE DEF taker, outcome
<1> QED BY <1>1, <1>2, PacketDesk

LEMMA TickDesk == ASSUME Inv, FitInv, DeskInv, Tick PROVE AtDesk!Next
<1> DEFINE due == IF cool THEN First(Pending) ELSE {}
           done == Sealed \cup Over
           outcome == [r \in done |-> IF got[r] > 0 THEN "Text" ELSE "Timeout"]
<1>1. PICK sent \in SUBSET due :
        /\ cool' = (cool /\ due = {})
        /\ phase' = [r \in Reqs |->
                       IF r \in sent THEN "capturing"
                       ELSE IF r \in (due \ sent) \cup Erased THEN "done"
                       ELSE IF r \in done THEN "squelching"
                       ELSE phase[r]]
        /\ Collect(Run, done, outcome)
        /\ told' = [r \in Reqs |-> IF r \in (due \ sent) \cap held
                                   THEN Append(told[r], "Error") ELSE told[r]]
        /\ UNCHANGED <<stamp, clock>>
  BY DEF Tick
<1>2. /\ due \in SUBSET Pending /\ \A r \in due : cool /\ r \in First(Pending)
      /\ done \in SUBSET Capturing /\ Erased \subseteq Squelching /\ Run \in Threads
      /\ outcome \in [done -> Outcomes]
  BY DEF First, Sealed, Over, Erased, Threads, Outcomes
<1>3. \A r \in done : outcome[r] \in Suiting(r)
  BY <1>2 DEF Capturing, Suiting, FitInv, Outcomes
<1>4. told' \in [Reqs -> Seq(Outcomes)]
  BY TickStep DEF Inv, TypeOK
<1> HIDE DEF due, done, outcome
<1>5. Stands(sent, (due \ sent) \cup done)
  BY <1>1, <1>2 DEF Standing, Pending, Capturing, Squelching, Stands
<1>6. /\ Collect(Run, done, outcome) /\ UNCHANGED <<stamp, clock>>
      /\ cool' = (cool /\ due = {})
      /\ TellsError((due \ sent) \cap held)
  BY <1>1 DEF TellsError
<1>7. AtDesk!Serve
  BY ZenonT(60), <1>2, <1>3, <1>4, <1>5, <1>6, DeskServe
<1> QED BY <1>7 DEF AtDesk!Next

\* Whoever collected a callback tells what the request was closed with.
LEMMA FireDesk == ASSUME Inv, NEW t \in Threads, Fire(t) PROVE AtDesk!Next
<1>1. PICK c \in owed[t] :
        /\ owed' = [owed EXCEPT ![t] = @ \ {c}]
        /\ told' = [told EXCEPT ![c[1]] = Append(@, c[2])]
  BY DEF Fire
<1>2. PICK q \in Reqs, p \in Outcomes : c = <<q, p>>
  BY DEF Inv, TypeOK, Calls
<1>3. UNCHANGED <<phase, stamp, clock, cool>>
  BY DEF Fire, reqVars
<1>4. /\ told[q] = <<>> /\ <<q, p>> \in owed[t]
      /\ \A u \in Threads, o \in Outcomes : <<q, o>> \in owed[u] => o = p
  BY <1>2 DEF Inv, Once
<1>5. told' = [told EXCEPT ![q] = <<p>>] /\ told'[q] = <<p>>
      /\ \A r \in Reqs \ {q} : told'[r] = told[r]
  BY <1>1, <1>2, <1>4 DEF Inv, TypeOK
<1>6. \A r \in Reqs, u \in Threads, o \in Outcomes :
        <<r, o>> \in owed'[u] <=> <<r, o>> \in owed[u] /\ ~(u = t /\ r = q /\ o = p)
  BY <1>1, <1>2 DEF Inv, TypeOK
<1>7. ASSUME NEW r \in Reqs PROVE Answers(r)' = Answers(r)
  <2>1. CASE r # q
    <3>1. \A u \in Threads, o \in Outcomes : <<r, o>> \in owed'[u] <=> <<r, o>> \in owed[u]
      BY <1>6, <2>1
    <3> QED BY <1>5, <2>1, <3>1 DEF Answers
  <2>2. CASE r = q
    <3>1. \A o : o \in Answers(q) <=> o = p
      <4>1. \A i \in 1..Len(told[q]) : FALSE
        BY <1>4
      <4> QED BY <1>4, <4>1 DEF Answers
    <3>2. \A o \in Outcomes : (\E i \in 1..Len(told'[q]) : told'[q][i] = o) <=> o = p
      <4>1. Len(<<p>>) = 1 /\ <<p>>[1] = p
        OBVIOUS
      <4> QED BY <1>5, <4>1
    <3>3. \A u \in Threads, o \in Outcomes : <<q, o>> \in owed'[u] => o = p
      BY <1>4, <1>6
    <3>4. \A o : o \in Answers(q)' <=> o = p
      BY <3>2, <3>3 DEF Answers
    <3> QED BY <2>2, <3>1, <3>4
  <2> QED BY <2>1, <2>2
<1>8. p \in Answers(q)
  BY <1>4 DEF Answers
<1>9. \A r \in Reqs : Standing(r)' = Standing(r)
  BY <1>3 DEF Standing
<1>10. AtDesk!Tell(q)
  BY <1>3, <1>4, <1>5, <1>7, <1>8, <1>9 DEF AtDesk!Tell
<1> QED BY <1>10 DEF AtDesk!Next

LEMMA CancelPendingDesk ==
    ASSUME Inv, NEW base \in Bases, CancelPending(base)
    PROVE  AtDesk!Next
<1> DEFINE group == {r \in Reqs : Attr[r].base = base}
<1>1. /\ phase' = [r \in Reqs |-> IF r \in Pending /\ Attr[r].base = base
                                  THEN "dropped" ELSE phase[r]]
      /\ UNCHANGED <<stamp, clock, owed, told, cool>>
  BY DEF CancelPending
<1>2. AtDesk!Waiting = Pending
  BY DeskSets DEF Inv
<1>3. \A r \in Reqs : Standing(r)' = IF r \in Pending \cap group THEN "over" ELSE Standing(r)
  BY <1>1 DEF Standing, Pending
<1>4. \A r \in Reqs : Answers(r)' = Answers(r)
  BY <1>1 DEF Answers
<1>5. AtDesk!Withdraw(group)
  BY <1>1, <1>2, <1>3, <1>4 DEF AtDesk!Withdraw
<1> QED BY <1>5 DEF AtDesk!Next

LEMMA ResetDesk == ASSUME Inv, FitInv, DeskInv, Reset PROVE AtDesk!Next
<1> DEFINE outcome == [r \in Active |-> IF got[r] > 0 THEN "Text" ELSE "Error"]
           failed == {}
           choice == [r \in Capturing |-> outcome[r]]
<1>1. /\ phase' = [r \in Reqs |-> IF r \in Pending THEN "dropped"
                                  ELSE IF r \in Active THEN "done" ELSE phase[r]]
      /\ Collect(Net, Active, outcome) /\ cool' = TRUE /\ UNCHANGED <<stamp, clock, told>>
  BY DEF Reset
<1>2. /\ TypeOK /\ Once /\ Net \in Threads /\ Active \in SUBSET Reqs
      /\ failed \in SUBSET Reqs /\ Active \cap failed = {}
      /\ outcome \in [Active -> Outcomes]
      /\ told' = [r \in Reqs |-> IF r \in failed \cap held
                                 THEN Append(told[r], "Error") ELSE told[r]]
  BY <1>1 DEF Inv, TypeOK, Threads, Active, Capturing, Squelching, Outcomes
<1>3. \A r \in Reqs : r \notin failed
  OBVIOUS
<1>4. choice \in AtDesk!Choices(Capturing)
  <2>1. \A r \in Capturing : r \in Reqs /\ outcome[r] \in Outcomes /\ outcome[r] \in Suiting(r)
    BY DEF Active, Capturing, Outcomes, Suiting, FitInv
  <2> QED BY <2>1 DEF AtDesk!Choices
<1>5. \A r \in Capturing : choice[r] = outcome[r]
  OBVIOUS
<1> HIDE DEF outcome, failed, choice
<1>6. \A r \in Reqs : Answers(r)' = IF r \in Active \cap held THEN {outcome[r]} ELSE Answers(r)
  <2>1. \A r \in Reqs :
          /\ Answers(r)' = IF r \in failed \cap held THEN {"Error"}
                           ELSE IF r \in Active \cap held THEN {outcome[r]}
                           ELSE Answers(r)
          /\ told'[r] = IF r \in failed \cap held THEN <<"Error">> ELSE told[r]
    BY <1>1, <1>2, NewAnswers
  <2> QED BY <1>3, <2>1
<1>7. \A r \in Reqs : r \in Active \cap held <=> Attr[r].callback /\ r \in Capturing
  <2>1. \A r \in Capturing : r \in Reqs /\ (r \in held <=> Attr[r].callback)
    BY OpenHeld DEF Capturing, Open
  <2> QED BY <2>1 DEF Active, Capturing, Squelching, Inv, Released
<1>8. \A r \in Reqs : Standing(r)' = IF r \in Pending \cup Capturing THEN "over"
                                     ELSE Standing(r)
  BY <1>1 DEF Standing, Pending, Active, Capturing, Squelching
<1>9. AtDesk!Waiting = Pending /\ AtDesk!Sent = Capturing
  BY <1>2, DeskSets
<1>10. [r \in Reqs |-> Answers(r)]' =
         [r \in Reqs |-> IF r \in {s \in Reqs : Attr[s].callback} \cap Capturing
                        THEN {choice[r]} ELSE [s \in Reqs |-> Answers(s)][r]]
  BY <1>5, <1>6, <1>7
<1>11. AtDesk!Clear
  BY <1>1, <1>4, <1>8, <1>9, <1>10 DEF AtDesk!Clear
<1> QED BY <1>11 DEF AtDesk!Next

LEMMA ShutdownDesk == ASSUME Inv, Shutdown PROVE AtDesk!Next
<1>1. /\ phase' = [r \in Reqs |-> IF r \in Pending \cup (Active \cap held)
                                  THEN "dropped"
                                  ELSE IF r \in Active THEN "done" ELSE phase[r]]
      /\ cool' = TRUE /\ UNCHANGED <<stamp, clock, owed, told>>
  BY DEF Shutdown
<1>2. AtDesk!Waiting = Pending /\ AtDesk!Sent = Capturing
  BY DeskSets DEF Inv
<1>3. \A r \in Reqs : Standing(r)' = IF r \in Pending \cup Capturing THEN "over"
                                     ELSE Standing(r)
  BY <1>1 DEF Standing, Pending, Active, Capturing, Squelching
<1>4. \A r \in Reqs : Answers(r)' = Answers(r)
  BY <1>1 DEF Answers
<1>5. AtDesk!Close
  BY <1>1, <1>2, <1>3, <1>4 DEF AtDesk!Close
<1> QED BY <1>5 DEF AtDesk!Next

LEMMA NextDesk ==
    ASSUME Inv, FitInv, DeskInv, [Next]_vars
    PROVE  [AtDesk!Next]_AtDesk!vars
<1>1. ASSUME NEW t \in Users, Submit(t) PROVE AtDesk!Next
  BY <1>1, SubmitDesk
<1>2. CASE ScanLine \/ HandleForm \/ Tick \/ Reset \/ Shutdown
  BY <1>2, ScanLineDesk, HandleFormDesk, TickDesk, ResetDesk, ShutdownDesk
<1>3. ASSUME NEW t \in Threads, Fire(t) PROVE AtDesk!Next
  BY <1>3, FireDesk
<1>4. ASSUME NEW base \in Bases, CancelPending(base) PROVE AtDesk!Next
  BY <1>4, CancelPendingDesk
<1>5. CASE CooldownEnds
  <2>1. cool' = TRUE /\ UNCHANGED <<phase, stamp, clock, owed, told>>
    BY <1>5 DEF CooldownEnds, reqVars
  <2>2. AtDesk!Pause
    BY <2>1 DEF AtDesk!Pause, Standing, Answers
  <2> QED BY <2>2 DEF AtDesk!Next
<1>6. ASSUME NEW t \in Users, NEW r \in Reqs, Execute(t, r) PROVE UNCHANGED AtDesk!vars
  <2>1. /\ phase[r] = "new" /\ phase' = [phase EXCEPT ![r] = "submitting"]
        /\ UNCHANGED <<stamp, clock, cool, owed, told>>
    BY <1>6 DEF Execute
  <2>2. \A q \in Reqs : Standing(q)' = Standing(q)
    BY <2>1 DEF Standing, Inv, TypeOK
  <2>3. \A q \in Reqs : Answers(q)' = Answers(q)
    BY <2>1 DEF Answers
  <2> QED BY <2>1, <2>2, <2>3, DeskQuiet
<1>7. CASE \/ \E t \in Users : Register(t)
           \/ \E lines \in TextPackets : ReceiveText(lines)
           \/ \E form \in Forms : ReceiveForm(form)
           \/ CheckText \/ LockText \/ NextHandler
           \/ \E r \in Reqs, timer \in Timers : Expire(r, timer)
           \/ UNCHANGED vars
  <2>1. UNCHANGED <<phase, stamp, clock, cool, owed, told>>
    BY <1>7 DEF Register, ReceiveText, ReceiveForm, CheckText, LockText, NextHandler,
                Expire, reqVars, vars
  <2>2. \A q \in Reqs : Standing(q)' = Standing(q) /\ Answers(q)' = Answers(q)
    BY <2>1 DEF Standing, Answers
  <2> QED BY <2>1, <2>2, DeskQuiet
<1> QED BY <1>1, <1>2, <1>3, <1>4, <1>5, <1>6, <1>7 DEF Next, HandlePacket

LEMMA InitDesk == Init => DeskInv /\ AtDesk!Init
<1> SUFFICES ASSUME Init PROVE DeskInv /\ AtDesk!Init
  OBVIOUS
<1>1. FitInv
  BY InitFits
<1>2. \A r \in Reqs : Answers(r) = {} /\ Standing(r) = "away" /\ ~Submitted(r)
  BY <1>1 DEF Init, FitInv, Standing, Submitted, Open, Waiting
<1>3. DeskInv
  BY <1>2 DEF Init, DeskInv
<1> QED BY <1>2, <1>3 DEF Init, AtDesk!Init

\* Two containers, a queue, timers, packets and callbacks in the hands of two threads are
\* together the desk execute() promises: each request, in the order they were made, waits,
\* is sent or fails, is closed once with an answer it can have, and is told that one.
THEOREM ImplementsDesk == Spec => Serves
<1> DEFINE I == Inv /\ PacketSound /\ Ordered /\ FitInv /\ DeskInv
<1>1. Init => I /\ AtDesk!Init
  BY InitInv, InitPacketSound, InitOrdered, InitFits, InitDesk
<1>2. I /\ [Next]_vars => I' /\ [AtDesk!Next]_AtDesk!vars
  <2> SUFFICES ASSUME I, [Next]_vars PROVE I' /\ [AtDesk!Next]_AtDesk!vars
    OBVIOUS
  <2>1. Inv' /\ PacketSound'
    BY NextInv, NextPacketSound DEF Inv
  <2>2. Ordered' /\ FitInv' /\ DeskInv'
    BY NextOrdered, NextFits, NextNumbers
  <2> QED BY <2>1, <2>2, NextDesk
<1> HIDE DEF I
<1> QED BY <1>1, <1>2, PTL DEF Spec, Serves, AtDesk!Spec
=============================================================================
