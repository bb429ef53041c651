------------------------ MODULE TerminalProcessProofs ------------------------
(***************************************************************************)
(* Proofs about TerminalProcess for any number of terminals and of reads:  *)
(* what a client is sent is in order, and a connection that has shut its   *)
(* terminals down leaves no shell behind.                                  *)
(* The last part is about PtyCommands: the client's queue of commands      *)
(* implements the window, and has what FlowControlProofs proves of it.     *)
(***************************************************************************)
EXTENDS TerminalProcess, PtyCommands, FiniteSetTheorems, FunctionTheorems, TLAPS

\* The client launches once, after it has created and listened.
LaunchInTurn ==
    \A t \in Term :
        /\ client[t] \in {"new", "creating", "created", "listening"} => launch[t] = "none"
        /\ launch[t] # "none" => listen[t] = "attached"
        /\ launch[t] = "done" => supervisor[t] # "none"

\* Once the calls of the window have been joined, none of them is a launch.
LaunchJoined ==
    conn \notin {"open", "draining"} => \A t \in Term : launch[t] \in {"none", "done", "failed"}

\* A terminal is registered from its creation to the end of its process, and
\* shutdown_all takes over whatever is registered then.
AlwaysKnown ==
    /\ conn \in {"open", "draining"} => closing = {}
    /\ conn \notin {"open", "draining"} => registry = {} /\ \A t \in Term : client[t] # "creating"
    /\ \A t \in Term :
        client[t] \notin {"new", "creating"} =>
            t \in registry \cup closing \/ supervisor[t] \in {"disposing", "reaped"}

\* A shell that lives has been spawned by a launch that went on, and its
\* supervisor, if it has one yet, has not killed it.
ShellFits ==
    \A t \in Term :
        /\ launch[t] \in {"none", "validating", "spawning", "failed"} => shell[t] = "none"
        /\ shell[t] = "alive" => supervisor[t] \notin {"forgetting", "disposing", "reaped"}
        /\ HasThreads(t) /\ supervisor[t] # "reaped" => t \in running

\* What has been attached has a sink while its process and the window last.
SinksFit ==
    /\ conn # "open" => sinks = {} /\ \A t \in Term : listen[t] # "asked"
    /\ conn = "open" => \A t \in Term :
        listen[t] = "attached" /\ supervisor[t] \notin {"disposing", "reaped"} => t \in sinks

\* Nothing is sent before the ready, and nothing after the kill.
SeenFits ==
    \A t \in Term :
        /\ launch[t] \notin {"supervising", "done"} => seen[t] = << >>
        /\ conn = "open" /\ launch[t] \in {"supervising", "done"} => seen[t] # << >>
        /\ \A i \in 1..Len(seen[t]) :
            /\ seen[t][i] = "ready" <=> i = 1
            /\ seen[t][i] = "exit" =>
                i = Len(seen[t]) /\ supervisor[t] \in {"forgetting", "disposing", "reaped"}

Launching == TypeOK /\ LaunchInTurn /\ LaunchJoined /\ AlwaysKnown /\ ShellFits

-----------------------------------------------------------------------------
(* Queues of messages *)

LEMMA AppendKeeps ==
    ASSUME NEW S, NEW s \in Seq(S), NEW x \in S
    PROVE  /\ Append(s, x) \in Seq(S) /\ Append(s, x) # << >>
           /\ Len(s) \in Nat /\ Len(Append(s, x)) = Len(s) + 1
           /\ \A i \in 1..Len(s) : Append(s, x)[i] = s[i]
           /\ Append(s, x)[Len(s) + 1] = x
    OBVIOUS

\* What is behind the head of a queue stays in it.
LEMMA TailKeeps ==
    ASSUME NEW S, NEW s \in Seq(S), s # << >>
    PROVE  /\ Tail(s) \in Seq(S) /\ Head(s) \in S
           /\ \A i \in DOMAIN s : s[i] = Head(s) \/ \E j \in DOMAIN Tail(s) : Tail(s)[j] = s[i]
    <1>1. /\ Tail(s) \in Seq(S) /\ Head(s) \in S /\ Len(Tail(s)) = Len(s) - 1
          /\ DOMAIN s = 1..Len(s) /\ DOMAIN Tail(s) = 1..Len(Tail(s)) /\ Head(s) = s[1]
        OBVIOUS
    <1>2. ASSUME NEW i \in DOMAIN s, s[i] # Head(s)
          PROVE  \E j \in DOMAIN Tail(s) : Tail(s)[j] = s[i]
        <2>1. i # 1
            BY <1>1, <1>2
        <2>2. i - 1 \in DOMAIN Tail(s) /\ Tail(s)[i - 1] = s[i]
            BY <1>1, <2>1
        <2> QED
            BY <2>2
    <1> QED
        BY <1>1, <1>2

LEMMA SendKeeps ==
    ASSUME TypeOK, NEW t \in Term, NEW control \in Control, Send(t, control)
    PROVE  /\ controls' \in [Term -> Seq(Control)]
           /\ \A n \in Term : \A i \in DOMAIN controls[n] :
                i \in DOMAIN controls'[n] /\ controls'[n][i] = controls[n][i]
    <1>1. controls' = [controls EXCEPT ![t] = Append(controls[t], control)] /\ controls[t] \in Seq(Control)
        BY DEF Send, TypeOK
    <1>2. /\ Append(controls[t], control) \in Seq(Control)
          /\ DOMAIN controls[t] = 1..Len(controls[t])
          /\ DOMAIN Append(controls[t], control) = 1..Len(controls[t]) + 1
          /\ \A i \in 1..Len(controls[t]) : Append(controls[t], control)[i] = controls[t][i]
        BY <1>1
    <1>3. controls' \in [Term -> Seq(Control)]
        BY <1>1, <1>2 DEF TypeOK
    <1>4. ASSUME NEW i \in DOMAIN controls[t]
          PROVE  i \in DOMAIN controls'[t] /\ controls'[t][i] = controls[t][i]
        BY <1>1, <1>2 DEF TypeOK
    <1>5. \A n \in Term \ {t} : controls'[n] = controls[n]
        BY <1>1 DEF TypeOK
    <1> QED
        BY <1>3, <1>4, <1>5

LEMMA TakeKeeps ==
    ASSUME TypeOK, NEW t \in Term, NEW control, Received(t, control)
    PROVE  /\ controls' \in [Term -> Seq(Control)]
           /\ supervisor[t] \in {"looping", "flushing"}
           /\ \A n \in Term : \A i \in DOMAIN controls[n] :
                \/ n = t /\ controls[n][i] = control
                \/ \E j \in DOMAIN controls'[n] : controls'[n][j] = controls[n][i]
    <1>1. /\ controls' = [controls EXCEPT ![t] = Tail(controls[t])]
          /\ controls[t] \in Seq(Control) /\ controls[t] # << >> /\ Head(controls[t]) = control
          /\ supervisor[t] \in {"looping", "flushing"}
        BY DEF Received, TypeOK
    <1>2. /\ Tail(controls[t]) \in Seq(Control)
          /\ \A i \in DOMAIN controls[t] :
                controls[t][i] = control \/ \E j \in DOMAIN Tail(controls[t]) : Tail(controls[t])[j] = controls[t][i]
        BY <1>1, TailKeeps
    <1>3. controls'[t] = Tail(controls[t]) /\ \A n \in Term \ {t} : controls'[n] = controls[n]
        BY <1>1 DEF TypeOK
    <1>4. controls' \in [Term -> Seq(Control)]
        BY <1>1, <1>2 DEF TypeOK
    <1> QED
        BY <1>1, <1>2, <1>3, <1>4

LEMMA EmitKeeps ==
    ASSUME TypeOK, NEW t \in Term, NEW event \in Event, Emit(t, event)
    PROVE  /\ seen' \in [Term -> Seq(Event)]
           /\ \A n \in Term : n # t \/ t \notin sinks => seen'[n] = seen[n]
           /\ t \in sinks => seen'[t] = Append(seen[t], event)
    <1>1. CASE t \in sinks
        <2>1. seen' = [seen EXCEPT ![t] = Append(seen[t], event)] /\ Append(seen[t], event) \in Seq(Event)
            BY <1>1 DEF Emit, TypeOK
        <2> QED
            BY <1>1, <2>1 DEF TypeOK
    <1>2. CASE t \notin sinks
        BY <1>2 DEF Emit, TypeOK
    <1> QED
        BY <1>1, <1>2

-----------------------------------------------------------------------------
(* Types *)

LEMMA TypeInit == Init => TypeOK
    BY MaxDataAssumption DEF Init, TypeOK

LEMMA TypeStep == TypeOK /\ LaunchInTurn /\ [Next]_vars => TypeOK' /\ LaunchInTurn'
    <1> SUFFICES ASSUME TypeOK, LaunchInTurn, [Next]_vars PROVE TypeOK' /\ LaunchInTurn'
        OBVIOUS
    <1> USE DEF TypeOK, LaunchInTurn, Advance, Proceed, calls, channel, process, connection
    <1>1. ASSUME NEW t \in Term, Create(t) PROVE TypeOK' /\ LaunchInTurn'
        BY <1>1 DEF Create
    <1>2. ASSUME NEW t \in Term, Listen(t) PROVE TypeOK' /\ LaunchInTurn'
        BY <1>2 DEF Listen
    <1>3. ASSUME NEW t \in Term, Start(t) PROVE TypeOK' /\ LaunchInTurn'
        BY <1>3 DEF Start, Subscribed
    <1>4. ASSUME NEW t \in Term, Started(t) PROVE TypeOK' /\ LaunchInTurn'
        <2>1. PICK s \in {"open", "failed"} : client' = [client EXCEPT ![t] = s]
            BY <1>4 DEF Started
        <2>2. client[t] = "starting" /\ UNCHANGED <<calls, channel, process, seen, connection>>
            BY <1>4 DEF Started
        <2> QED
            BY <2>1, <2>2
    <1>5. ASSUME NEW t \in Term, Exited(t) PROVE TypeOK' /\ LaunchInTurn'
        BY <1>5 DEF Exited
    <1>6. ASSUME NEW t \in Term, AskShutdown(t) PROVE TypeOK' /\ LaunchInTurn'
        BY <1>6 DEF AskShutdown
    <1>7. ASSUME NEW t \in Term, Type(t) PROVE TypeOK' /\ LaunchInTurn'
        BY <1>7 DEF Type
    <1>8. ASSUME NEW t \in Term, RunCreate(t) PROVE TypeOK' /\ LaunchInTurn'
        BY <1>8 DEF RunCreate
    <1>9. ASSUME NEW t \in Term, RunListen(t) PROVE TypeOK' /\ LaunchInTurn'
        BY <1>9 DEF RunListen
    <1>10. ASSUME NEW t \in Term, RunShutdown(t) PROVE TypeOK' /\ LaunchInTurn'
        BY <1>10, SendKeeps DEF RunShutdown, Control
    <1>11. ASSUME NEW t \in Term, ShellReads(t) PROVE TypeOK' /\ LaunchInTurn'
        BY <1>11 DEF ShellReads
    <1>12. ASSUME NEW t \in Term, WriteFails(t) PROVE TypeOK' /\ LaunchInTurn'
        BY <1>12 DEF WriteFails
    <1>13. ASSUME NEW t \in Term, Validate(t) PROVE TypeOK' /\ LaunchInTurn'
        <2>1. PICK s \in {"spawning", "failed"} : launch' = [launch EXCEPT ![t] = s]
            BY <1>13 DEF Validate
        <2>2. /\ launch[t] = "validating"
              /\ UNCHANGED <<client, calls, channel, running, shell, reads, controls, supervisor, seen, connection>>
            BY <1>13 DEF Validate
        <2> QED
            BY <2>1, <2>2
    <1>14. ASSUME NEW t \in Term, Spawn(t) PROVE TypeOK' /\ LaunchInTurn'
        <2>1. /\ launch[t] = "spawning"
              /\ UNCHANGED <<client, calls, channel, running, reads, controls, supervisor, seen, connection>>
            BY <1>14 DEF Spawn
        <2>2. CASE launch' = [launch EXCEPT ![t] = "storing"] /\ shell' = [shell EXCEPT ![t] = "alive"]
            BY <2>1, <2>2
        <2>3. CASE launch' = [launch EXCEPT ![t] = "failed"] /\ UNCHANGED shell
            BY <2>1, <2>3
        <2> QED
            BY <1>14, <2>2, <2>3 DEF Spawn
    <1>15. ASSUME NEW t \in Term, Store(t) PROVE TypeOK' /\ LaunchInTurn'
        BY <1>15 DEF Store
    <1>16. ASSUME NEW t \in Term, Announce(t) PROVE TypeOK' /\ LaunchInTurn'
        BY <1>16, EmitKeeps DEF Announce, Event
    <1>17. ASSUME NEW t \in Term, Supervise(t) PROVE TypeOK' /\ LaunchInTurn'
        BY <1>17 DEF Supervise, AfterReady
    <1>18. ASSUME NEW t \in Term, Launched(t) PROVE TypeOK' /\ LaunchInTurn'
        BY <1>18 DEF Launched
    <1>19. ASSUME NEW t \in Term, Read(t) PROVE TypeOK' /\ LaunchInTurn'
        BY <1>19, SendKeeps, MaxDataAssumption DEF Read, Control
    <1>20. ASSUME NEW t \in Term, Exit(t) PROVE TypeOK' /\ LaunchInTurn'
        BY <1>20 DEF Exit
    <1>21. ASSUME NEW t \in Term, Wait(t) PROVE TypeOK' /\ LaunchInTurn'
        BY <1>21, SendKeeps DEF Wait, Control
    <1>22. ASSUME NEW t \in Term, Forward(t) PROVE TypeOK' /\ LaunchInTurn'
        BY <1>22, EmitKeeps, TakeKeeps DEF Forward, Event
    <1>23. ASSUME NEW t \in Term, NoteExit(t) PROVE TypeOK' /\ LaunchInTurn'
        <2>1. /\ controls' \in [Term -> Seq(Control)] /\ supervisor[t] # "none"
            BY <1>23, TakeKeeps DEF NoteExit
        <2>2. /\ supervisor' = [supervisor EXCEPT ![t] = "flushing"]
              /\ UNCHANGED <<client, calls, channel, launch, running, shell, reads, seen, connection>>
            BY <1>23 DEF NoteExit, OnExit
        <2> QED
            BY <2>1, <2>2
    <1>24. ASSUME NEW t \in Term, NoteShutdown(t) PROVE TypeOK' /\ LaunchInTurn'
        <2>1. /\ controls' \in [Term -> Seq(Control)] /\ supervisor[t] # "none"
            BY <1>24, TakeKeeps DEF NoteShutdown
        <2>2. /\ supervisor' = [supervisor EXCEPT ![t] = "flushing"]
              /\ UNCHANGED <<client, calls, channel, launch, running, shell, reads, seen, connection>>
            BY <1>24 DEF NoteShutdown
        <2> QED
            BY <2>1, <2>2
    <1>25. ASSUME NEW t \in Term, NoteKill(t) PROVE TypeOK' /\ LaunchInTurn'
        <2>1. /\ controls' \in [Term -> Seq(Control)] /\ supervisor[t] # "none"
            BY <1>25, TakeKeeps DEF NoteKill
        <2>2. /\ supervisor' = [supervisor EXCEPT ![t] = "killing"]
              /\ UNCHANGED <<client, calls, channel, launch, running, shell, reads, seen, connection>>
            BY <1>25 DEF NoteKill
        <2> QED
            BY <2>1, <2>2
    <1>26. ASSUME NEW t \in Term, FlushTimeout(t) PROVE TypeOK' /\ LaunchInTurn'
        BY <1>26 DEF FlushTimeout
    <1>27. ASSUME NEW t \in Term, Kill(t) PROVE TypeOK' /\ LaunchInTurn'
        BY <1>27, EmitKeeps DEF Kill, Event
    <1>28. ASSUME NEW t \in Term, Forget(t) PROVE TypeOK' /\ LaunchInTurn'
        BY <1>28 DEF Forget, Forgotten
    <1>29. ASSUME NEW t \in Term, Reap(t) PROVE TypeOK' /\ LaunchInTurn'
        BY <1>29 DEF Reap
    <1>30. CASE Close
        BY <1>30 DEF Close
    <1>31. CASE Drain
        BY <1>31 DEF Drain
    <1>32. CASE Stop
        <2>1. controls' \in [Term -> Seq(Control)]
            BY <1>32, AppendKeeps DEF Stop, Control
        <2> QED
            BY <1>32, <2>1 DEF Stop
    <1>33. CASE Reaped
        BY <1>33 DEF Reaped
    <1>34. CASE GiveUp
        BY <1>34 DEF GiveUp
    <1>35. CASE UNCHANGED vars
        BY <1>35 DEF vars
    <1> QED
        BY <1>1, <1>2, <1>3, <1>4, <1>5, <1>6, <1>7, <1>8, <1>9, <1>10, <1>11, <1>12,
           <1>13, <1>14, <1>15, <1>16, <1>17, <1>18, <1>19, <1>20, <1>21, <1>22, <1>23,
           <1>24, <1>25, <1>26, <1>27, <1>28, <1>29, <1>30, <1>31, <1>32, <1>33, <1>34,
           <1>35
        DEF Next, ClientStep, CallStep, LaunchStep, SupervisorStep

-----------------------------------------------------------------------------
(* Launches and shells *)

LEMMA ShellStep ==
    TypeOK /\ LaunchInTurn /\ ShellFits /\ [Next]_vars => ShellFits'
    <1> SUFFICES ASSUME TypeOK, LaunchInTurn, ShellFits, [Next]_vars
                 PROVE  ShellFits'
        OBVIOUS
    <1> USE DEF TypeOK, LaunchInTurn, Advance, Proceed, calls, channel, process, connection,
         ShellFits, HasThreads
    <1>1. ASSUME UNCHANGED <<launch, shell, supervisor, running>> PROVE ShellFits'
        BY <1>1
    <1>2. ASSUME NEW t \in Term,
                 \/ Create(t) \/ Listen(t) \/ Started(t) \/ Exited(t) \/ AskShutdown(t)
                 \/ Type(t)
          PROVE  ShellFits'
        BY <1>1, <1>2 DEF Create, Listen, Started, Exited, AskShutdown, Type
    <1>3. ASSUME NEW t \in Term,
                 \/ RunCreate(t) \/ RunListen(t) \/ RunShutdown(t) \/ ShellReads(t) \/ WriteFails(t)
                 \/ Read(t) \/ Forward(t)
          PROVE  ShellFits'
        BY <1>1, <1>3 DEF RunCreate, RunListen, RunShutdown, ShellReads, WriteFails, Read,
           Forward
    <1>4. ASSUME NEW t \in Term, Start(t) PROVE ShellFits'
        BY <1>4 DEF Start
    <1>5. ASSUME NEW t \in Term, Validate(t) PROVE ShellFits'
        BY <1>5 DEF Validate
    <1>6. ASSUME NEW t \in Term, Spawn(t) PROVE ShellFits'
        BY <1>6 DEF Spawn
    <1>7. ASSUME NEW t \in Term, Store(t) PROVE ShellFits'
        BY <1>7 DEF Store
    <1>8. ASSUME NEW t \in Term, Announce(t) PROVE ShellFits'
        BY <1>8 DEF Announce
    <1>9. ASSUME NEW t \in Term, Supervise(t) PROVE ShellFits'
        BY <1>9 DEF Supervise, AfterReady
    <1>10. ASSUME NEW t \in Term, Launched(t) PROVE ShellFits'
        BY <1>10 DEF Launched
    <1>11. ASSUME NEW t \in Term, Exit(t) PROVE ShellFits'
        BY <1>11 DEF Exit
    <1>12. ASSUME NEW t \in Term, Wait(t) PROVE ShellFits'
        BY <1>12 DEF Wait
    <1>13. ASSUME NEW t \in Term, NoteExit(t) PROVE ShellFits'
        BY <1>13 DEF NoteExit, Received, OnExit
    <1>14. ASSUME NEW t \in Term, NoteShutdown(t) PROVE ShellFits'
        BY <1>14 DEF NoteShutdown, Received
    <1>15. ASSUME NEW t \in Term, NoteKill(t) PROVE ShellFits'
        BY <1>15 DEF NoteKill, Received
    <1>16. ASSUME NEW t \in Term, FlushTimeout(t) PROVE ShellFits'
        BY <1>16 DEF FlushTimeout
    <1>17. ASSUME NEW t \in Term, Kill(t) PROVE ShellFits'
        BY <1>17 DEF Kill
    <1>18. ASSUME NEW t \in Term, Forget(t) PROVE ShellFits'
        BY <1>18 DEF Forget
    <1>19. ASSUME NEW t \in Term, Reap(t) PROVE ShellFits'
        BY <1>19 DEF Reap
    <1>20. CASE Close \/ Drain \/ Stop \/ Reaped \/ GiveUp
        BY <1>1, <1>20 DEF Close, Drain, Stop, Reaped, GiveUp
    <1>21. CASE UNCHANGED vars
        BY <1>1, <1>21 DEF vars
    <1> QED
        BY <1>2, <1>3, <1>4, <1>5, <1>6, <1>7, <1>8, <1>9, <1>10, <1>11, <1>12, <1>13,
           <1>14, <1>15, <1>16, <1>17, <1>18, <1>19, <1>20, <1>21
        DEF Next, ClientStep, CallStep, LaunchStep, SupervisorStep

LEMMA JoinedStep ==
    TypeOK /\ LaunchInTurn /\ LaunchJoined /\ [Next]_vars => LaunchJoined'
    <1> SUFFICES ASSUME TypeOK, LaunchInTurn, LaunchJoined, [Next]_vars
                 PROVE  LaunchJoined'
        OBVIOUS
    <1> USE DEF TypeOK, LaunchInTurn, Advance, Proceed, calls, channel, process, connection,
         LaunchJoined
    <1>1. ASSUME UNCHANGED <<launch, conn>> PROVE LaunchJoined'
        BY <1>1
    <1>2. ASSUME NEW t \in Term,
                 \/ Create(t) \/ Listen(t) \/ Started(t) \/ Exited(t) \/ AskShutdown(t)
                 \/ Type(t) \/ RunCreate(t) \/ RunListen(t) \/ RunShutdown(t) \/ ShellReads(t)
                 \/ WriteFails(t)
          PROVE  LaunchJoined'
        BY <1>1, <1>2 DEF Create, Listen, Started, Exited, AskShutdown, Type, RunCreate,
           RunListen, RunShutdown, ShellReads, WriteFails
    <1>3. ASSUME NEW t \in Term,
                 \/ Supervise(t) \/ Read(t) \/ Exit(t) \/ Wait(t) \/ Forward(t)
                 \/ NoteExit(t) \/ NoteShutdown(t) \/ NoteKill(t) \/ FlushTimeout(t) \/ Kill(t)
                 \/ Forget(t) \/ Reap(t)
          PROVE  LaunchJoined'
        BY <1>1, <1>3 DEF Supervise, Read, Exit, Wait, Forward, NoteExit, NoteShutdown,
           NoteKill, FlushTimeout, Kill, Forget, Reap
    <1>4. ASSUME NEW t \in Term, Start(t) PROVE LaunchJoined'
        BY <1>4 DEF Start
    <1>5. ASSUME NEW t \in Term, Validate(t) PROVE LaunchJoined'
        BY <1>5 DEF Validate
    <1>6. ASSUME NEW t \in Term, Spawn(t) PROVE LaunchJoined'
        BY <1>6 DEF Spawn
    <1>7. ASSUME NEW t \in Term, Store(t) PROVE LaunchJoined'
        BY <1>7 DEF Store
    <1>8. ASSUME NEW t \in Term, Announce(t) PROVE LaunchJoined'
        BY <1>8 DEF Announce
    <1>9. ASSUME NEW t \in Term, Launched(t) PROVE LaunchJoined'
        BY <1>9 DEF Launched
    <1>10. CASE Close
        BY <1>10 DEF Close
    <1>11. CASE Drain
        BY <1>11 DEF Drain, CallsJoined, InFlight
    <1>12. CASE Stop
        BY <1>12 DEF Stop
    <1>13. CASE Reaped
        BY <1>13 DEF Reaped
    <1>14. CASE GiveUp
        BY <1>14 DEF GiveUp
    <1>15. CASE UNCHANGED vars
        BY <1>1, <1>15 DEF vars
    <1> QED
        BY <1>2, <1>3, <1>4, <1>5, <1>6, <1>7, <1>8, <1>9, <1>10, <1>11, <1>12, <1>13,
           <1>14, <1>15
        DEF Next, ClientStep, CallStep, LaunchStep, SupervisorStep

LEMMA KnownStep ==
    TypeOK /\ LaunchInTurn /\ AlwaysKnown /\ [Next]_vars => AlwaysKnown'
    <1> SUFFICES ASSUME TypeOK, LaunchInTurn, AlwaysKnown, [Next]_vars
                 PROVE  AlwaysKnown'
        OBVIOUS
    <1> USE DEF TypeOK, LaunchInTurn, Advance, Proceed, calls, channel, process, connection,
         AlwaysKnown
    <1>1. ASSUME UNCHANGED <<client, registry, closing, supervisor, conn>> PROVE AlwaysKnown'
        BY <1>1
    <1>2. ASSUME NEW t \in Term,
                 \/ AskShutdown(t) \/ Type(t) \/ RunListen(t) \/ RunShutdown(t) \/ ShellReads(t)
                 \/ WriteFails(t) \/ Validate(t)
          PROVE  AlwaysKnown'
        BY <1>1, <1>2 DEF AskShutdown, Type, RunListen, RunShutdown, ShellReads, WriteFails,
           Validate
    <1>3. ASSUME NEW t \in Term,
                 \/ Spawn(t) \/ Store(t) \/ Announce(t) \/ Launched(t) \/ Read(t)
                 \/ Exit(t) \/ Wait(t) \/ Forward(t)
          PROVE  AlwaysKnown'
        BY <1>1, <1>3 DEF Spawn, Store, Announce, Launched, Read, Exit, Wait, Forward
    <1>4. ASSUME NEW t \in Term, Create(t) PROVE AlwaysKnown'
        BY <1>4 DEF Create
    <1>5. ASSUME NEW t \in Term, Listen(t) PROVE AlwaysKnown'
        BY <1>5 DEF Listen
    <1>6. ASSUME NEW t \in Term, Start(t) PROVE AlwaysKnown'
        BY <1>6 DEF Start
    <1>7. ASSUME NEW t \in Term, Started(t) PROVE AlwaysKnown'
        <2>1. PICK s \in {"open", "failed"} : client' = [client EXCEPT ![t] = s]
            BY <1>7 DEF Started
        <2>2. client[t] = "starting" /\ UNCHANGED <<registry, closing, supervisor, conn>>
            BY <1>7 DEF Started
        <2> QED
            BY <2>1, <2>2
    <1>8. ASSUME NEW t \in Term, Exited(t) PROVE AlwaysKnown'
        BY <1>8 DEF Exited
    <1>9. ASSUME NEW t \in Term, RunCreate(t) PROVE AlwaysKnown'
        BY <1>9 DEF RunCreate
    <1>10. ASSUME NEW t \in Term, Supervise(t) PROVE AlwaysKnown'
        BY <1>10 DEF Supervise, AfterReady
    <1>11. ASSUME NEW t \in Term, NoteExit(t) PROVE AlwaysKnown'
        BY <1>11 DEF NoteExit, Received, OnExit
    <1>12. ASSUME NEW t \in Term, NoteShutdown(t) PROVE AlwaysKnown'
        BY <1>12 DEF NoteShutdown, Received
    <1>13. ASSUME NEW t \in Term, NoteKill(t) PROVE AlwaysKnown'
        BY <1>13 DEF NoteKill, Received
    <1>14. ASSUME NEW t \in Term, FlushTimeout(t) PROVE AlwaysKnown'
        BY <1>14 DEF FlushTimeout
    <1>15. ASSUME NEW t \in Term, Kill(t) PROVE AlwaysKnown'
        BY <1>15 DEF Kill
    <1>16. ASSUME NEW t \in Term, Forget(t) PROVE AlwaysKnown'
        BY <1>16 DEF Forget, Forgotten
    <1>17. ASSUME NEW t \in Term, Reap(t) PROVE AlwaysKnown'
        BY <1>17 DEF Reap
    <1>18. CASE Close
        BY <1>18 DEF Close
    <1>19. CASE Drain
        BY <1>19 DEF Drain, CallsJoined, InFlight
    <1>20. CASE Stop
        BY <1>20 DEF Stop
    <1>21. CASE Reaped
        BY <1>21 DEF Reaped
    <1>22. CASE GiveUp
        BY <1>22 DEF GiveUp
    <1>23. CASE UNCHANGED vars
        BY <1>1, <1>23 DEF vars
    <1> QED
        BY <1>2, <1>3, <1>4, <1>5, <1>6, <1>7, <1>8, <1>9, <1>10, <1>11, <1>12, <1>13,
           <1>14, <1>15, <1>16, <1>17, <1>18, <1>19, <1>20, <1>21, <1>22, <1>23
        DEF Next, ClientStep, CallStep, LaunchStep, SupervisorStep

LEMMA SinksStep ==
    TypeOK /\ LaunchInTurn /\ SinksFit /\ [Next]_vars => SinksFit'
    <1> SUFFICES ASSUME TypeOK, LaunchInTurn, SinksFit, [Next]_vars
                 PROVE  SinksFit'
        OBVIOUS
    <1> USE DEF TypeOK, LaunchInTurn, Advance, Proceed, calls, channel, process, connection,
         SinksFit
    <1>1. ASSUME UNCHANGED <<listen, sinks, supervisor, conn>> PROVE SinksFit'
        BY <1>1
    <1>2. ASSUME NEW t \in Term,
                 \/ Create(t) \/ Start(t) \/ Started(t) \/ Exited(t) \/ AskShutdown(t)
                 \/ Type(t) \/ RunCreate(t) \/ RunShutdown(t) \/ ShellReads(t)
          PROVE  SinksFit'
        BY <1>1, <1>2 DEF Create, Start, Started, Exited, AskShutdown, Type, RunCreate,
           RunShutdown, ShellReads
    <1>3. ASSUME NEW t \in Term,
                 \/ WriteFails(t) \/ Validate(t) \/ Spawn(t) \/ Store(t) \/ Announce(t)
                 \/ Launched(t) \/ Read(t) \/ Exit(t) \/ Wait(t) \/ Forward(t)
          PROVE  SinksFit'
        BY <1>1, <1>3 DEF WriteFails, Validate, Spawn, Store, Announce, Launched, Read,
           Exit, Wait, Forward
    <1>4. ASSUME NEW t \in Term, Listen(t) PROVE SinksFit'
        BY <1>4 DEF Listen
    <1>5. ASSUME NEW t \in Term, RunListen(t) PROVE SinksFit'
        BY <1>5 DEF RunListen
    <1>6. ASSUME NEW t \in Term, Supervise(t) PROVE SinksFit'
        BY <1>6 DEF Supervise, AfterReady
    <1>7. ASSUME NEW t \in Term, NoteExit(t) PROVE SinksFit'
        BY <1>7 DEF NoteExit, Received, OnExit
    <1>8. ASSUME NEW t \in Term, NoteShutdown(t) PROVE SinksFit'
        BY <1>8 DEF NoteShutdown, Received
    <1>9. ASSUME NEW t \in Term, NoteKill(t) PROVE SinksFit'
        BY <1>9 DEF NoteKill, Received
    <1>10. ASSUME NEW t \in Term, FlushTimeout(t) PROVE SinksFit'
        BY <1>10 DEF FlushTimeout
    <1>11. ASSUME NEW t \in Term, Kill(t) PROVE SinksFit'
        BY <1>11 DEF Kill
    <1>12. ASSUME NEW t \in Term, Forget(t) PROVE SinksFit'
        BY <1>12 DEF Forget, Forgotten
    <1>13. ASSUME NEW t \in Term, Reap(t) PROVE SinksFit'
        BY <1>13 DEF Reap
    <1>14. CASE Close
        BY <1>14 DEF Close
    <1>15. CASE Drain
        BY <1>15 DEF Drain
    <1>16. CASE Stop
        BY <1>16 DEF Stop
    <1>17. CASE Reaped
        BY <1>17 DEF Reaped
    <1>18. CASE GiveUp
        BY <1>18 DEF GiveUp
    <1>19. CASE UNCHANGED vars
        BY <1>1, <1>19 DEF vars
    <1> QED
        BY <1>2, <1>3, <1>4, <1>5, <1>6, <1>7, <1>8, <1>9, <1>10, <1>11, <1>12, <1>13,
           <1>14, <1>15, <1>16, <1>17, <1>18, <1>19
        DEF Next, ClientStep, CallStep, LaunchStep, SupervisorStep

-----------------------------------------------------------------------------
(* What the client is sent *)

InOrder(s) == \A i \in 1..Len(s) : s[i] = "ready" <=> i = 1

LEMMA OneMore ==
    ASSUME NEW s \in Seq(Event), InOrder(s), NEW e \in {"data", "exit"}, s # << >>,
           \A i \in 1..Len(s) : s[i] # "exit"
    PROVE  /\ Append(s, e) \in Seq(Event) /\ Append(s, e) # << >> /\ InOrder(Append(s, e))
           /\ \A i \in 1..Len(Append(s, e)) : Append(s, e)[i] = "exit" => i = Len(Append(s, e))
           /\ e = "data" => \A i \in 1..Len(Append(s, e)) : Append(s, e)[i] # "exit"
    <1>1. e \in Event /\ Len(s) \in Nat /\ Len(s) # 0
        BY DEF Event
    <1>2. /\ Append(s, e) \in Seq(Event) /\ Append(s, e) # << >> /\ Len(Append(s, e)) = Len(s) + 1
          /\ \A i \in 1..Len(s) : Append(s, e)[i] = s[i]
          /\ Append(s, e)[Len(s) + 1] = e
        BY <1>1, AppendKeeps
    <1>3. \A i \in 1..Len(s) + 1 : i \in 1..Len(s) \/ i = Len(s) + 1
        BY <1>1
    <1>4. Len(s) + 1 # 1 /\ 1 \in 1..Len(s)
        BY <1>1
    <1> QED
        BY <1>2, <1>3, <1>4 DEF InOrder

LEMMA SeenStep ==
    TypeOK /\ LaunchInTurn /\ SinksFit /\ SeenFits /\ [Next]_vars => SeenFits'
    <1> SUFFICES ASSUME TypeOK, LaunchInTurn, SinksFit, SeenFits, [Next]_vars
                 PROVE  SeenFits'
        OBVIOUS
    <1> USE DEF TypeOK, LaunchInTurn, Advance, Proceed, calls, channel, process, connection,
         SeenFits
    <1>1. ASSUME UNCHANGED <<seen, launch, conn, supervisor>> PROVE SeenFits'
        BY <1>1
    <1>2. ASSUME NEW t \in Term,
                 \/ Create(t) \/ Listen(t) \/ Started(t) \/ Exited(t) \/ AskShutdown(t)
                 \/ Type(t) \/ RunCreate(t)
          PROVE  SeenFits'
        BY <1>1, <1>2 DEF Create, Listen, Started, Exited, AskShutdown, Type, RunCreate
    <1>3. ASSUME NEW t \in Term,
                 \/ RunListen(t) \/ RunShutdown(t) \/ ShellReads(t) \/ WriteFails(t) \/ Read(t)
                 \/ Exit(t) \/ Wait(t)
          PROVE  SeenFits'
        BY <1>1, <1>3 DEF RunListen, RunShutdown, ShellReads, WriteFails, Read, Exit, Wait
    <1>4. ASSUME NEW t \in Term, Start(t) PROVE SeenFits'
        BY <1>4 DEF Start
    <1>5. ASSUME NEW t \in Term, Validate(t) PROVE SeenFits'
        <2>1. PICK s \in {"spawning", "failed"} : launch' = [launch EXCEPT ![t] = s]
            BY <1>5 DEF Validate
        <2>2. /\ launch[t] \in {"validating", "spawning"} /\ UNCHANGED <<seen, conn, supervisor>>
            BY <1>5 DEF Validate
        <2> QED
            BY <2>1, <2>2
    <1>6. ASSUME NEW t \in Term, Spawn(t) PROVE SeenFits'
        <2>1. PICK s \in {"storing", "failed"} : launch' = [launch EXCEPT ![t] = s]
            BY <1>6 DEF Spawn
        <2>2. /\ launch[t] \in {"validating", "spawning"} /\ UNCHANGED <<seen, conn, supervisor>>
            BY <1>6 DEF Spawn
        <2> QED
            BY <2>1, <2>2
    <1>7. ASSUME NEW t \in Term, Store(t) PROVE SeenFits'
        BY <1>7 DEF Store
    <1>8. ASSUME NEW t \in Term, Announce(t) PROVE SeenFits'
        <2>1. /\ launch[t] = "announcing" /\ UNCHANGED <<conn, supervisor>>
              /\ launch' = [launch EXCEPT ![t] = "supervising"]
            BY <1>8 DEF Announce
        <2>2. /\ \A n \in Term : n # t \/ t \notin sinks => seen'[n] = seen[n]
              /\ t \in sinks => seen'[t] = Append(seen[t], "ready")
            BY <1>8, EmitKeeps DEF Announce, Event
        <2>3. seen[t] = << >> /\ (conn = "open" => t \in sinks)
            BY <2>1 DEF SinksFit
        <2>4. CASE t \notin sinks
            BY <2>1, <2>2, <2>3, <2>4
        <2>5. CASE t \in sinks
            <3>1. seen'[t] = <<"ready">>
                BY <2>2, <2>3, <2>5
            <3>2. /\ seen'[t] # << >> /\ Len(seen'[t]) = 1
                  /\ \A i \in 1..Len(seen'[t]) : i = 1 /\ seen'[t][i] = "ready"
                BY <3>1
            <3> QED
                BY <2>1, <2>2, <3>2
        <2> QED
            BY <2>4, <2>5
    <1>9. ASSUME NEW t \in Term, Supervise(t) PROVE SeenFits'
        BY <1>9 DEF Supervise, AfterReady
    <1>10. ASSUME NEW t \in Term, Launched(t) PROVE SeenFits'
        BY <1>10 DEF Launched
    <1>11. ASSUME NEW t \in Term, Forward(t) PROVE SeenFits'
        <2>1. /\ supervisor[t] \in {"looping", "flushing"} /\ UNCHANGED <<launch, conn>>
              /\ supervisor' = supervisor /\ launch[t] \in {"supervising", "done"}
            BY <1>11 DEF Forward, Received
        <2>2. /\ \A n \in Term : n # t \/ t \notin sinks => seen'[n] = seen[n]
              /\ t \in sinks => seen'[t] = Append(seen[t], "data")
            BY <1>11, EmitKeeps DEF Forward, Event
        <2>3. \A n \in Term \ {t} : supervisor'[n] = supervisor[n]
            BY <2>1
        <2>4. CASE t \notin sinks
            BY <2>1, <2>2, <2>4
        <2>5. CASE t \in sinks
            <3>1. conn = "open" /\ seen[t] # << >> /\ \A i \in 1..Len(seen[t]) : seen[t][i] # "exit"
                BY <2>1, <2>5 DEF SinksFit
            <3>2. seen[t] \in Seq(Event) /\ InOrder(seen[t])
                BY DEF InOrder
            <3> DEFINE s == Append(seen[t], "data")
            <3>3. s # << >> /\ InOrder(s) /\ \A i \in 1..Len(s) : s[i] # "exit"
                BY <3>1, <3>2, OneMore
            <3> HIDE DEF s
            <3>4. seen'[t] = s
                BY <2>2, <2>5 DEF s
            <3> QED
                BY <2>1, <2>2, <2>3, <3>1, <3>3, <3>4 DEF InOrder
        <2> QED
            BY <2>4, <2>5
    <1>12. ASSUME NEW t \in Term, NoteExit(t) PROVE SeenFits'
        BY <1>12 DEF NoteExit, Received, OnExit
    <1>13. ASSUME NEW t \in Term, NoteShutdown(t) PROVE SeenFits'
        BY <1>13 DEF NoteShutdown, Received
    <1>14. ASSUME NEW t \in Term, NoteKill(t) PROVE SeenFits'
        BY <1>14 DEF NoteKill, Received
    <1>15. ASSUME NEW t \in Term, FlushTimeout(t) PROVE SeenFits'
        BY <1>15 DEF FlushTimeout
    <1>16. ASSUME NEW t \in Term, Kill(t) PROVE SeenFits'
        <2>1. /\ supervisor[t] \in {"killing"} /\ UNCHANGED <<launch, conn>>
              /\ supervisor' = [supervisor EXCEPT ![t] = "forgetting"] /\ launch[t] \in {"supervising", "done"}
            BY <1>16 DEF Kill
        <2>2. /\ \A n \in Term : n # t \/ t \notin sinks => seen'[n] = seen[n]
              /\ t \in sinks => seen'[t] = Append(seen[t], "exit")
            BY <1>16, EmitKeeps DEF Kill, Event
        <2>3. \A n \in Term \ {t} : supervisor'[n] = supervisor[n]
            BY <2>1
        <2>4. CASE t \notin sinks
            BY <2>1, <2>2, <2>4
        <2>5. CASE t \in sinks
            <3>1. conn = "open" /\ seen[t] # << >> /\ \A i \in 1..Len(seen[t]) : seen[t][i] # "exit"
                BY <2>1, <2>5 DEF SinksFit
            <3>2. seen[t] \in Seq(Event) /\ InOrder(seen[t])
                BY DEF InOrder
            <3> DEFINE s == Append(seen[t], "exit")
            <3>3. s # << >> /\ InOrder(s) /\ \A i \in 1..Len(s) : s[i] = "exit" => i = Len(s)
                BY <3>1, <3>2, OneMore
            <3> HIDE DEF s
            <3>4. seen'[t] = s
                BY <2>2, <2>5 DEF s
            <3> QED
                BY <2>1, <2>2, <2>3, <3>1, <3>3, <3>4 DEF InOrder
        <2> QED
            BY <2>4, <2>5
    <1>17. ASSUME NEW t \in Term, Forget(t) PROVE SeenFits'
        BY <1>17 DEF Forget, Forgotten
    <1>18. ASSUME NEW t \in Term, Reap(t) PROVE SeenFits'
        BY <1>18 DEF Reap
    <1>19. CASE Close
        BY <1>19 DEF Close
    <1>20. CASE Drain
        BY <1>20 DEF Drain
    <1>21. CASE Stop
        BY <1>21 DEF Stop
    <1>22. CASE Reaped
        BY <1>22 DEF Reaped
    <1>23. CASE GiveUp
        BY <1>23 DEF GiveUp
    <1>24. CASE UNCHANGED vars
        BY <1>1, <1>24 DEF vars
    <1> QED
        BY <1>2, <1>3, <1>4, <1>5, <1>6, <1>7, <1>8, <1>9, <1>10, <1>11, <1>12, <1>13,
           <1>14, <1>15, <1>16, <1>17, <1>18, <1>19, <1>20, <1>21, <1>22, <1>23, <1>24
        DEF Next, ClientStep, CallStep, LaunchStep, SupervisorStep

-----------------------------------------------------------------------------
(* Shells *)

\* A shell that lives is supervised once its launch is over, and its supervisor
\* has not come to its end.
LEMMA AliveIsRun ==
    ASSUME TypeOK, LaunchInTurn, ShellFits, NEW t \in Term, shell[t] = "alive"
    PROVE  /\ launch[t] \in {"storing", "announcing", "supervising", "done"}
           /\ launch[t] = "done" => t \in running /\ supervisor[t] \in {"looping", "flushing", "killing"}
           /\ client[t] \notin {"new", "creating"}
    BY DEF TypeOK, LaunchInTurn, ShellFits, HasThreads

\* Who has been told to go is still told while nothing is taken from its queue.
LEMMA StillTold ==
    ASSUME NEW t \in Term, ToldToGo(t),
           supervisor[t] \in {"flushing", "killing"} => supervisor'[t] \in {"flushing", "killing"},
           \A i \in DOMAIN controls[t] :
               controls[t][i] = "kill" => \E j \in DOMAIN controls'[t] : controls'[t][j] = "kill"
    PROVE  ToldToGo(t)'
    BY DEF ToldToGo

LEMMA ShellLeftStep ==
    Launching /\ NoShellLeft /\ [Next]_vars => NoShellLeft'
    <1> SUFFICES ASSUME Launching, NoShellLeft, [Next]_vars
                 PROVE  NoShellLeft'
        OBVIOUS
    <1> USE DEF Launching, TypeOK, NoShellLeft, Advance, Proceed, calls, channel, process,
         connection
    <1>1. ASSUME UNCHANGED <<shell, supervisor, controls, conn>> PROVE NoShellLeft'
        BY <1>1 DEF ToldToGo
    <1>2. ASSUME NEW t \in Term,
                 \/ Create(t) \/ Listen(t) \/ Start(t) \/ Started(t) \/ Exited(t)
                 \/ AskShutdown(t) \/ Type(t)
          PROVE  NoShellLeft'
        BY <1>1, <1>2 DEF Create, Listen, Start, Started, Exited, AskShutdown, Type
    <1>3. ASSUME NEW t \in Term,
                 \/ RunCreate(t) \/ RunListen(t) \/ ShellReads(t) \/ WriteFails(t) \/ Validate(t)
                 \/ Store(t) \/ Announce(t) \/ Launched(t)
          PROVE  NoShellLeft'
        BY <1>1, <1>3 DEF RunCreate, RunListen, ShellReads, WriteFails, Validate, Store,
           Announce, Launched
    <1>4. ASSUME NEW t \in Term, RunShutdown(t) PROVE NoShellLeft'
        <2>1. CASE UNCHANGED controls
            BY <1>1, <1>4, <2>1 DEF RunShutdown
        <2>2. CASE \E control \in Control : Send(t, control)
            <3>1. \A n \in Term : ToldToGo(n) => ToldToGo(n)'
                BY <1>4, <2>2, SendKeeps, StillTold DEF RunShutdown
            <3> QED
                BY <1>4, <3>1 DEF RunShutdown
        <2> QED
            BY <1>4, <2>1, <2>2 DEF RunShutdown, Control
    <1>5. ASSUME NEW t \in Term, Spawn(t) PROVE NoShellLeft'
        BY <1>5 DEF Spawn, LaunchJoined
    <1>6. ASSUME NEW t \in Term, Supervise(t) PROVE NoShellLeft'
        BY <1>6 DEF Supervise, LaunchJoined, AfterReady
    <1>7. ASSUME NEW t \in Term, Read(t) PROVE NoShellLeft'
        <2>1. PICK control \in Control : Send(t, control)
            BY <1>7 DEF Read, Control
        <2>2. UNCHANGED <<supervisor, conn>> /\ \A n \in Term : shell'[n] = "alive" => shell[n] = "alive"
            BY <1>7 DEF Read
        <2>3. \A n \in Term : ToldToGo(n) => ToldToGo(n)'
            BY <2>1, <2>2, SendKeeps, StillTold
        <2> QED
            BY <2>2, <2>3
    <1>8. ASSUME NEW t \in Term, Exit(t) PROVE NoShellLeft'
        BY <1>8 DEF Exit, ToldToGo
    <1>9. ASSUME NEW t \in Term, Wait(t) PROVE NoShellLeft'
        <2>1. PICK control \in Control : Send(t, control)
            BY <1>9 DEF Wait, Control
        <2>2. UNCHANGED <<supervisor, conn>> /\ \A n \in Term : shell'[n] = "alive" => shell[n] = "alive"
            BY <1>9 DEF Wait
        <2>3. \A n \in Term : ToldToGo(n) => ToldToGo(n)'
            BY <2>1, <2>2, SendKeeps, StillTold
        <2> QED
            BY <2>2, <2>3
    <1>10. ASSUME NEW t \in Term, Forward(t) PROVE NoShellLeft'
        <2>1. Received(t, "data") /\ UNCHANGED <<shell, supervisor, conn>>
            BY <1>10 DEF Forward
        <2>2. \A n \in Term : ToldToGo(n) => ToldToGo(n)'
            <3>1. ASSUME NEW n \in Term, NEW i \in DOMAIN controls[n], controls[n][i] = "kill"
                  PROVE  \E j \in DOMAIN controls'[n] : controls'[n][j] = "kill"
                <4>1. \/ n = t /\ controls[n][i] = "data"
                      \/ \E j \in DOMAIN controls'[n] : controls'[n][j] = controls[n][i]
                    BY <2>1, TakeKeeps
                <4> QED
                    BY <3>1, <4>1
            <3> QED
                BY <2>1, <3>1, StillTold
        <2> QED
            BY <2>1, <2>2
    <1>11. ASSUME NEW t \in Term, NoteExit(t) PROVE NoShellLeft'
        <2>1. PICK control \in {"exit"} : Received(t, control)
            BY <1>11 DEF NoteExit
        <2>2. /\ UNCHANGED <<shell, conn>>
              /\ supervisor' = [supervisor EXCEPT ![t] = "flushing"]
            BY <1>11 DEF NoteExit, OnExit
        <2>3. \A n \in Term \ {t} : ToldToGo(n) => ToldToGo(n)'
            BY <2>1, <2>2, TakeKeeps, StillTold
        <2>4. ToldToGo(t)'
            BY <2>2 DEF ToldToGo
        <2> QED
            BY <2>2, <2>3, <2>4
    <1>12. ASSUME NEW t \in Term, NoteShutdown(t) PROVE NoShellLeft'
        <2>1. PICK control \in {"shutdown", "kill"} : Received(t, control)
            BY <1>12 DEF NoteShutdown
        <2>2. /\ UNCHANGED <<shell, conn>>
              /\ supervisor' = [supervisor EXCEPT ![t] = "flushing"]
            BY <1>12 DEF NoteShutdown
        <2>3. \A n \in Term \ {t} : ToldToGo(n) => ToldToGo(n)'
            BY <2>1, <2>2, TakeKeeps, StillTold
        <2>4. ToldToGo(t)'
            BY <2>2 DEF ToldToGo
        <2> QED
            BY <2>2, <2>3, <2>4
    <1>13. ASSUME NEW t \in Term, NoteKill(t) PROVE NoShellLeft'
        <2>1. PICK control \in {"kill"} : Received(t, control)
            BY <1>13 DEF NoteKill
        <2>2. /\ UNCHANGED <<shell, conn>>
              /\ supervisor' = [supervisor EXCEPT ![t] = "killing"]
            BY <1>13 DEF NoteKill
        <2>3. \A n \in Term \ {t} : ToldToGo(n) => ToldToGo(n)'
            BY <2>1, <2>2, TakeKeeps, StillTold
        <2>4. ToldToGo(t)'
            BY <2>2 DEF ToldToGo
        <2> QED
            BY <2>2, <2>3, <2>4
    <1>14. ASSUME NEW t \in Term, FlushTimeout(t) PROVE NoShellLeft'
        BY <1>14 DEF FlushTimeout, ToldToGo
    <1>15. ASSUME NEW t \in Term, Kill(t) PROVE NoShellLeft'
        BY <1>15 DEF Kill, ToldToGo
    <1>16. ASSUME NEW t \in Term, Forget(t) PROVE NoShellLeft'
        <2>1. shell[t] # "alive" /\ UNCHANGED <<shell, controls, conn>>
            BY <1>16 DEF Forget, ShellFits
        <2>2. \A n \in Term \ {t} : ToldToGo(n) => ToldToGo(n)'
            BY <1>16 DEF Forget, ToldToGo
        <2> QED
            BY <2>1, <2>2
    <1>17. ASSUME NEW t \in Term, Reap(t) PROVE NoShellLeft'
        <2>1. shell[t] # "alive" /\ UNCHANGED <<shell, controls, conn>>
            BY <1>17 DEF Reap, ShellFits
        <2>2. \A n \in Term \ {t} : ToldToGo(n) => ToldToGo(n)'
            BY <1>17 DEF Reap, ToldToGo
        <2> QED
            BY <2>1, <2>2
    <1>18. CASE Close
        BY <1>18 DEF Close
    <1>19. CASE Drain
        BY <1>19 DEF Drain
    <1>20. CASE Stop
        <2>0. conn' = "reaping" /\ UNCHANGED shell
            BY <1>20 DEF Stop
        <2>1. SUFFICES ASSUME NEW t \in Term, shell[t] = "alive" PROVE ToldToGo(t)'
            <3>1. (\A t \in Term : shell'[t] = "alive" => ToldToGo(t)') => NoShellLeft'
                BY <2>0
            <3> QED
                BY <2>0, <3>1
        <2>2. launch[t] = "done" /\ t \in closing /\ t \in running
            BY <1>20, <2>1, AliveIsRun DEF Stop, LaunchJoined, AlwaysKnown
        <2>3. controls'[t] = Append(controls[t], "kill") /\ controls[t] \in Seq(Control)
            BY <1>20, <2>2 DEF Stop, Asked
        <2>4. Len(controls[t]) + 1 \in DOMAIN controls'[t] /\ controls'[t][Len(controls[t]) + 1] = "kill"
            BY <2>3
        <2> QED
            BY <2>4 DEF ToldToGo
    <1>21. CASE Reaped
        <2>0. conn' = "closed" /\ UNCHANGED shell
            BY <1>21 DEF Reaped
        <2>1. SUFFICES ASSUME NEW t \in Term, shell[t] = "alive" PROVE FALSE
            <3>1. (\A t \in Term : shell'[t] # "alive") => NoShellLeft'
                BY <2>0
            <3> QED
                BY <2>0, <3>1
        <2>2. launch[t] = "done" /\ t \in closing
            BY <1>21, <2>1, AliveIsRun DEF Reaped, LaunchJoined, AlwaysKnown
        <2> QED
            BY <1>21, <2>1, <2>2, AliveIsRun DEF Reaped, NothingToReap
    <1>22. CASE GiveUp
        BY <1>22 DEF GiveUp, ToldToGo
    <1>23. CASE UNCHANGED vars
        BY <1>1, <1>23 DEF vars
    <1> QED
        BY <1>2, <1>3, <1>4, <1>5, <1>6, <1>7, <1>8, <1>9, <1>10, <1>11, <1>12, <1>13,
           <1>14, <1>15, <1>16, <1>17, <1>18, <1>19, <1>20, <1>21, <1>22, <1>23
        DEF Next, ClientStep, CallStep, LaunchStep, SupervisorStep

-----------------------------------------------------------------------------
(* Theorems *)

Telling == SinksFit /\ SeenFits

LEMMA Invariant == Spec => [](Launching /\ Telling /\ NoShellLeft)
    <1>1. Init => Launching /\ Telling /\ NoShellLeft
        <2> SUFFICES ASSUME Init PROVE Launching /\ Telling /\ NoShellLeft
            OBVIOUS
        <2>1. TypeOK
            BY TypeInit
        <2>2. LaunchInTurn /\ LaunchJoined /\ AlwaysKnown /\ ShellFits /\ NoShellLeft
            BY DEF Init, LaunchInTurn, LaunchJoined, AlwaysKnown, ShellFits, HasThreads, NoShellLeft
        <2>3. SinksFit /\ SeenFits
            BY DEF Init, SinksFit, SeenFits
        <2> QED
            BY <2>1, <2>2, <2>3 DEF Launching, Telling
    <1>2. Launching /\ Telling /\ NoShellLeft /\ [Next]_vars => (Launching /\ Telling /\ NoShellLeft)'
        BY TypeStep, ShellStep, JoinedStep, KnownStep, SinksStep, SeenStep, ShellLeftStep
        DEF Launching, Telling
    <1> QED
        BY <1>1, <1>2, PTL DEF Spec

\* Type correctness for any number of terminals: a terminal has a supervisor only
\* once its launch has announced the process (setup_pty_process, process.rs).
THEOREM TypeCorrect == Spec => []TypeOK
    <1>1. Launching => TypeOK
        BY DEF Launching
    <1> QED
        BY <1>1, Invariant, PTL

\* What a client is sent of a terminal starts with its `onProcessReady`, once,
\* and nothing follows its `onProcessExit`, although the launch, the reader and
\* the waiter all race to the supervisor's queue (supervise and kill,
\* process.rs; PtyState::emit, channels/pty.rs).
THEOREM ClientIsSentInOrder == Spec => []ReadyFirstExitLast
    <1>1. Telling => ReadyFirstExitLast
        BY DEF Telling, SeenFits, ReadyFirstExitLast
    <1> QED
        BY <1>1, Invariant, PTL

\* A connection that has shut its terminals down leaves no shell behind, and one
\* that still waits for them, or has given up, has told every shell to go: also
\* a shell that was still being launched when the window went (Connection::close,
\* rpc.rs; shutdown_all, registry.rs).
THEOREM EveryShellIsTold == Spec => []NoShellLeft
    BY Invariant, PTL

-----------------------------------------------------------------------------
(* The client's queue of commands implements the window (PtyCommands).  The  *)
(* acknowledgements on their way are those in the queue, AckSize for each,   *)
(* so the refinement comes down to counting the commands of a kind.          *)

\* What FlowControlProofs proves of the window, at the queue's acknowledgements.
Window == INSTANCE FlowControlProofs WITH
    acking <- AckSize * Count("ack"),
    clearing <- Count("clear")

\* What FlowControlProofs assumes of the constants.
LEMMA WindowAssumptions ==
    /\ MaxReplays \in Nat /\ ReadSize \in Nat \ {0}
    /\ AckSize \in Nat \ {0} /\ Low \in Nat /\ High \in Nat
    /\ AckSize <= Low /\ Low <= High
BY ThresholdAssumption, ReadSizeAssumption, MaxReplaysAssumption

Places(s, command) == {i \in 1..Len(s) : s[i] = command}

LEMMA CountsPlaces ==
    ASSUME NEW CONSTANT command
    PROVE  /\ Count(command) = Cardinality(Places(queue, command))
           /\ Count(command)' = Cardinality(Places(queue', command))
BY DEF Count, Places

LEMMA PlacesFinite ==
    ASSUME NEW S, NEW s \in Seq(S), NEW command
    PROVE  IsFiniteSet(Places(s, command)) /\ Cardinality(Places(s, command)) \in Nat
<1>1. IsFiniteSet(1..Len(s))
    BY FS_Interval
<1>2. Places(s, command) \in SUBSET (1..Len(s))
    BY DEF Places
<1>3. IsFiniteSet(Places(s, command))
    BY <1>1, <1>2, FS_Subset
<1> QED  BY <1>3, FS_CardinalityType

LEMMA PlacesAppended ==
    ASSUME NEW S, NEW s \in Seq(S), NEW e \in S, NEW command
    PROVE  Cardinality(Places(Append(s, e), command)) =
                Cardinality(Places(s, command)) + (IF e = command THEN 1 ELSE 0)
<1>1. PICK n \in Nat : n = Len(s)
    OBVIOUS
<1>2. /\ Len(Append(s, e)) = n + 1 /\ Append(s, e)[n + 1] = e
      /\ \A i \in 1..n : Append(s, e)[i] = s[i]
    BY <1>1
<1>3. n + 1 \notin Places(s, command)
    BY <1>1 DEF Places
<1>4. CASE e = command
    <2>1. Places(Append(s, e), command) = Places(s, command) \cup {n + 1}
        BY <1>1, <1>2, <1>4 DEF Places
    <2> QED  BY <1>3, <1>4, <2>1, PlacesFinite, FS_AddElement
<1>5. CASE e # command
    <2>1. Places(Append(s, e), command) = Places(s, command)
        BY <1>1, <1>2, <1>5 DEF Places
    <2> QED  BY <1>5, <2>1, PlacesFinite
<1> QED  BY <1>4, <1>5

LEMMA PlacesTaken ==
    ASSUME NEW S, NEW s \in Seq(S), s # << >>, NEW command
    PROVE  Cardinality(Places(s, command)) =
                Cardinality(Places(Tail(s), command)) + (IF Head(s) = command THEN 1 ELSE 0)
<1>1. PICK n \in Nat : n + 1 = Len(s)
    <2>1. Len(s) \in Nat /\ Len(s) # 0
        OBVIOUS
    <2>2. Len(s) - 1 \in Nat /\ (Len(s) - 1) + 1 = Len(s)
        BY <2>1
    <2> QED  BY <2>2
<1>2. /\ Tail(s) \in Seq(S) /\ Len(Tail(s)) = n /\ Head(s) = s[1]
      /\ \A i \in 1..n : Tail(s)[i] = s[i + 1]
    BY <1>1
<1> DEFINE A == Places(Tail(s), command)
           B == Places(s, command) \ {1}
           shift == [i \in A |-> i + 1]
<1>3. IsFiniteSet(A) /\ Cardinality(A) \in Nat
    BY <1>2, PlacesFinite
<1>4. shift \in Bijection(A, B)
    <2>1. A = {i \in 1..n : s[i + 1] = command}
        BY <1>2 DEF Places
    <2>2. B = {i \in 2..n + 1 : s[i] = command}
        BY <1>1 DEF Places
    <2>3. shift \in [A -> B]
        BY <2>1, <2>2
    <2>4. \A i, j \in A : shift[i] = shift[j] => i = j
        BY <2>1
    <2>5. ASSUME NEW j \in B PROVE \E i \in A : shift[i] = j
        <3>1. j - 1 \in A /\ (j - 1) + 1 = j
            BY <2>1, <2>2
        <3> QED  BY <3>1
    <2> QED  BY <2>3, <2>4, <2>5, Fun_IsBij
<1>5. Cardinality(B) = Cardinality(A)
    BY <1>3, <1>4, FS_Bijection DEF ExistsBijection
<1>6. IsFiniteSet(Places(s, command)) /\ Cardinality(Places(s, command)) \in Nat
    BY PlacesFinite
<1>7. 1 \in Places(s, command) <=> Head(s) = command
    BY <1>1, <1>2 DEF Places
<1>8. Cardinality(B) = IF 1 \in Places(s, command) THEN Cardinality(Places(s, command)) - 1
                                                   ELSE Cardinality(Places(s, command))
    BY <1>6, FS_RemoveElement
<1> HIDE DEF A, B
<1> QED  BY <1>3, <1>5, <1>6, <1>7, <1>8 DEF A

LEMMA PlacesJoined ==
    ASSUME NEW S, NEW s \in Seq(S), NEW e \in S, NEW k \in Nat, NEW command
    PROVE  /\ s \o [i \in 1..k |-> e] \in Seq(S)
           /\ Cardinality(Places(s \o [i \in 1..k |-> e], command)) =
                Cardinality(Places(s, command)) + (IF e = command THEN k ELSE 0)
<1> DEFINE t == s \o [i \in 1..k |-> e]
<1>1. PICK n \in Nat : n = Len(s)
    OBVIOUS
<1>2. [i \in 1..k |-> e] \in Seq(S) /\ Len([i \in 1..k |-> e]) = k
    OBVIOUS
<1>3. /\ t \in Seq(S) /\ Len(t) = n + k
      /\ \A i \in 1..n : t[i] = s[i]
      /\ \A i \in n + 1..n + k : t[i] = e
    BY <1>1, <1>2
<1> HIDE DEF t
<1>4. IsFiniteSet(Places(s, command)) /\ Cardinality(Places(s, command)) \in Nat
    BY PlacesFinite
<1>5. CASE e = command
    <2>1. Places(t, command) = Places(s, command) \cup (n + 1..n + k)
        BY <1>1, <1>3, <1>5 DEF Places
    <2>2. Places(s, command) \cap (n + 1..n + k) = {}
        BY <1>1 DEF Places
    <2>3. IsFiniteSet(n + 1..n + k) /\ Cardinality(n + 1..n + k) = k
        <3>1. n + 1 \in Int /\ n + k \in Int
            OBVIOUS
        <3>2. (IF n + 1 > n + k THEN 0 ELSE (n + k) - (n + 1) + 1) = k
            OBVIOUS
        <3> QED  BY <3>1, <3>2, FS_Interval
    <2>4. Cardinality(Places(s, command) \cap (n + 1..n + k)) = 0
        BY <2>2, FS_EmptySet
    <2>5. Cardinality(Places(t, command)) = Cardinality(Places(s, command)) + k - 0
        <3>1. Cardinality(Places(s, command) \cup (n + 1..n + k)) =
                Cardinality(Places(s, command)) + Cardinality(n + 1..n + k)
                    - Cardinality(Places(s, command) \cap (n + 1..n + k))
            BY <1>4, <2>3, FS_Union
        <3> QED  BY <2>1, <2>3, <2>4, <3>1
    <2> QED  BY <1>3, <1>4, <1>5, <2>5 DEF t
<1>6. CASE e # command
    <2>1. Places(t, command) = Places(s, command)
        BY <1>1, <1>3, <1>6 DEF Places
    <2> QED  BY <1>3, <1>4, <1>6, <2>1 DEF t
<1> QED  BY <1>5, <1>6

LEMMA DivMod ==
    ASSUME NEW m \in Nat, NEW a \in Nat \ {0}
    PROVE  /\ m \div a \in Nat /\ (m % a) \in 0..a - 1
           /\ m = a * (m \div a) + (m % a)
BY SMTT(30)

LEMMA WholeMultiple ==
    ASSUME NEW d \in Nat, NEW a \in Nat \ {0}
    PROVE  (a * d) \div a = d
BY SMTT(30)

\* The bufferer keeps at most one AckSize.
LEMMA BuffererKeeps ==
    ASSUME NEW count \in Nat
    PROVE  Flow!Leftover(count) \in 0..AckSize
<1>1. Window!Leftover(count) \in 0..AckSize
    BY WindowAssumptions, Window!LeftoverBounds DEF Window!LeftoverBounds
<1> QED  BY <1>1 DEF Window!Leftover, Flow!Leftover

\* The bufferer sends one acknowledgement for each AckSize it takes off.
LEMMA AcksWhole ==
    ASSUME NEW count \in Nat
    PROVE  /\ (count - Flow!Leftover(count)) \div AckSize \in Nat
           /\ AckSize * ((count - Flow!Leftover(count)) \div AckSize) = count - Flow!Leftover(count)
<1>1. PICK a \in Nat \ {0} : a = AckSize
    BY ThresholdAssumption
<1>2. CASE count = 0
    <2>1. 0 \div a = 0
        BY <1>1
    <2> QED  BY <1>1, <1>2, <2>1 DEF Flow!Leftover
<1>3. CASE count # 0
    <2>1. PICK m \in Nat : m = count - 1
        BY <1>3
    <2>2. PICK d \in Nat : d = m \div a
        BY <1>1, <2>1, DivMod
    <2>3. m = a * d + (m % a) /\ (m % a) \in 0..a - 1
        BY <1>1, <2>1, <2>2, DivMod
    <2>4. count - Flow!Leftover(count) = a * d
        BY <1>1, <1>3, <2>1, <2>2, <2>3 DEF Flow!Leftover
    <2>5. (a * d) \div a = d
        BY <1>1, <2>2, WholeMultiple
    <2> QED  BY <1>1, <2>2, <2>4, <2>5
<1> QED  BY <1>2, <1>3

-----------------------------------------------------------------------------

\* No replay is in the queue that has not been asked for.
Queued ==
    /\ CommandsTypeOK
    /\ Count("clear") <= replays

LEMMA QueueGrows ==
    ASSUME CommandsTypeOK, NEW CONSTANT e \in Command, Queue(e)
    PROVE  /\ queue' \in Seq(Command) /\ queue' # << >>
           /\ queue # << >> => Head(queue') = Head(queue)
           /\ Count("ack")' = Count("ack") + (IF e = "ack" THEN 1 ELSE 0)
           /\ Count("clear")' = Count("clear") + (IF e = "clear" THEN 1 ELSE 0)
           /\ Count("ack") \in Nat /\ Count("clear") \in Nat
<1>1. queue \in Seq(Command) /\ queue' = Append(queue, e)
    BY DEF CommandsTypeOK, Queue
<1>2. PICK n \in Nat : n = Len(queue)
    BY <1>1
<1>3. /\ Len(queue') = n + 1 /\ queue'[n + 1] = e /\ \A i \in 1..n : queue'[i] = queue[i]
      /\ queue' \in Seq(Command) /\ queue' # << >>
      /\ Head(queue') = queue'[1] /\ (queue # << >> => Head(queue) = queue[1] /\ n > 0)
    BY <1>1, <1>2
<1>4. ASSUME NEW CONSTANT command
      PROVE  /\ Count(command) \in Nat
             /\ Count(command)' =
                    Count(command) + (IF e = command THEN 1 ELSE 0)
    BY <1>1, CountsPlaces, PlacesFinite, PlacesAppended
<1> QED  BY <1>2, <1>3, <1>4

LEMMA QueueTaken ==
    ASSUME CommandsTypeOK, NEW CONSTANT e \in Command, Answered(e)
    PROVE  /\ queue' \in Seq(Command)
           /\ e # "input" => written = 0
           /\ Count("ack") = Count("ack")' + (IF e = "ack" THEN 1 ELSE 0)
           /\ Count("clear") = Count("clear")' + (IF e = "clear" THEN 1 ELSE 0)
           /\ Count("ack") \in Nat /\ Count("ack")' \in Nat
           /\ Count("clear") \in Nat /\ Count("clear")' \in Nat
<1>1. queue \in Seq(Command) /\ queue # << >> /\ Head(queue) = e /\ queue' = Tail(queue)
    BY DEF CommandsTypeOK, Answered
<1>2. PICK n \in Nat : n + 1 = Len(queue)
    <2>1. Len(queue) \in Nat /\ Len(queue) # 0
        BY <1>1
    <2>2. Len(queue) - 1 \in Nat /\ (Len(queue) - 1) + 1 = Len(queue)
        BY <2>1
    <2> QED  BY <2>2
<1>3. /\ queue' \in Seq(Command) /\ Len(queue') = n /\ queue[1] = e
      /\ \A i \in 1..n : queue'[i] = queue[i + 1]
    BY <1>1, <1>2
<1>4. e # "input" => written = 0
    BY <1>1 DEF CommandsTypeOK
<1>5. ASSUME NEW CONSTANT command
      PROVE  /\ Count(command) \in Nat /\ Count(command)' \in Nat
             /\ Count(command) =
                    Count(command)' + (IF e = command THEN 1 ELSE 0)
    <2>1. /\ Count(command) = Cardinality(Places(queue, command))
          /\ Count(command)' = Cardinality(Places(Tail(queue), command))
        BY <1>1, CountsPlaces
    <2>2. /\ Cardinality(Places(queue, command)) \in Nat
          /\ Cardinality(Places(Tail(queue), command)) \in Nat
        BY <1>1, <1>3, PlacesFinite
    <2>3. Cardinality(Places(queue, command)) =
            Cardinality(Places(Tail(queue), command)) + (IF e = command THEN 1 ELSE 0)
        BY <1>1, PlacesTaken
    <2> QED  BY <2>1, <2>2, <2>3
<1> QED  BY <1>3, <1>4, <1>5

LEMMA QueueJoined ==
    ASSUME CommandsTypeOK, NEW CONSTANT k \in Nat,
           queue' = queue \o [i \in 1..k |-> "ack"]
    PROVE  /\ queue' \in Seq(Command)
           /\ queue # << >> => queue' # << >> /\ Head(queue') = Head(queue)
           /\ Count("ack") \in Nat /\ Count("ack")' = Count("ack") + k
           /\ Count("clear") \in Nat /\ Count("clear")' = Count("clear")
<1>1. queue \in Seq(Command) /\ "ack" \in Command
    BY DEF CommandsTypeOK, Command
<1>2. PICK n \in Nat : n = Len(queue)
    BY <1>1
<1>3. [i \in 1..k |-> "ack"] \in Seq(Command) /\ Len([i \in 1..k |-> "ack"]) = k
    BY <1>1
<1>4. /\ queue' \in Seq(Command) /\ Len(queue') = n + k
      /\ \A i \in 1..n : queue'[i] = queue[i]
      /\ \A i \in n + 1..n + k : queue'[i] = "ack"
      /\ queue # << >> => queue' # << >> /\ Head(queue') = Head(queue)
    BY <1>1, <1>2, <1>3
<1>5. ASSUME NEW CONSTANT command
      PROVE  /\ Count(command) \in Nat
             /\ Count(command)' =
                    Count(command) + (IF command = "ack" THEN k ELSE 0)
    BY <1>1, CountsPlaces, PlacesFinite, PlacesJoined
<1>6. /\ Count("ack") \in Nat /\ Count("ack")' = Count("ack") + k
      /\ Count("clear") \in Nat /\ Count("clear")' = Count("clear")
    BY <1>5
<1> QED  BY <1>4, <1>6

LEMMA QueueSame ==
    ASSUME CommandsTypeOK, UNCHANGED queue
    PROVE  /\ queue' \in Seq(Command)
           /\ Count("ack")' = Count("ack")
           /\ Count("clear")' = Count("clear")
BY DEF CommandsTypeOK, Count

\* The window does not see what only the shell, the device and the queue do.
LEMMA Unseen ==
    ASSUME UNCHANGED <<unacknowledged, paused, disposed, reader, sent, unsent, replays>>,
           Count("ack")' = Count("ack"),
           Count("clear")' = Count("clear")
    PROVE  UNCHANGED Flow!vars
BY DEF Flow!vars, Flow!flow, Flow!client

LEMMA InitQueued ==
    ASSUME CommandsInit
    PROVE  Queued /\ Flow!Init
<1>1. queue = << >> /\ Flow!Init
    BY DEF CommandsInit
<1>2. ASSUME NEW CONSTANT command PROVE Count(command) = 0
    <2>1. Places(queue, command) = {}
        BY <1>1 DEF Places
    <2>2. Count(command) = Cardinality(Places(queue, command))
        BY CountsPlaces
    <2> QED  BY <2>1, <2>2, FS_EmptySet
<1>3. Flow!TypeOK
    <2>1. Count("ack") = 0 /\ Count("clear") = 0
        BY <1>2
    <2>2. AckSize * 0 \in Nat
        BY ThresholdAssumption
    <2>3. paused \in BOOLEAN /\ disposed \in BOOLEAN
        BY <1>1 DEF Flow!Init
    <2> QED  BY <1>1, <2>1, <2>2, <2>3, WindowAssumptions, DeviceAssumption
             DEF Flow!Init, Flow!TypeOK
<1>4. CommandsTypeOK
    <2>1. told \in BOOLEAN /\ ~ disposed
        BY DEF CommandsInit, Flow!Init
    <2> QED  BY <1>1, <1>3, <2>1, DeviceAssumption DEF CommandsInit, CommandsTypeOK
<1>5. replays = 0
    BY <1>1 DEF Flow!Init
<1> QED  BY <1>1, <1>2, <1>4, <1>5 DEF Queued

\* Each step of the queue, its client and its device is one of the window's or
\* one the window does not see.
LEMMA StepQueued ==
    ASSUME Queued, [CommandsNext]_commandVars
    PROVE  Queued' /\ [Flow!Next]_Flow!vars
<1> USE WindowAssumptions, DeviceAssumption
<1>0. CommandsTypeOK /\ Count("clear") <= replays
    BY DEF Queued
<1>1. CASE ShellWrites \/ ShellTakes
    <2>1. /\ UNCHANGED <<unacknowledged, paused, disposed, reader, sent, unsent, replays,
                         queue, written, typed, told>>
          /\ due' \in 0..Output /\ output' \in 0..DeviceSize /\ pending' \in 0..DeviceSize
        <3>1. CASE ShellWrites
            BY <1>0, <3>1 DEF ShellWrites, flow, commands, CommandsTypeOK
        <3>2. CASE ShellTakes
            BY <1>0, <3>2 DEF ShellTakes, flow, commands, CommandsTypeOK
        <3> QED  BY <1>1, <3>1, <3>2
    <2>2. UNCHANGED Flow!vars
        BY <1>0, <2>1, QueueSame, Unseen
    <2>3. Queued'
        BY <1>0, <2>1, QueueSame
        DEF Queued, CommandsTypeOK, Flow!TypeOK
    <2> QED  BY <2>2, <2>3
<1>2. CASE WaitUntilResumed
    <2>1. /\ UNCHANGED <<queue, written, typed, told, due, output, pending>>
          /\ Flow!WaitUntilResumed
        BY <1>2 DEF WaitUntilResumed, device
    <2>2. /\ UNCHANGED <<unacknowledged, paused, disposed, sent, unsent, replays>>
          /\ reader' \in {"waiting", "reading", "stopped"}
        BY <2>1 DEF Flow!WaitUntilResumed, Flow!flow, Flow!client
    <2>3. Queued'
        BY <1>0, <2>1, <2>2, QueueSame
        DEF Queued, CommandsTypeOK, Flow!TypeOK
    <2> QED  BY <2>1, <2>3 DEF Flow!Next
<1>3. ASSUME NEW count \in 1..ReadSize, Data(count)
      PROVE  Queued' /\ Flow!Next
    <2>1. /\ reader = "reading" /\ count <= output /\ Flow!OnData(count)
          /\ sent' = sent + count /\ output' = output - count /\ reader' = "waiting"
          /\ UNCHANGED <<unsent, queue, written, typed, replays, told, due, pending>>
        BY <1>3 DEF Data, commands
    <2>2. UNCHANGED disposed /\ unacknowledged' = unacknowledged + count /\ paused' \in BOOLEAN
        BY <1>0, <2>1 DEF Flow!OnData, CommandsTypeOK, Flow!TypeOK
    <2>3. Flow!Data(count)
        BY <1>0, <2>1, <2>2, QueueSame DEF Flow!Data, Flow!client
    <2>4. sent' \in Nat /\ unacknowledged' \in Nat /\ output' \in 0..DeviceSize
        BY <1>0, <2>1, <2>2 DEF CommandsTypeOK, Flow!TypeOK
    <2>5. Queued'
        BY <1>0, <2>1, <2>2, <2>4, QueueSame
        DEF Queued, CommandsTypeOK, Flow!TypeOK
    <2> QED  BY <2>3, <2>5 DEF Flow!Next
<1>4. CASE EndOfData
    <2>1. /\ reader = "reading" /\ reader' = "stopped"
          /\ UNCHANGED <<unacknowledged, paused, disposed, sent, unsent, replays,
                         queue, written, typed, told, due, output, pending>>
        BY <1>4 DEF EndOfData, flow, commands, device
    <2>2. Flow!EndOfData
        BY <1>0, <2>1, QueueSame DEF Flow!EndOfData, Flow!flow, Flow!client
    <2>3. Queued'
        BY <1>0, <2>1, QueueSame
        DEF Queued, CommandsTypeOK, Flow!TypeOK
    <2> QED  BY <2>2, <2>3 DEF Flow!Next
<1>5. ASSUME NEW count \in 1..sent, Parse(count)
      PROVE  Queued' /\ Flow!Next
    <2>1. /\ count <= sent /\ sent' = sent - count
          /\ unsent' = Flow!Leftover(unsent + count)
          /\ queue' = queue \o [i \in 1..Acks(unsent + count) |-> "ack"]
          /\ UNCHANGED <<unacknowledged, paused, disposed, reader, written, typed, replays,
                         told, due, output, pending>>
        BY <1>5 DEF Parse, flow, device
    <2>2. PICK total \in Nat : total = unsent + count
        BY <1>0 DEF CommandsTypeOK, Flow!TypeOK
    <2>3. PICK left \in 0..AckSize : left = Flow!Leftover(total)
        BY BuffererKeeps
    <2>4. Flow!Leftover(total) = left
        BY <2>3
    <2>5. PICK k \in Nat : k = Acks(total) /\ AckSize * k = total - left
        BY <2>3, <2>4, AcksWhole DEF Acks
    <2>6. /\ queue' \in Seq(Command)
          /\ queue # << >> => queue' # << >> /\ Head(queue') = Head(queue)
          /\ Count("ack") \in Nat /\ Count("ack")' = Count("ack") + k
          /\ Count("clear")' = Count("clear")
        <3>1. "ack" \in Command /\ "clear" \in Command
            BY DEF Command
        <3>2. queue' = queue \o [i \in 1..k |-> "ack"]
            BY <2>1, <2>2, <2>5
        <3> QED  BY <1>0, <2>1, <3>1, <3>2, QueueJoined
    <2>7. AckSize * Count("ack")' = AckSize * Count("ack") + total - left
        <3>1. PICK m \in Nat : m = Count("ack")
            BY <2>6
        <3>2. AckSize * (m + k) = AckSize * m + AckSize * k
            OBVIOUS
        <3> QED  BY <2>5, <2>6, <3>1, <3>2
    <2>8. Flow!Parse(count)
        BY <2>1, <2>2, <2>4, <2>6, <2>7 DEF Flow!Parse, Flow!flow
    <2>9. /\ unsent' \in 0..AckSize /\ sent' \in Nat
          /\ AckSize * Count("ack")' \in Nat
        <3>1. unsent' \in 0..AckSize
            BY <2>1, <2>2, <2>3, <2>4
        <3>2. sent' \in Nat
            BY <1>0, <2>1 DEF CommandsTypeOK, Flow!TypeOK
        <3>3. PICK m \in Nat : m = Count("ack")'
            BY <2>6
        <3>4. AckSize * m \in Nat
            OBVIOUS
        <3> QED  BY <3>1, <3>2, <3>3, <3>4
    <2>10. Queued'
        BY <1>0, <2>1, <2>6, <2>9
        DEF Queued, CommandsTypeOK, Flow!TypeOK
    <2> QED  BY <2>8, <2>10 DEF Flow!Next
<1>6. CASE TypeInput
    <2>1. /\ typed < MaxInputs /\ typed' = typed + 1 /\ Queue("input")
          /\ UNCHANGED <<unacknowledged, paused, disposed, reader, sent, unsent, written, replays,
                         told, due, output, pending>>
        BY <1>6 DEF TypeInput, flow, device
    <2>2. {"ack", "clear", "input"} \subseteq Command
        BY DEF Command
    <2>3. /\ queue' \in Seq(Command) /\ queue' # << >>
          /\ queue # << >> => Head(queue') = Head(queue)
          /\ Count("ack")' = Count("ack")
          /\ Count("clear")' = Count("clear")
        BY <1>0, <2>1, <2>2, QueueGrows
    <2>4. Queued'
        BY <1>0, <2>1, <2>3
        DEF Queued, CommandsTypeOK, Flow!TypeOK
    <2> QED  BY <2>1, <2>3, <2>4, Unseen
<1>7. CASE Replay
    <2>1. /\ replays < MaxReplays /\ replays' = replays + 1 /\ Queue("clear")
          /\ UNCHANGED <<unacknowledged, paused, disposed, reader, sent, unsent, written, typed,
                         told, due, output, pending>>
        BY <1>7 DEF Replay, flow, device
    <2>2. {"ack", "clear"} \subseteq Command
        BY DEF Command
    <2>3. /\ queue' \in Seq(Command) /\ queue' # << >>
          /\ queue # << >> => Head(queue') = Head(queue)
          /\ Count("ack")' = Count("ack")
          /\ Count("clear") \in Nat
          /\ Count("clear")' = Count("clear") + 1
        BY <1>0, <2>1, <2>2, QueueGrows
    <2>4. Flow!Replay
        BY <2>1, <2>3 DEF Flow!Replay, Flow!flow
    <2>5. replays' \in 0..MaxReplays /\ Count("clear")' \in 0..MaxReplays
          /\ Count("clear")' <= replays'
        <3>1. PICK m, r \in Nat : m = Count("clear") /\ r = replays
            BY <1>0, <2>3 DEF CommandsTypeOK, Flow!TypeOK
        <3>2. m <= r /\ r < MaxReplays /\ MaxReplays \in Nat
            BY <1>0, <2>1, <3>1
        <3>3. m + 1 \in 0..MaxReplays /\ r + 1 \in 0..MaxReplays /\ m + 1 <= r + 1
            BY <3>2
        <3> QED  BY <2>1, <2>3, <3>1, <3>3
    <2>6. Queued'
        BY <1>0, <2>1, <2>3, <2>5
        DEF Queued, CommandsTypeOK, Flow!TypeOK
    <2> QED  BY <2>4, <2>6 DEF Flow!Next
<1>8. CASE QueueShutdown
    <2>1. /\ Queue("shutdown")
          /\ UNCHANGED <<unacknowledged, paused, disposed, reader, sent, unsent, written, typed,
                         replays, told, due, output, pending>>
        BY <1>8 DEF QueueShutdown, flow, device
    <2>2. {"ack", "clear", "shutdown"} \subseteq Command
        BY DEF Command
    <2>3. /\ queue' \in Seq(Command) /\ queue' # << >>
          /\ queue # << >> => Head(queue') = Head(queue)
          /\ Count("ack")' = Count("ack")
          /\ Count("clear")' = Count("clear")
        BY <1>0, <2>1, <2>2, QueueGrows
    <2>4. Queued'
        BY <1>0, <2>1, <2>3
        DEF Queued, CommandsTypeOK, Flow!TypeOK
    <2> QED  BY <2>1, <2>3, <2>4, Unseen
<1>9. CASE Acknowledge
    <2>1. /\ Answered("ack")
          /\ IF disposed THEN UNCHANGED <<unacknowledged, paused, disposed>>
                         ELSE Flow!AcknowledgeData(AckSize)
          /\ UNCHANGED <<reader, sent, unsent, written, typed, replays, told, due, output, pending>>
        BY <1>9 DEF Acknowledge, flow, device
    <2>2. {"ack", "clear"} \subseteq Command
        BY DEF Command
    <2>3. UNCHANGED disposed /\ unacknowledged' \in Nat /\ paused' \in BOOLEAN
        BY <1>0, <2>1 DEF Flow!AcknowledgeData, CommandsTypeOK, Flow!TypeOK
    <2>4. /\ queue' \in Seq(Command) /\ written = 0
          /\ Count("ack") \in Nat /\ Count("ack")' \in Nat
          /\ Count("ack") = Count("ack")' + 1
          /\ Count("clear")' = Count("clear")
        BY <1>0, <2>1, <2>2, <2>3, QueueTaken
    <2>5. /\ AckSize * Count("ack") = AckSize * Count("ack")' + AckSize
          /\ AckSize * Count("ack")' \in Nat
        <3>1. PICK m \in Nat : m = Count("ack")'
            BY <2>4
        <3>2. AckSize * (m + 1) = AckSize * m + AckSize /\ AckSize * m \in Nat
            OBVIOUS
        <3> QED  BY <2>4, <3>1, <3>2
    <2>6. Flow!Acknowledge
        BY <2>1, <2>4, <2>5 DEF Flow!Acknowledge, Flow!flow
    <2>7. Queued'
        BY <1>0, <2>1, <2>3, <2>4, <2>5
        DEF Queued, CommandsTypeOK, Flow!TypeOK
    <2> QED  BY <2>6, <2>7 DEF Flow!Next
<1>10. CASE Clear
    <2>1. /\ Answered("clear")
          /\ IF disposed THEN UNCHANGED <<unacknowledged, paused, disposed>>
                         ELSE Flow!ClearUnacknowledged
          /\ UNCHANGED <<reader, sent, unsent, written, typed, replays, told, due, output, pending>>
        BY <1>10 DEF Clear, flow, device
    <2>2. {"ack", "clear"} \subseteq Command
        BY DEF Command
    <2>3. UNCHANGED disposed /\ unacknowledged' \in Nat /\ paused' \in BOOLEAN
        <3>1. CASE disposed
            BY <1>0, <2>1, <3>1 DEF CommandsTypeOK, Flow!TypeOK
        <3>2. CASE ~ disposed
            <4>1. UNCHANGED disposed /\ unacknowledged' = 0 /\ paused' = FALSE
                BY <2>1, <3>2 DEF Flow!ClearUnacknowledged
            <4> QED  BY <4>1
        <3> QED  BY <3>1, <3>2
    <2>4. /\ queue' \in Seq(Command) /\ written = 0
          /\ Count("clear") \in Nat /\ Count("clear")' \in Nat
          /\ Count("clear") = Count("clear")' + 1
          /\ Count("ack")' = Count("ack")
        BY <1>0, <2>1, <2>2, <2>3, QueueTaken
    <2>5. /\ Count("clear") > 0 /\ Count("clear")' = Count("clear") - 1
          /\ Count("clear")' \in 0..MaxReplays /\ Count("clear")' <= replays
        <3>1. PICK m, r \in Nat : m = Count("clear")' /\ r = replays /\ r <= MaxReplays
            BY <1>0, <2>4 DEF CommandsTypeOK, Flow!TypeOK
        <3>2. m + 1 <= r /\ MaxReplays \in Nat
            BY <1>0, <2>4, <3>1
        <3> QED  BY <2>4, <3>1, <3>2
    <2>6. Flow!Clear
        BY <2>1, <2>4, <2>5 DEF Flow!Clear, Flow!flow
    <2>7. Queued'
        BY <1>0, <2>1, <2>3, <2>4, <2>5
        DEF Queued, CommandsTypeOK, Flow!TypeOK
    <2> QED  BY <2>6, <2>7 DEF Flow!Next
<1>11. CASE Write
    <2>1. /\ queue # << >> /\ Head(queue) = "input" /\ written' \in 0..InputSize
          /\ pending' \in 0..DeviceSize
          /\ UNCHANGED <<unacknowledged, paused, disposed, reader, sent, unsent, queue, typed,
                         replays, told, due, output>>
        BY <1>0, <1>11 DEF Write, flow, CommandsTypeOK
    <2>2. Queued'
        BY <1>0, <2>1, QueueSame
        DEF Queued, CommandsTypeOK, Flow!TypeOK
    <2> QED  BY <1>0, <2>1, <2>2, QueueSame, Unseen
<1>12. CASE Written
    <2>1. /\ Answered("input") /\ written' = 0
          /\ UNCHANGED <<unacknowledged, paused, disposed, reader, sent, unsent, typed,
                         replays, told, due, output, pending>>
        BY <1>12 DEF Written, flow, device
    <2>2. {"ack", "clear", "input"} \subseteq Command
        BY DEF Command
    <2>3. /\ queue' \in Seq(Command)
          /\ Count("ack")' = Count("ack")
          /\ Count("clear")' = Count("clear")
        BY <1>0, <2>1, <2>2, QueueTaken
    <2>4. Queued'
        BY <1>0, <2>1, <2>3
        DEF Queued, CommandsTypeOK, Flow!TypeOK
    <2> QED  BY <2>1, <2>3, <2>4, Unseen
<1>13. CASE Shutdown
    <2>1. /\ Answered("shutdown") /\ told' = TRUE
          /\ UNCHANGED <<unacknowledged, paused, disposed, reader, sent, unsent, written, typed,
                         replays, due, output, pending>>
        BY <1>13 DEF Shutdown, flow, device
    <2>2. {"ack", "clear", "shutdown"} \subseteq Command
        BY DEF Command
    <2>3. /\ queue' \in Seq(Command) /\ written = 0
          /\ Count("ack")' = Count("ack")
          /\ Count("clear")' = Count("clear")
        BY <1>0, <2>1, <2>2, QueueTaken
    <2>4. Queued'
        BY <1>0, <2>1, <2>3
        DEF Queued, CommandsTypeOK, Flow!TypeOK
    <2> QED  BY <2>1, <2>3, <2>4, Unseen
<1>14. CASE SupervisorKills
    <2>1. /\ told /\ ~ disposed /\ disposed' = TRUE /\ paused' = FALSE
          /\ UNCHANGED <<unacknowledged, reader, sent, unsent, queue, written, typed, replays,
                         told, due, output, pending>>
        BY <1>14 DEF SupervisorKills, Flow!DisposeFlow, commands, device
    <2>2. disposed' \in BOOLEAN /\ paused' \in BOOLEAN
        BY <2>1
    <2>3. /\ queue' \in Seq(Command)
          /\ Count("ack")' = Count("ack")
          /\ Count("clear")' = Count("clear")
        BY <1>0, <2>1, QueueSame
    <2>4. Flow!Dispose
        BY <1>14, <2>1, <2>3 DEF SupervisorKills, Flow!Dispose, Flow!client
    <2>5. Queued'
        BY <1>0, <2>1, <2>2, <2>3
        DEF Queued, CommandsTypeOK, Flow!TypeOK
    <2> QED  BY <2>4, <2>5 DEF Flow!Next
<1>15. CASE UNCHANGED commandVars
    <2>1. UNCHANGED <<unacknowledged, paused, disposed, reader, sent, unsent, replays,
                      queue, written, typed, told, due, output, pending>>
        BY <1>15 DEF commandVars, flow, commands, device
    <2>2. Queued'
        BY <1>0, <2>1, QueueSame
        DEF Queued, CommandsTypeOK, Flow!TypeOK
    <2> QED  BY <1>0, <2>1, <2>2, QueueSame, Unseen
<1> QED
    BY <1>1, <1>2, <1>3, <1>4, <1>5, <1>6, <1>7, <1>8, <1>9, <1>10, <1>11, <1>12, <1>13, <1>14, <1>15
    DEF CommandsNext

\* The queue, the device and the window keep their types, whatever the sizes of
\* the device, the input and the output.
THEOREM QueueTyped == CommandsSpec => []CommandsTypeOK
<1>1. CommandsInit => Queued
    BY InitQueued
<1>2. Queued /\ [CommandsNext]_commandVars => Queued'
    BY StepQueued
<1>3. Queued => CommandsTypeOK
    BY DEF Queued
<1> QED  BY <1>1, <1>2, <1>3, PTL DEF CommandsSpec

\* TauriTerminalProcess's queue of commands does to the window what FlowControl
\* says is done to it (_send, tauriTerminalProcess.ts:213): it loses and invents
\* no acknowledgement or replay, however long each waits.
THEOREM QueueRefinesFlow == CommandsSpec => ImplementsFlow
<1>1. CommandsInit => Queued /\ Flow!Init
    BY InitQueued
<1>2. Queued /\ [CommandsNext]_commandVars => Queued' /\ [Flow!Next]_Flow!vars
    BY StepQueued
<1> QED  BY <1>1, <1>2, PTL DEF CommandsSpec, ImplementsFlow, Flow!Spec

\* FlowControl is the same specification in both instances.
LEMMA SameWindow == Flow!Spec <=> Window!Spec
<1>1. Flow!Init <=> Window!Init
    BY DEF Flow!Init, Window!Init
<1>2. [Flow!Next]_Flow!vars <=> [Window!Next]_Window!vars
    BY DEF Flow!Next, Flow!vars, Flow!flow, Flow!client, Flow!WaitUntilResumed, Flow!Data,
           Flow!OnData, Flow!EndOfData, Flow!Parse, Flow!Leftover, Flow!Replay,
           Flow!Acknowledge, Flow!AcknowledgeData, Flow!Clear, Flow!ClearUnacknowledged,
           Flow!Dispose, Flow!DisposeFlow,
           Window!Next, Window!vars, Window!flow, Window!client, Window!WaitUntilResumed,
           Window!Data, Window!OnData, Window!EndOfData, Window!Parse, Window!Leftover,
           Window!Replay, Window!Acknowledge, Window!AcknowledgeData, Window!Clear,
           Window!ClearUnacknowledged, Window!Dispose, Window!DisposeFlow
<1> QED  BY <1>1, <1>2, PTL DEF Flow!Spec, Window!Spec

\* So the window of FlowControl bounds what the backend counts and the client
\* holds, also when its acknowledgements wait in the queue behind an `input`.
THEOREM QueueMemoryHolds == CommandsSpec => []QueueMemoryBounded
<1>1. Window!Spec => []Window!MemoryBounded
    BY WindowAssumptions, Window!MemoryHolds DEF Window!MemoryHolds
<1>2. QueueMemoryBounded <=> Window!MemoryBounded
    BY DEF QueueMemoryBounded, Flow!MemoryBounded, Flow!WindowBounded, Flow!LagBounded,
           Window!MemoryBounded, Window!WindowBounded, Window!LagBounded
<1> QED  BY <1>1, <1>2, SameWindow, QueueRefinesFlow, PTL DEF ImplementsFlow

\* And a terminal whose queue has nothing left for the window is held paused by
\* nothing but a leftover of one whole AckSize, and only if that is the low
\* watermark: the queue strands no terminal that FlowControl would not.
THEOREM QueueStrandsNothing == CommandsSpec => []QueueStrandedOnlyByFullAck
<1>1. Window!Spec => []Window!StrandedOnlyByFullAck
    BY WindowAssumptions, Window!OnlyAFullAckStrands DEF Window!OnlyAFullAckStrands
<1>2. QueueStrandedOnlyByFullAck <=> Window!StrandedOnlyByFullAck
    BY DEF QueueStrandedOnlyByFullAck, Flow!StrandedOnlyByFullAck, Flow!Held, Flow!Quiet,
           Window!StrandedOnlyByFullAck, Window!Held, Window!Quiet
<1> QED  BY <1>1, <1>2, SameWindow, QueueRefinesFlow, PTL DEF ImplementsFlow

=============================================================================
