------------------------ MODULE AmqpConnectionProofs ------------------------
(***************************************************************************)
(* Through any number of lost connections, outages and refusals, the       *)
(* process leaks a connection only for a refused redeclaration, and the    *)
(* broker drops a confirmed message only during a redeclaration.           *)
(***************************************************************************)
EXTENDS AmqpConnection, TLAPS, FiniteSetTheorems

\* Where the process and its supervisor can be, together.
Phases ==
    /\ main = "start" => dials = 0 /\ sup = "unborn"
    /\ main # "start" => dials >= 1 /\ sup # "unborn"
    /\ main \in {"setup", "declaring", "running"} => channels
    /\ closing => main \in {"closing", "closed"}
    /\ pub # "idle" => main = "running"

\* What a goroutine has declared on a connection that lives, the broker has.
Declared ==
    /\ main = "declaring" => declared.main < Bound
    /\ main = "declaring" /\ setupOn \in opened => declared.main <= topology
    /\ main \in {"start", "dialled", "setup"} => declared.main = 0
    /\ sup = "declaring" => declared.sup < Bound
    /\ sup = "declaring" /\ current \in opened => declared.sup <= topology

\* A broker that lacks something is not connected to, or is being redeclared to.
Redeclared ==
    main = "running" /\ opened # {} /\ topology < Bound => sup \in Redeclaring

\* The connections that are left behind, and the one that will be, are paid for.
Leaking == sup \in {"redial", "dialling"} /\ current \in opened

Paid ==
    /\ Cardinality(opened \ {current}) <= faults.refusals
    /\ Leaking => Cardinality(opened \ {current}) < faults.refusals

ConnectionInv == TypeOK /\ Phases /\ Declared /\ Redeclared /\ Paid

-----------------------------------------------------------------------------
LEMMA CardTypes ==
    ASSUME NEW S, NEW n \in Nat, S \subseteq 1..n
    PROVE  IsFiniteSet(S) /\ Cardinality(S) \in Nat
<1>1. IsFiniteSet(1..n)
  BY FS_Interval
<1> QED
  BY <1>1, FS_Subset, FS_CardinalityType

\* A new connection leaves the old one behind if it is still alive.
LEMMA PaidWithConnection ==
    ASSUME TypeOK, Paid, Connect, faults' = faults, sup' \notin {"redial", "dialling"},
           Leaking \/ current \notin opened
    PROVE  Paid' /\ dials' \in Nat /\ opened' \in SUBSET (1..dials') /\ current' = dials'
<1>1. /\ dials \in Nat /\ opened \subseteq 1..dials /\ current = dials
      /\ dials' = dials + 1 /\ opened' = opened \cup {dials + 1} /\ current' = dials + 1
      /\ faults.refusals \in Nat
  BY DEF TypeOK, Connect
<1>2. opened' \ {current'} = opened /\ opened' \subseteq 1..dials + 1
  BY <1>1
<1>3. Cardinality(opened) <= faults.refusals
  <2>1. CASE current \notin opened
    <3>1. opened \ {current} = opened
      BY <2>1
    <3> QED
      BY <3>1 DEF Paid
  <2>2. CASE Leaking
    <3>1. IsFiniteSet(opened) /\ current \in opened
      BY <1>1, <2>2, CardTypes DEF Leaking
    <3>2. Cardinality(opened \ {current}) = Cardinality(opened) - 1
      BY <3>1, FS_RemoveElement
    <3>3. Cardinality(opened) \in Nat
      BY <1>1, CardTypes
    <3> QED
      BY <1>1, <2>2, <3>2, <3>3 DEF Paid
  <2> QED
    BY <2>1, <2>2
<1>4. Paid'
  BY <1>1, <1>2, <1>3 DEF Paid, Leaking
<1>5. dials' \in Nat /\ dials' = current'
  BY <1>1
<1> QED
  BY <1>1, <1>2, <1>4, <1>5

\* Nothing but a dial or a refusal can leave a connection behind.
LEMMA PaidStill ==
    ASSUME TypeOK, Paid, opened' \subseteq opened, current' = current,
           sup' = sup \/ sup' \notin {"redial", "dialling"} \/ current \notin opened
             \/ sup \in {"redial", "dialling"},
           faults' \in [{"losses", "outages", "refusals", "publishes"} -> Nat],
           faults'.refusals = faults.refusals
    PROVE  Paid'
<1>1. opened \ {current} \subseteq 1..dials /\ opened' \ {current} \subseteq 1..dials
      /\ dials \in Nat
  BY DEF TypeOK
<1>2. /\ IsFiniteSet(opened \ {current}) /\ Cardinality(opened \ {current}) \in Nat
      /\ Cardinality(opened' \ {current}) \in Nat
  BY <1>1, CardTypes
<1>3. Cardinality(opened' \ {current}) <= Cardinality(opened \ {current})
  <2>1. opened' \ {current} \subseteq opened \ {current}
    OBVIOUS
  <2> QED
    BY <1>2, <2>1, FS_Subset
<1>4. faults.refusals \in Nat
  BY DEF TypeOK
<1>5. Leaking' => Leaking
  BY DEF Leaking
<1> QED
  BY <1>2, <1>3, <1>4, <1>5 DEF Paid

\* A refusal pays for the connection that the next dial leaves behind.
LEMMA PaidWithRefusal ==
    ASSUME TypeOK, Paid, Count("refusals"), opened' = opened, current' = current
    PROVE  Paid' /\ faults' \in [{"losses", "outages", "refusals", "publishes"} -> Nat]
<1>1. opened \ {current} \subseteq 1..dials /\ dials \in Nat
      /\ faults \in [{"losses", "outages", "refusals", "publishes"} -> Nat]
  BY DEF TypeOK
<1>2. /\ faults' \in [{"losses", "outages", "refusals", "publishes"} -> Nat]
      /\ faults'.refusals = faults.refusals + 1
  BY <1>1 DEF Count
<1>3. Cardinality(opened \ {current}) \in Nat
  BY <1>1, CardTypes
<1> QED
  BY <1>1, <1>2, <1>3 DEF Paid

LEMMA CountTypes ==
    ASSUME TypeOK, NEW kind \in {"losses", "outages", "publishes"}, Count(kind)
    PROVE  /\ faults' \in [{"losses", "outages", "refusals", "publishes"} -> Nat]
           /\ faults'.refusals = faults.refusals
BY DEF TypeOK, Count

LEMMA DeclareTypes ==
    ASSUME TypeOK, NEW who \in {"main", "sup"}, Declare(who), declared[who] < Bound
    PROVE  /\ topology' \in 0..Bound /\ declared' \in [{"main", "sup"} -> 0..Bound]
           /\ topology' >= topology /\ topology' >= declared'[who]
           /\ \A other \in {"main", "sup"} \ {who} : declared'[other] = declared[other]
BY DEF TypeOK, Declare, Bound

-----------------------------------------------------------------------------
\* The process

LEMMA DialKeeps ==
    ASSUME ConnectionInv, Dial
    PROVE  ConnectionInv'
<1>1. TypeOK /\ Phases /\ Paid
  BY DEF ConnectionInv
<1>2. dials = 0 /\ opened = {} /\ sup = "unborn"
  BY <1>1 DEF Dial, Phases, TypeOK
<1>3. /\ Paid' /\ dials' \in Nat /\ opened' \in SUBSET (1..dials') /\ current' = dials'
  BY <1>1, <1>2, PaidWithConnection DEF Dial
<1>4. TypeOK'
  BY <1>1, <1>2, <1>3 DEF Dial, TypeOK, userVars
<1> QED
  BY <1>1, <1>2, <1>3, <1>4 DEF ConnectionInv, Dial, Connect, Phases, Declared,
     Redeclared, TypeOK, userVars

LEMMA SetupKeeps ==
    ASSUME ConnectionInv, Setup
    PROVE  ConnectionInv'
<1>1. TypeOK /\ Phases /\ Declared /\ Paid
  BY DEF ConnectionInv
<1>2. TypeOK'
  BY <1>1 DEF Setup, TypeOK, Bound, userVars
<1>3. Paid'
  BY <1>1, PaidStill DEF Setup, TypeOK
<1> QED
  BY <1>1, <1>2, <1>3 DEF ConnectionInv, Setup, Phases, Declared, Redeclared, userVars

LEMMA OpenSetupChannelKeeps ==
    ASSUME ConnectionInv, OpenSetupChannel
    PROVE  ConnectionInv'
<1>1. TypeOK /\ Phases /\ Declared /\ Paid
  BY DEF ConnectionInv
<1>2. setupOn' \in 0..dials' /\ topology \in Nat
  BY <1>1 DEF OpenSetupChannel, connVars, TypeOK, Bound
<1>3. TypeOK'
  BY <1>1, <1>2 DEF OpenSetupChannel, TypeOK, connVars, userVars
<1>4. Paid'
  BY <1>1, PaidStill DEF OpenSetupChannel, TypeOK, connVars
<1> QED
  BY <1>1, <1>2, <1>3, <1>4 DEF ConnectionInv, OpenSetupChannel, Phases, Declared,
     Redeclared, Bound, connVars, userVars

LEMMA SetupDeclaresKeeps ==
    ASSUME ConnectionInv, SetupDeclares
    PROVE  ConnectionInv'
<1>1. TypeOK /\ Phases /\ Declared /\ Redeclared /\ Paid /\ main = "declaring"
  BY DEF ConnectionInv, SetupDeclares
<1>2. setupOn' \in 0..dials' /\ (main' = "declaring" => setupOn' = setupOn)
  <2>1. setupOn' \in {setupOn, 0} /\ (main' = "declaring" => setupOn' = setupOn)
    BY DEF SetupDeclares
  <2>2. setupOn \in 0..dials /\ dials \in Nat /\ dials' = dials
    BY <1>1 DEF SetupDeclares, TypeOK
  <2> QED
    BY <2>1, <2>2
<1>3. CASE /\ setupOn \in opened
           /\ Declare("main")
           /\ main' = IF declared'.main = Bound THEN "running" ELSE "declaring"
           /\ UNCHANGED faults
           /\ UNCHANGED <<up, opened, dials, connVars, sup, missed, userVars>>
  <2>1. /\ topology' \in 0..Bound /\ declared' \in [{"main", "sup"} -> 0..Bound]
        /\ topology' >= topology /\ topology' >= declared'.main
        /\ declared'.sup = declared.sup
    BY <1>1, <1>2, <1>3, DeclareTypes DEF Declared
  <2>2. TypeOK'
    BY <1>1, <1>2, <1>3, <2>1 DEF TypeOK, connVars, userVars
  <2>3. Paid'
    BY <1>1, <1>2, <1>3, PaidStill DEF TypeOK, connVars
  <2>4. Declared'
    <3>1. /\ declared'.main \in Nat /\ declared'.sup \in Nat
          /\ topology \in Nat /\ topology' \in Nat
      BY <1>1, <2>1 DEF TypeOK, Bound
    <3>2. /\ main' = "declaring" => declared'.main < Bound
          /\ main' \in {"declaring", "running"}
      BY <1>3, <2>1 DEF Bound
    <3>3. opened' = opened /\ current' = current /\ sup' = sup
      BY <1>3 DEF connVars
    <3> QED
      BY <1>1, <2>1, <3>1, <3>2, <3>3 DEF Declared
  <2>5. Redeclared'
    BY <1>3, <2>1 DEF Redeclared, Bound
  <2>6. Phases'
    BY <1>1, <1>2, <1>3 DEF Phases, connVars, userVars
  <2> QED
    BY <2>2, <2>3, <2>4, <2>5, <2>6 DEF ConnectionInv
<1>4. CASE /\ DeclareFails(setupOn)
           /\ main' = "stopped"
           /\ UNCHANGED <<declared, topology>>
           /\ UNCHANGED <<up, opened, dials, connVars, sup, missed, userVars>>
  <2>1. Paid' /\ faults' \in [{"losses", "outages", "refusals", "publishes"} -> Nat]
    BY <1>1, <1>2, <1>4, PaidStill, PaidWithRefusal DEF DeclareFails, TypeOK, connVars
  <2>2. TypeOK'
    BY <1>1, <1>2, <1>4, <2>1 DEF TypeOK, connVars, userVars
  <2>3. Declared' /\ Redeclared'
    BY <1>1, <1>4 DEF Declared, Redeclared, connVars
  <2>4. Phases'
    BY <1>1, <1>4 DEF Phases, connVars, userVars
  <2> QED
    BY <2>1, <2>2, <2>3, <2>4 DEF ConnectionInv
<1> QED
  BY <1>3, <1>4 DEF SetupDeclares

LEMMA StopKeeps ==
    ASSUME ConnectionInv, Stop
    PROVE  ConnectionInv'
<1>1. TypeOK /\ Phases /\ Declared /\ Paid
  BY DEF ConnectionInv
<1>2. TypeOK'
  BY <1>1 DEF Stop, TypeOK, connVars
<1>3. Paid'
  BY <1>1, PaidStill DEF Stop, TypeOK, connVars
<1> QED
  BY <1>1, <1>2, <1>3 DEF ConnectionInv, Stop, Phases, Declared, Redeclared, connVars

LEMMA CloseKeeps ==
    ASSUME ConnectionInv, CloseStep
    PROVE  ConnectionInv'
<1>1. TypeOK /\ Phases /\ Declared /\ Paid
  BY DEF ConnectionInv
<1>2. /\ opened' \subseteq opened /\ current' = current /\ sup' = sup /\ faults' = faults
      /\ main \in {"stopped", "closing"} /\ main' \in {"closing", "closed"}
      /\ byClose' \in {byClose, current, 0} /\ closing' \in {closing, TRUE}
  BY DEF CloseStep, Close
<1>3. TypeOK'
  <2>1. byClose' \in 0..dials
    <3>1. dials \in Nat /\ current = dials /\ byClose \in 0..dials
      BY <1>1 DEF TypeOK
    <3> QED
      BY <1>2, <3>1
  <2>2. closing' \in BOOLEAN
    BY <1>1, <1>2 DEF TypeOK
  <2>3. opened' \in SUBSET (1..dials)
    BY <1>1, <1>2 DEF TypeOK
  <2>4. main' \in {"start", "dialled", "setup", "declaring", "running", "stopped", "closing",
                    "closed"}
    BY <1>2
  <2> QED
    BY <1>1, <1>2, <2>1, <2>2, <2>3, <2>4 DEF CloseStep, TypeOK, userVars
<1>4. Paid'
  BY <1>1, <1>2, PaidStill DEF TypeOK
<1> QED
  BY <1>1, <1>2, <1>3, <1>4
     DEF ConnectionInv, CloseStep, Phases, Declared, Redeclared, userVars

-----------------------------------------------------------------------------
\* The supervisor

LEMMA ObserveKeeps ==
    ASSUME ConnectionInv, Observe
    PROVE  ConnectionInv'
<1>1. TypeOK /\ Phases /\ Declared /\ Redeclared /\ Paid
  BY DEF ConnectionInv
<1>2. /\ opened' = opened /\ current' = current /\ channels' = channels /\ closing' = closing
      /\ byClose' = byClose /\ main' = main /\ topology' = topology /\ declared' = declared
      /\ faults' = faults /\ pub' = pub /\ pch' = pch /\ con' = con /\ up' = up /\ dials' = dials
      /\ setupOn' = setupOn
  BY DEF Observe, connVars, userVars
<1>3. /\ sup \in {"register", "watching", "redial"}
      /\ sup' \in {"watching", "returned", "redial", "dialling"}
      /\ sup' = "redial" => current \notin opened
      /\ sup' = "dialling" => sup = "redial"
      /\ sup = "redial" => sup' = "dialling" \/ closing
      /\ missed' \in BOOLEAN
  BY <1>1 DEF Observe, Register, Watch, CheckClosed, Channel, TypeOK
<1>4. TypeOK'
  BY <1>1, <1>2, <1>3 DEF TypeOK
<1>5. Paid'
  BY <1>1, <1>2, <1>3, PaidStill DEF TypeOK
<1>6. Redeclared'
  BY <1>1, <1>2, <1>3 DEF Redeclared, Phases, Redeclaring
<1> QED
  BY <1>1, <1>2, <1>3, <1>4, <1>5, <1>6 DEF ConnectionInv, Phases, Declared

LEMMA RedialKeeps ==
    ASSUME ConnectionInv, RedialStep
    PROVE  ConnectionInv'
<1>1. TypeOK /\ Phases /\ Declared /\ Redeclared /\ Paid
  BY DEF ConnectionInv
<1>2. /\ channels' = channels /\ closing' = closing /\ byClose' = byClose /\ main' = main
      /\ topology' = topology /\ faults' = faults /\ missed' = missed /\ up' = up
      /\ pub' = pub /\ pch' = pch /\ con' = con /\ setupOn' = setupOn
      /\ sup \in {"dialling", "connected"}
      /\ declared' \in {declared, [declared EXCEPT !.sup = 0]}
  BY DEF RedialStep, Redial, ReadChannels, connVars, userVars
<1>3. /\ declared' \in [{"main", "sup"} -> 0..Bound]
      /\ declared'.main = declared.main /\ topology \in Nat
  BY <1>1, <1>2 DEF TypeOK, Bound
<1>4. CASE sup = "dialling" /\ Connect /\ sup' = "connected" /\ declared' = declared
  <2>1. Leaking \/ current \notin opened
    BY <1>4 DEF Leaking
  <2>2. Paid' /\ dials' \in Nat /\ opened' \in SUBSET (1..dials') /\ current' = dials'
    BY <1>1, <1>2, <1>4, <2>1, PaidWithConnection
  <2>3. dials \in Nat /\ dials' = dials + 1 /\ opened' = opened \cup {dials + 1}
    BY <1>1, <1>4 DEF Connect, TypeOK
  <2>4. setupOn \in 0..dials' /\ byClose \in 0..dials' /\ pch \in 0..dials' /\ con \in 0..dials'
    BY <1>1, <2>3 DEF TypeOK
  <2>5. TypeOK'
    BY <1>1, <1>2, <1>3, <1>4, <2>2, <2>4 DEF TypeOK
  <2>6. Phases'
    BY <1>1, <1>2, <1>4, <2>3 DEF Phases, TypeOK
  <2>7. Declared'
    <3>1. setupOn # dials + 1
      BY <1>1, <2>3 DEF TypeOK
    <3> QED
      BY <1>1, <1>2, <1>4, <2>3, <3>1 DEF Declared
  <2>8. Redeclared'
    BY <1>1, <1>2, <1>4 DEF Redeclared, Phases, Redeclaring
  <2> QED
    BY <2>2, <2>5, <2>6, <2>7, <2>8 DEF ConnectionInv
<1>5. CASE sup = "dialling" /\ sup' = "redial" /\ UNCHANGED <<opened, dials, current, declared>>
  <2>1. TypeOK'
    BY <1>1, <1>2, <1>3, <1>5 DEF TypeOK
  <2>2. Paid'
    BY <1>1, <1>2, <1>5, PaidStill DEF TypeOK
  <2> QED
    BY <1>1, <1>2, <1>3, <1>5, <2>1, <2>2
       DEF ConnectionInv, Phases, Declared, Redeclared, Redeclaring
<1>6. CASE ReadChannels
  <2>1. /\ sup = "connected" /\ sup' = IF channels THEN "declaring" ELSE "register"
        /\ opened' = opened /\ dials' = dials /\ current' = current /\ declared'.sup = 0
    BY <1>1, <1>6 DEF ReadChannels, TypeOK
  <2>2. TypeOK'
    BY <1>1, <1>2, <1>3, <2>1 DEF TypeOK
  <2>3. Paid'
    BY <1>1, <1>2, <2>1, PaidStill DEF TypeOK
  <2>4. Redeclared'
    BY <1>1, <1>2, <2>1 DEF Redeclared, Phases, Redeclaring
  <2> QED
    BY <1>1, <1>2, <1>3, <2>1, <2>2, <2>3, <2>4 DEF ConnectionInv, Phases, Declared, Bound
<1> QED
  BY <1>4, <1>5, <1>6 DEF RedialStep, Redial

LEMMA RedeclareKeeps ==
    ASSUME ConnectionInv, RedeclareStep
    PROVE  ConnectionInv'
<1>1. TypeOK /\ Phases /\ Declared /\ Redeclared /\ Paid
  BY DEF ConnectionInv
<1>2. /\ channels' = channels /\ closing' = closing /\ byClose' = byClose /\ main' = main
      /\ current' = current /\ missed' = missed /\ up' = up /\ opened' = opened
      /\ dials' = dials /\ pub' = pub /\ pch' = pch /\ con' = con /\ sup = "declaring"
      /\ setupOn' = setupOn
  BY DEF RedeclareStep, Redeclare, connVars, userVars
<1>3. CASE /\ Channel /\ Declare("sup") /\ faults' = faults
           /\ sup' = IF declared'.sup = Bound THEN "register" ELSE "declaring"
  <2>1. /\ topology' \in 0..Bound /\ declared' \in [{"main", "sup"} -> 0..Bound]
        /\ topology' >= topology /\ topology' >= declared'.sup
        /\ declared'.main = declared.main
    BY <1>1, <1>2, <1>3, DeclareTypes DEF Declared
  <2>2. TypeOK'
    BY <1>1, <1>2, <1>3, <2>1 DEF TypeOK
  <2>3. Paid'
    BY <1>1, <1>2, <1>3, PaidStill DEF TypeOK
  <2>4. Declared'
    BY <1>1, <1>2, <1>3, <2>1 DEF Declared, Bound, TypeOK
  <2>5. Redeclared'
    BY <1>2, <1>3, <2>1 DEF Redeclared, Redeclaring, Bound
  <2> QED
    BY <1>1, <1>2, <1>3, <2>2, <2>3, <2>4, <2>5 DEF ConnectionInv, Phases
<1>4. CASE DeclareFails(current) /\ sup' = "redial" /\ UNCHANGED <<declared, topology>>
  <2>1. Paid' /\ faults' \in [{"losses", "outages", "refusals", "publishes"} -> Nat]
    BY <1>1, <1>2, <1>4, PaidStill, PaidWithRefusal DEF DeclareFails, TypeOK
  <2>2. TypeOK'
    BY <1>1, <1>2, <1>4, <2>1 DEF TypeOK
  <2> QED
    BY <1>1, <1>2, <1>4, <2>1, <2>2
       DEF ConnectionInv, Phases, Declared, Redeclared, Redeclaring
<1> QED
  BY <1>3, <1>4 DEF RedeclareStep, Redeclare

-----------------------------------------------------------------------------
\* The users of the connection, the network, and every step

LEMMA PublishKeeps ==
    ASSUME ConnectionInv, Publish
    PROVE  ConnectionInv'
<1>1. TypeOK /\ Phases /\ Declared /\ Redeclared /\ Paid
  BY DEF ConnectionInv
<1>2. /\ channels' = channels /\ closing' = closing /\ byClose' = byClose /\ main' = main
      /\ current' = current /\ missed' = missed /\ up' = up /\ opened' = opened
      /\ dials' = dials /\ con' = con /\ sup' = sup /\ declared' = declared
      /\ topology' = topology /\ setupOn' = setupOn
  BY DEF Publish, connVars
<1>3. /\ faults' \in [{"losses", "outages", "refusals", "publishes"} -> Nat]
      /\ faults'.refusals = faults.refusals
  BY <1>1, CountTypes DEF Publish, EnsureChannel, PublishTo, Confirmed, TypeOK
<1>4. /\ pub' \in {"idle", "ready", "stored", "dropped"} /\ pch' \in {pch, current, 0}
      /\ pub' # "idle" => main = "running"
  BY <1>1 DEF Publish, EnsureChannel, PublishTo, Confirmed, Verdict, Phases
<1>5. TypeOK'
  BY <1>1, <1>2, <1>3, <1>4 DEF TypeOK
<1>6. Paid'
  BY <1>1, <1>2, <1>3, PaidStill
<1> QED
  BY <1>1, <1>2, <1>4, <1>5, <1>6 DEF ConnectionInv, Phases, Declared, Redeclared

LEMMA ConsumeKeeps ==
    ASSUME ConnectionInv, Consume
    PROVE  ConnectionInv'
<1>1. TypeOK /\ Phases /\ Declared /\ Redeclared /\ Paid
  BY DEF ConnectionInv
<1>2. /\ channels' = channels /\ closing' = closing /\ byClose' = byClose /\ main' = main
      /\ current' = current /\ missed' = missed /\ up' = up /\ opened' = opened
      /\ dials' = dials /\ sup' = sup /\ declared' = declared /\ topology' = topology
      /\ pub' = pub /\ pch' = pch /\ faults' = faults /\ con' \in {current, 0}
      /\ setupOn' = setupOn
  BY DEF Consume, Subscribe, DeliveriesEnd, connVars
<1>3. TypeOK'
  BY <1>1, <1>2 DEF TypeOK
<1>4. Paid'
  BY <1>1, <1>2, PaidStill DEF TypeOK
<1> QED
  BY <1>1, <1>2, <1>3, <1>4 DEF ConnectionInv, Phases, Declared, Redeclared

\* What breaks connections breaks the claims about them, too.
LEMMA NetworkKeeps ==
    ASSUME ConnectionInv, Lose \/ Down \/ Up
    PROVE  ConnectionInv'
<1>1. TypeOK /\ Phases /\ Declared /\ Redeclared /\ Paid
  BY DEF ConnectionInv
<1>2. /\ channels' = channels /\ closing' = closing /\ byClose' = byClose /\ main' = main
      /\ current' = current /\ missed' = missed /\ dials' = dials /\ con' = con
      /\ pub' = pub /\ pch' = pch /\ sup' = sup /\ declared' = declared
      /\ opened' \subseteq opened /\ up' \in BOOLEAN /\ topology' \in {topology, 0}
      /\ topology' = topology \/ opened' = {}
      /\ setupOn' = setupOn
  BY <1>1 DEF Lose, Down, Up, connVars, userVars, TypeOK
<1>3. /\ faults' \in [{"losses", "outages", "refusals", "publishes"} -> Nat]
      /\ faults'.refusals = faults.refusals
  BY <1>1, CountTypes DEF Lose, Down, Up, TypeOK
<1>4. TypeOK'
  BY <1>1, <1>2, <1>3 DEF TypeOK, Bound
<1>5. Paid'
  BY <1>1, <1>2, <1>3, PaidStill
<1> QED
  BY <1>1, <1>2, <1>4, <1>5 DEF ConnectionInv, Phases, Declared, Redeclared

LEMMA ConnectionStarts == Init => ConnectionInv
<1> SUFFICES ASSUME Init PROVE ConnectionInv
  OBVIOUS
<1>1. TypeOK
  <2>1. declared \in [{"main", "sup"} -> 0..Bound]
    BY DEF Init, Bound
  <2>2. faults \in [{"losses", "outages", "refusals", "publishes"} -> Nat]
    BY DEF Init
  <2>3. opened \in SUBSET (1..dials) /\ topology \in 0..Bound
    BY DEF Init, Bound
  <2>4. /\ dials \in Nat /\ current = dials /\ setupOn \in 0..dials
        /\ byClose \in 0..dials /\ pch \in 0..dials /\ con \in 0..dials
    BY DEF Init
  <2>5. /\ up \in BOOLEAN /\ channels \in BOOLEAN /\ closing \in BOOLEAN /\ missed \in BOOLEAN
        /\ main = "start" /\ sup = "unborn" /\ pub = "idle"
    BY DEF Init
  <2> QED
    BY <2>1, <2>2, <2>3, <2>4, <2>5 DEF TypeOK
<1>2. Paid
  <2>1. opened \ {current} = {} /\ faults.refusals = 0 /\ current \notin opened
    BY DEF Init
  <2> QED
    BY <2>1, FS_EmptySet DEF Paid, Leaking
<1> QED
  BY <1>1, <1>2 DEF Init, ConnectionInv, Phases, Declared, Redeclared

LEMMA ConnectionKeeps == ConnectionInv /\ [Next]_vars => ConnectionInv'
<1> SUFFICES ASSUME ConnectionInv, [Next]_vars PROVE ConnectionInv'
  OBVIOUS
<1>1. CASE UNCHANGED vars
  BY <1>1 DEF vars, connVars, userVars, ConnectionInv, TypeOK, Phases, Declared,
     Redeclared, Paid, Leaking
<1>2. CASE Exited
  BY <1>1, <1>2 DEF Exited
<1>3. CASE Supervise
  BY <1>3, ObserveKeeps, RedialKeeps, RedeclareKeeps DEF Supervise
<1> QED
  BY <1>1, <1>2, <1>3, DialKeeps, SetupKeeps, OpenSetupChannelKeeps, SetupDeclaresKeeps,
     StopKeeps, CloseKeeps, PublishKeeps, ConsumeKeeps, NetworkKeeps DEF Next

LEMMA ConnectionInvHolds == Spec => []ConnectionInv
BY ConnectionStarts, ConnectionKeeps, PTL DEF Spec

-----------------------------------------------------------------------------
\* What the connection promises

\* Every variable has its type, the topology's progress included: Setup and the
\* supervisor may both be declaring, on one connection or on two of them.
\* (Setup, reconnectWithBackoff, declareTopology)
THEOREM ConnectionTypes == Spec => []TypeOK
<1>1. ConnectionInv => TypeOK
  BY DEF ConnectionInv
<1> QED
  BY <1>1, ConnectionInvHolds, PTL

\* The process never holds more open connections than one, and one for each
\* declaration that the broker refused. (reconnectWithBackoff, Close)
THEOREM NothingElseLeaks == Spec => []ConnectionsArePaid
<1>1. ConnectionInv => ConnectionsArePaid
  <2> SUFFICES ASSUME ConnectionInv PROVE ConnectionsArePaid
    OBVIOUS
  <2>1. /\ IsFiniteSet(opened) /\ Cardinality(opened) \in Nat
        /\ Cardinality(opened \ {current}) \in Nat /\ faults.refusals \in Nat
    <3>1. dials \in Nat /\ opened \subseteq 1..dials /\ opened \ {current} \subseteq 1..dials
          /\ faults.refusals \in Nat
      BY DEF ConnectionInv, TypeOK
    <3> QED
      BY <3>1, CardTypes
  <2>2. Cardinality(opened \ {current}) <= faults.refusals
    BY DEF ConnectionInv, Paid
  <2>3. CASE current \in opened
    <3>1. Cardinality(opened \ {current}) = Cardinality(opened) - 1
      BY <2>1, <2>3, FS_RemoveElement
    <3> QED
      BY <2>1, <2>2, <3>1 DEF ConnectionsArePaid
  <2>4. CASE current \notin opened
    <3>1. opened \ {current} = opened
      BY <2>4
    <3> QED
      BY <2>1, <2>2, <3>1 DEF ConnectionsArePaid
  <2> QED
    BY <2>3, <2>4
<1> QED
  BY <1>1, ConnectionInvHolds, PTL

\* The broker confirms a message and drops it only while the supervisor is
\* bringing back a topology that was lost. (connect before declareTopology)
THEOREM DropsOnlyThen == Spec => DropsWhileRedeclaring
<1>1. ConnectionInv /\ [Next]_vars =>
        [pub = "ready" /\ pub' = "dropped" => sup \in Redeclaring]_vars
  <2> SUFFICES ASSUME ConnectionInv, Next, pub = "ready", pub' = "dropped"
               PROVE  sup \in Redeclaring
    OBVIOUS
  <2>1. Publish
    BY DEF Next, Dial, Setup, OpenSetupChannel, SetupDeclares, Stop, CloseStep, Supervise,
           Observe, RedialStep, RedeclareStep, Consume, Lose, Down, Up, Exited, vars, userVars
  <2>2. PICK target \in {"exchange", "queue"} : PublishTo(target)
    BY <2>1 DEF Publish, EnsureChannel, Confirmed
  <2>3. pch \in opened /\ Verdict(target) = "dropped"
    BY <2>2 DEF PublishTo
  <2>4. topology \in 0..Bound /\ main = "running"
    BY DEF ConnectionInv, TypeOK, Phases
  <2>5. topology < Bound
    BY <2>3, <2>4 DEF Verdict, Bound, Exchange, Queues
  <2> QED
    BY <2>3, <2>4, <2>5 DEF ConnectionInv, Redeclared
<1> QED
  BY <1>1, ConnectionInvHolds, PTL DEF Spec, DropsWhileRedeclaring

\* A connection is closed on purpose by Close alone.
Deliberate ==
    /\ SupervisorStays
    /\ byClose # 0 \/ main \in {"closing", "closed"} => closing

\* The supervisor ends for Close or for a connection that it never watched, with
\* any number of failures in between. (supervise, reconnectWithBackoff)
THEOREM SupervisorEndsOnPurpose == Spec => []SupervisorStays
<1>1. Init => Deliberate
  BY DEF Init, Deliberate, SupervisorStays
<1>2. ConnectionInv /\ Deliberate /\ [Next]_vars => Deliberate'
  <2> SUFFICES ASSUME ConnectionInv, Deliberate, [Next]_vars PROVE Deliberate'
    OBVIOUS
  <2>1. current = dials /\ dials \in Nat /\ (sup # "unborn" => dials >= 1)
    BY DEF ConnectionInv, TypeOK, Phases
  <2>2. CASE Observe
    <3>1. UNCHANGED <<closing, byClose, main>> /\ (Register \/ Watch \/ CheckClosed)
      BY <2>2 DEF Observe, connVars
    <3>2. CASE Register
      BY <3>1, <3>2 DEF Register, Deliberate, SupervisorStays
    <3>3. CASE Watch
      <4>1. current # 0
        BY <2>1, <3>3 DEF Watch
      <4> QED
        BY <3>1, <3>3, <4>1 DEF Watch, Deliberate, SupervisorStays
    <3>4. CASE CheckClosed
      BY <3>1, <3>4 DEF CheckClosed, Deliberate, SupervisorStays
    <3> QED
      BY <3>1, <3>2, <3>3, <3>4
  <2>3. CASE CloseStep
    BY <2>3 DEF CloseStep, Close, Deliberate, SupervisorStays
  <2>4. CASE RedialStep \/ RedeclareStep
    BY <2>4 DEF RedialStep, Redial, ReadChannels, RedeclareStep, Redeclare, connVars, Deliberate,
       SupervisorStays
  <2>5. CASE Dial
    BY <2>5 DEF Dial, Deliberate, SupervisorStays
  <2>6. CASE \/ Setup \/ OpenSetupChannel \/ SetupDeclares \/ Stop
             \/ Publish \/ Consume \/ Lose \/ Down \/ Up
             \/ Exited \/ UNCHANGED vars
    <3>1. /\ UNCHANGED <<sup, missed, closing, byClose>>
          /\ main' \in {main, "setup", "declaring", "running", "stopped"}
      BY <2>6 DEF Setup, OpenSetupChannel, SetupDeclares, Stop, Publish, Consume, Lose, Down, Up, Exited,
         vars, connVars
    <3> QED
      BY <3>1 DEF Deliberate, SupervisorStays
  <2> QED
    BY <2>2, <2>3, <2>4, <2>5, <2>6 DEF Next, Supervise
<1>3. Deliberate => SupervisorStays
  BY DEF Deliberate
<1> QED
  BY <1>1, <1>2, <1>3, ConnectionInvHolds, PTL DEF Spec
=============================================================================
