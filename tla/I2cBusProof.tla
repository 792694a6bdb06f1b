------------------------------ MODULE I2cBusProof ------------------------------
(***************************************************************************)
(* Proofs about I2cBus, for any capacity, length of operations, number of  *)
(* operations, transfers and aborts.                                       *)
(***************************************************************************)
EXTENDS I2cBus, FiniteSetTheorems, NaturalsInduction, WellFoundedInduction, TLAPS

Driver == [length : 0 .. MaxLength, done : Nat, id : Nat, correlation : Nat,
           last : {"none", "OK", "ERROR"}]

Heard == {"free", "open", "answered", "unexpected"}

\* late is a set of requests that were on the wire.
BusType ==
    /\ active \in Transaction \cup {None}
    /\ pending \in SUBSET Transaction
    /\ generation \in Nat /\ nextId \in Nat \ {0}
    /\ asked \in 0 .. MaxTransfers /\ token \in 0 .. MaxOperations
    /\ owner \in Nat
    /\ fram \in Driver
    /\ wire \in Transaction \cup {None}
    /\ late \in SUBSET Transaction
    /\ notices \in [Ids -> Heard]

-----------------------------------------------------------------------------
(* The inductive invariant.                                                *)

\* The active transaction is stamped with the present generation, a request that
\* was given up with an earlier one.
Stamped ==
    /\ active # None => active.bus = generation
    /\ wire # None => wire.bus <= generation
    /\ \A r \in late : r.bus < generation

\* Identifiers are new, and there are enough of them: an operation draws at most
\* one for each of its chunks.
Drawn ==
    /\ \A t \in Held : t.id < nextId
    /\ \A i \in Ids : i >= nextId => notices[i] = "free"
    /\ IF fram.length = 0
       THEN nextId <= 1 + asked + token * MaxLength
       ELSE /\ fram.done < fram.length
            /\ nextId + MaxLength <= 2 + asked + token * MaxLength + fram.done

\* Every F-RAM transfer carries the correlation of an operation, and the driver
\* has none when it is idle: a transfer that was given up is never taken for one
\* of the operation in progress.
Asked(S) == \A t \in S : t.client = "fram" => t.correlation # 0

Tokens ==
    /\ fram.length = 0 => fram.correlation = 0
    /\ Asked(Held)
    /\ wire # None => Asked({wire})

IInv == BusType /\ Stamped /\ Drawn /\ OneNotice /\ SidesAgree /\ Tokens

\* Of a step: no F-RAM operation begins on the wire ahead of a waiting pressure
\* transaction.
PressureFirst ==
    active' # None /\ active' # active /\ active'.client = "fram" /\ active'.chunk = 1
    => \A t \in pending' : t.client # "pressure"

\* Of a step: the storage port makes one, or sees nothing.
PortStep == [Port!PortNext]_(Port!portVars)

StepHolds == PressureFirst /\ PortStep

-----------------------------------------------------------------------------
(* Arbitration.                                                            *)

\* Every non-empty set of naturals has a least member.
LEMMA LeastNatural ==
    ASSUME NEW T \in SUBSET Nat, T # {}
    PROVE  \E m \in T : \A n \in T : m <= n
<1> DEFINE R == OpToRel(<, Nat)
<1>1. IsWellFoundedOn(R, Nat)
  BY NatLessThanWellFounded
<1>2. ASSUME NEW n \in Nat, NEW m \in Nat, n < m
      PROVE  <<n, m>> \in R
  BY <1>2 DEF OpToRel
<1> HIDE DEF R
<1>3. PICK m \in T : \A n \in T : ~(<<n, m>> \in R)
  BY <1>1, WFMin
<1>4. ASSUME NEW n \in T
      PROVE  m <= n
  <2>1. n \in Nat /\ m \in Nat
    OBVIOUS
  <2>2. ~(n < m)
    BY <1>2, <1>3, <2>1
  <2> QED
    BY <2>1, <2>2
<1> QED
  BY <1>4

Distinct(S) == \A t, u \in S : t.id = u.id => t = u

\* best_pending_index finds one that goes before all others.
LEMMA BestIsFirst ==
    ASSUME NEW S \in SUBSET Transaction, S # {}, Distinct(S)
    PROVE  /\ Best(S) \in S
           /\ \A u \in S \ {Best(S)} : Before(Best(S), u)
<1> DEFINE P == {t \in S : t.client = "pressure"}
           C == IF P = {} THEN S ELSE P
           I == {t.id : t \in C}
<1>1. C \subseteq S /\ C # {}
  OBVIOUS
<1>2. I \in SUBSET Nat /\ I # {}
  BY <1>1 DEF Transaction
<1>3. PICK m \in I : \A n \in I : m <= n
  BY <1>2, LeastNatural
<1>4. PICK b \in C : b.id = m
  OBVIOUS
<1>5. ASSUME NEW u \in S, u # b
      PROVE  Before(b, u)
  <2>1. b \in S /\ b \in Transaction /\ u \in Transaction
    BY <1>1
  <2>2. b.id # u.id
    BY <1>5, <2>1 DEF Distinct
  <2>3. CASE u \in C
    <3>1. b.client = u.client /\ b.client \in Clients
      BY <2>1, <2>3 DEF Transaction, Clients
    <3>2. b.id <= u.id /\ b.id \in Nat /\ u.id \in Nat
      BY <1>3, <1>4, <2>1, <2>3 DEF Transaction
    <3>3. b.id < u.id
      BY <2>2, <3>2
    <3> QED
      BY <3>1, <3>3 DEF Before
  <2>4. CASE u \notin C
    <3>1. b.client = "pressure" /\ u.client = "fram"
      BY <2>1, <2>4 DEF Transaction, Clients
    <3> QED
      BY <3>1 DEF Before, Priority, Clients
  <2> QED
    BY <2>3, <2>4
<1>6. b \in S /\ \A u \in S \ {b} : Before(b, u)
  BY <1>1, <1>5
<1> HIDE DEF P, C, I
<1> QED
  BY <1>6 DEF Best

\* What start_next leaves in active, wire, pending, notices and fram (a, w, p, n, f):
\* everything was refused, or one of the others is on the wire and goes before
\* those that wait.
Outcome(Q, driver, port, H, g, a, w, p, n, f) ==
    \E refused \in SUBSET Q :
        /\ f = Failed(driver, refused)
        /\ n = Notified(H \cup refused)
        /\ \/ refused = Q /\ a = None /\ p = {} /\ w = port
           \/ \E b \in Q \ refused :
                 /\ a = [b EXCEPT !.bus = g] /\ w = a /\ a \in Transaction
                 /\ p = (Q \ refused) \ {b}
                 /\ \A u \in p : Before(b, u)

LEMMA StartNextHolds ==
    ASSUME NEW Q \in SUBSET Transaction, Distinct(Q), NEW driver, NEW port, NEW H,
           NEW g \in Nat, NEW a, NEW w, NEW p, NEW n, NEW f,
           \E refused \in Ahead(Q) :
               LET rest == Q \ refused
               IN /\ port # None => rest = {}
                  /\ a = IF rest = {} THEN None ELSE [Best(rest) EXCEPT !.bus = g]
                  /\ w = IF rest = {} THEN port ELSE a
                  /\ p = IF rest = {} THEN {} ELSE rest \ {Best(rest)}
                  /\ n = Notified(H \cup refused)
                  /\ f = Failed(driver, refused)
    PROVE  Outcome(Q, driver, port, H, g, a, w, p, n, f)
<1>1. PICK refused \in Ahead(Q) :
        LET rest == Q \ refused
        IN /\ a = IF rest = {} THEN None ELSE [Best(rest) EXCEPT !.bus = g]
           /\ w = IF rest = {} THEN port ELSE a
           /\ p = IF rest = {} THEN {} ELSE rest \ {Best(rest)}
           /\ n = Notified(H \cup refused)
           /\ f = Failed(driver, refused)
  OBVIOUS
<1>2. refused \in SUBSET Q
  BY DEF Ahead
<1> DEFINE rest == Q \ refused
<1>3. CASE rest = {}
  <2>1. /\ f = Failed(driver, refused) /\ n = Notified(H \cup refused)
        /\ refused = Q /\ a = None /\ p = {} /\ w = port
    BY <1>1, <1>2, <1>3
  <2> QED
    BY <1>2, <2>1 DEF Outcome
<1>4. CASE rest # {}
  <2>1. Distinct(rest) /\ rest \in SUBSET Transaction
    BY DEF Distinct
  <2>2. /\ Best(rest) \in rest
        /\ \A u \in rest \ {Best(rest)} : Before(Best(rest), u)
    BY <1>4, <2>1, BestIsFirst
  <2>3. [Best(rest) EXCEPT !.bus = g] \in Transaction
    BY <2>1, <2>2 DEF Transaction
  <2> QED
    BY <1>1, <1>2, <1>4, <2>2, <2>3 DEF Outcome
<1> QED
  BY <1>3, <1>4

-----------------------------------------------------------------------------
(* The handlers' common end.                                               *)

LEMMA IdleType == \A result \in {"none", "OK", "ERROR"} : Idle(result) \in Driver
  BY SizesAssumption DEF Idle, Driver

\* Whoever is notified was owed an answer, so that nobody hears a second one.
LEMMA NotifiedIs ==
    ASSUME BusType, OneNotice, NEW S \in SUBSET Held
    PROVE  /\ Notified(S) \in [Ids -> Heard]
           /\ \A i \in Ids :
                 Notified(S)[i] = IF \E t \in S : t.id = i THEN "answered" ELSE notices[i]
<1>1. \A t \in S : t.id \in Ids => notices[t.id] = "open"
  BY DEF OneNotice
<1> QED
  BY <1>1 DEF Notified, BusType, Heard

\* start_next after the clients in H were told, over the rest Q of what was held.
LEMMA StartNextKeeps ==
    ASSUME BusType, OneNotice,
           NEW Q, NEW H, Q \cup H = Held, Q \cap H = {},
           NEW driver \in Driver,
           NEW port \in Transaction \cup {None}, port # None => port.bus <= generation,
           generation' \in Nat, generation <= generation',
           Outcome(Q, driver, port, H, generation', active', wire', pending', notices', fram')
    PROVE  /\ active' \in Transaction \cup {None} /\ pending' \in SUBSET Transaction
           /\ wire' \in Transaction \cup {None} /\ fram' \in Driver
           /\ notices' \in [Ids -> Heard]
           /\ OneNotice' /\ WireMatchesManager'
           /\ active' # None => active'.bus = generation'
           /\ wire' # None => wire'.bus <= generation'
           /\ \A u \in Held' : \E t \in Held : t.id = u.id
           /\ \A i \in Ids : notices[i] = "free" => notices'[i] = "free"
<1>1. Held \in SUBSET Transaction /\ Distinct(Held)
  BY DEF Held, BusType, OneNotice, Distinct
<1>3. PICK refused \in SUBSET Q :
        /\ fram' = Failed(driver, refused)
        /\ notices' = Notified(H \cup refused)
        /\ \/ refused = Q /\ active' = None /\ pending' = {} /\ wire' = port
           \/ \E b \in Q \ refused :
                 /\ active' = [b EXCEPT !.bus = generation'] /\ wire' = active'
                 /\ active' \in Transaction
                 /\ pending' = (Q \ refused) \ {b}
  BY DEF Outcome
<1> DEFINE S == H \cup refused
<1>4. S \in SUBSET Held /\ Q \ refused = Held \ S
  OBVIOUS
<1>5. /\ notices' \in [Ids -> Heard]
      /\ \A i \in Ids : notices'[i] = IF \E t \in S : t.id = i THEN "answered" ELSE notices[i]
  BY <1>3, <1>4, NotifiedIs
<1>6. fram' \in Driver
  BY <1>3, IdleType DEF Failed
<1>7. \A i \in Ids : notices'[i] # "unexpected"
                    /\ (notices'[i] = "open" <=> \E t \in Held \ S : t.id = i)
  BY <1>1, <1>4, <1>5 DEF OneNotice, Distinct
<1>8. \A i \in Ids : notices[i] = "free" => notices'[i] = "free"
  BY <1>4, <1>5 DEF OneNotice
<1>9. CASE refused = Q /\ active' = None /\ pending' = {} /\ wire' = port
  <2>1. Held' = {} /\ Held \ S = {}
    BY <1>9 DEF Held
  <2>2. OneNotice'
    BY <1>7, <1>9, <2>1 DEF OneNotice
  <2>3. WireMatchesManager'
    BY <1>9 DEF WireMatchesManager
  <2>4. port # None => port.bus \in Nat
    BY DEF Transaction
  <2> QED
    BY <1>5, <1>6, <1>8, <1>9, <2>1, <2>2, <2>3, <2>4 DEF BusType
<1>10. ASSUME NEW b \in Q \ refused,
              active' = [b EXCEPT !.bus = generation'], wire' = active',
              active' \in Transaction, pending' = (Q \ refused) \ {b}
       PROVE  /\ active' \in Transaction \cup {None} /\ pending' \in SUBSET Transaction
              /\ wire' \in Transaction \cup {None}
              /\ OneNotice' /\ WireMatchesManager'
              /\ active'.bus = generation'
              /\ wire'.bus <= generation'
              /\ \A u \in Held' : \E t \in Held : t.id = u.id
  <2>1. b \in Transaction /\ b \in Held \ S /\ pending' = (Held \ S) \ {b}
    BY <1>1, <1>4, <1>10
  <2>2. active' # None
    BY <1>10, NoneAssumption
  <2>3. active'.id = b.id /\ active'.bus = generation'
    BY <1>10, <2>1 DEF Transaction
  <2>4. Held' = pending' \cup {active'}
    BY <2>2 DEF Held
  <2>5. \A u \in pending' : u.id # b.id
    BY <1>1, <2>1 DEF Distinct
  <2>6. \A i : (\E t \in Held' : t.id = i) <=> (\E t \in Held \ S : t.id = i)
    BY <2>1, <2>3, <2>4
  <2>7. \A t, u \in Held' : t.id = u.id => t = u
    <3> SUFFICES ASSUME NEW t \in Held', NEW u \in Held', t.id = u.id PROVE t = u
      OBVIOUS
    <3>1. CASE t \in pending' /\ u \in pending'
      BY <1>1, <2>1, <3>1 DEF Distinct
    <3>2. CASE t = active' \/ u = active'
      BY <2>3, <2>4, <2>5, <3>2
    <3> QED
      BY <2>4, <3>1, <3>2
  <2>8. active' \notin pending'
    BY <2>3, <2>5
  <2>9. OneNotice'
    BY <1>7, <2>6, <2>7, <2>8 DEF OneNotice
  <2>10. WireMatchesManager'
    BY <1>10, <2>2 DEF WireMatchesManager
  <2> QED
    BY <1>1, <1>10, <2>1, <2>3, <2>6, <2>9, <2>10
<1> QED
  BY <1>3, <1>5, <1>6, <1>8, <1>9, <1>10

\* The driver waits for the only transfer of its own in S.
Fits(operation, S, moved) ==
    LET mine == {t \in S : t.client = "fram"}
    IN IF operation.length = 0 THEN mine = {}
       ELSE \E t \in mine : /\ mine = {t} /\ IsAwaited(operation, t)
                            /\ t.chunk = operation.done + 1
                            /\ moved = 1 .. operation.done

\* When start_next ends, the driver waits for what is left, or was told that its
\* transfer was refused.
LEMMA StartNextFits ==
    ASSUME NEW Q \in SUBSET Transaction, NEW H, NEW driver \in Driver, NEW port, NEW moved,
           Fits(driver, Q, moved),
           driver.length # 0 => owner' = owner /\ carried' = moved,
           Outcome(Q, driver, port, H, generation', active', wire', pending', notices', fram')
    PROVE  DriverMatchesBus' /\ (fram' = driver \/ fram' = Idle("ERROR"))
<1>1. PICK refused \in SUBSET Q :
        /\ fram' = Failed(driver, refused)
        /\ \/ refused = Q /\ active' = None /\ pending' = {}
           \/ \E b \in Q \ refused :
                 /\ active' = [b EXCEPT !.bus = generation']
                 /\ active' \in Transaction
                 /\ pending' = (Q \ refused) \ {b}
  BY DEF Outcome
<1>2. fram' = driver \/ fram' = Idle("ERROR")
  BY <1>1 DEF Failed
\* What is held is what was not refused, but for the stamp.
<1>3. /\ \A u \in Held' : \E t \in Q \ refused :
            /\ u.id = t.id /\ u.client = t.client /\ u.correlation = t.correlation
            /\ u.chunk = t.chunk /\ u.owner = t.owner
            /\ \/ u = t /\ t \in pending'
               \/ u = active' /\ active' = [t EXCEPT !.bus = generation'] /\ t \notin pending'
      /\ \A t \in Q \ refused : \E u \in Held' :
            /\ u.id = t.id /\ u.client = t.client /\ u.correlation = t.correlation
            /\ u.chunk = t.chunk /\ u.owner = t.owner
  <2>1. CASE refused = Q /\ active' = None /\ pending' = {}
    BY <2>1 DEF Held
  <2>2. ASSUME NEW b \in Q \ refused, active' = [b EXCEPT !.bus = generation'],
               active' \in Transaction, pending' = (Q \ refused) \ {b}
        PROVE  <1>3!:
    <3>1. active' # None
      BY <2>2, NoneAssumption
    <3>2. Held' = pending' \cup {active'}
      BY <3>1 DEF Held
    <3>3. /\ active'.id = b.id /\ active'.client = b.client
          /\ active'.correlation = b.correlation
          /\ active'.chunk = b.chunk /\ active'.owner = b.owner
      BY <2>2 DEF Transaction
    <3> QED
      BY <2>2, <3>2, <3>3
  <2> QED
    BY <1>1, <2>1, <2>2
<1>4. CASE driver.length = 0
  <2>1. fram' = driver
    BY <1>1, <1>4 DEF Failed, IsAwaited
  <2>2. {u \in Held' : u.client = "fram"} = {}
    BY <1>3, <1>4 DEF Fits
  <2> QED
    BY <1>2, <1>4, <2>1, <2>2 DEF DriverMatchesBus
<1>5. CASE driver.length # 0
  <2>1. PICK t \in Q : /\ {u \in Q : u.client = "fram"} = {t} /\ IsAwaited(driver, t)
                       /\ t.chunk = driver.done + 1 /\ moved = 1 .. driver.done
    BY <1>5 DEF Fits
  <2>2. CASE t \in refused
    <3>1. fram' = Idle("ERROR") /\ fram'.length = 0
      BY <1>1, <2>1, <2>2 DEF Failed, Idle
    <3>2. {u \in Held' : u.client = "fram"} = {}
      BY <1>3, <2>1, <2>2
    <3> QED
      BY <3>1, <3>2 DEF DriverMatchesBus
  <2>3. CASE t \notin refused
    <3>1. fram' = driver
      BY <1>1, <2>1, <2>3 DEF Failed, IsAwaited
    <3>2. PICK u \in Held' :
            /\ u.id = t.id /\ u.client = t.client /\ u.correlation = t.correlation
            /\ u.chunk = t.chunk /\ u.owner = t.owner
      BY <1>3, <2>3
    <3>3. u.client = "fram"
      BY <2>1, <3>2
    <3>4. ASSUME NEW v \in Held', v.client = "fram" PROVE v = u
      BY <1>3, <2>1, <3>3, <3>4
    <3>5. {v \in Held' : v.client = "fram"} = {u}
      BY <3>3, <3>4
    <3>6. IsAwaited(driver, u)' /\ fram'.length # 0
      BY <1>5, <2>1, <3>1, <3>2 DEF IsAwaited
    <3> QED
      BY <1>5, <2>1, <3>1, <3>2, <3>5 DEF DriverMatchesBus, IsAwaited
  <2> QED
    BY <2>2, <2>3
<1> QED
  BY <1>2, <1>4, <1>5

\* An F-RAM transfer that start_next puts on the wire leaves no pressure transfer
\* behind.
LEMMA BestGoesFirst ==
    ASSUME NEW Q \in SUBSET Transaction, NEW driver, NEW port, NEW H,
           Outcome(Q, driver, port, H, generation', active', wire', pending', notices', fram'),
           active' # None, active'.client = "fram"
    PROVE  \A u \in pending' : u.client # "pressure"
<1>1. PICK b \in Q : /\ active' = [b EXCEPT !.bus = generation']
                     /\ pending' \subseteq Q
                     /\ \A u \in pending' : Before(b, u)
  BY DEF Outcome
<1>2. b.client = "fram"
  BY <1>1 DEF Transaction
<1>3. Priority["fram"] = 4 /\ Priority["pressure"] = 1
  BY DEF Priority, Clients
<1>4. ASSUME NEW u \in pending', u.client = "pressure" PROVE FALSE
  <2>1. Before(b, u)
    BY <1>1
  <2> QED
    BY <1>2, <1>3, <1>4, <2>1 DEF Before
<1> QED
  BY <1>4

-----------------------------------------------------------------------------
(* The driver as a storage port.                                           *)

\* The chunks of the operation in progress that were moved, counted.
LEMMA MovedChunks ==
    ASSUME BusType, Drawn, SidesAgree, fram.length # 0
    PROVE  /\ fram.done \in Nat /\ fram.length \in Nat /\ fram.done < fram.length
           /\ Cardinality(carried) = fram.done
           /\ Cardinality(carried \cup {fram.done + 1}) = fram.done + 1
<1>1. /\ fram.done \in Nat /\ fram.length \in Nat /\ fram.done < fram.length
      /\ carried = 1 .. fram.done
  BY SizesAssumption DEF BusType, Driver, Drawn, SidesAgree, DriverMatchesBus
<1>2. carried \cup {fram.done + 1} = 1 .. fram.done + 1
  BY <1>1
<1>3. Cardinality(1 .. fram.done) = fram.done
  <2>1. 1 \in Int /\ fram.done \in Int
    BY <1>1
  <2>2. Cardinality(1 .. fram.done) = IF 1 > fram.done THEN 0 ELSE fram.done - 1 + 1
    BY <2>1, FS_Interval
  <2> QED
    BY <1>1, <2>2
<1>4. Cardinality(1 .. fram.done + 1) = fram.done + 1
  <2>1. 1 \in Int /\ fram.done + 1 \in Int
    BY <1>1
  <2>2. Cardinality(1 .. fram.done + 1) =
          IF 1 > fram.done + 1 THEN 0 ELSE (fram.done + 1) - 1 + 1
    BY <2>1, FS_Interval
  <2> QED
    BY <1>1, <2>2
<1> QED
  BY <1>1, <1>2, <1>3, <1>4

LEMMA PortSeesNothing == UNCHANGED <<fram, carried>> => PortStep
BY DEF PortStep, Port!portVars

\* What the driver was told before start_next runs: nothing, or the end of its
\* operation.
Answers(driver) ==
    \/ driver = fram /\ carried' = carried
    \/ /\ fram.length # 0 /\ driver = Idle("ERROR")
       /\ carried' \in {carried, carried \cup {fram.done + 1}}
    \/ /\ fram.length # 0 /\ driver = Idle("OK")
       /\ fram.done + 1 = fram.length /\ carried' = carried \cup {fram.done + 1}

LEMMA AnswersType ==
    ASSUME fram \in Driver, NEW driver, Answers(driver)
    PROVE  driver \in Driver /\ (driver = fram \/ driver.length = 0)
BY IdleType DEF Answers, Idle

\* The answer it gives, if any, is one step of the port.
LEMMA AnswerIsPortStep ==
    ASSUME BusType, Drawn, SidesAgree, Answers(fram')
    PROVE  PortStep
<1>1. CASE UNCHANGED <<fram, carried>>
  BY <1>1, PortSeesNothing
<1>2. CASE /\ fram.length # 0 /\ fram' = Idle("ERROR")
           /\ carried' \in {carried, carried \cup {fram.done + 1}}
  <2>1. fram'.length = 0 /\ fram'.last = "ERROR"
    BY <1>2 DEF Idle
  <2>2. /\ Cardinality(carried') \in {Cardinality(carried), Cardinality(carried) + 1}
        /\ Cardinality(carried') <= fram.length
    <3> DEFINE after == carried \cup {fram.done + 1}
    <3>1. /\ fram.done \in Nat /\ fram.length \in Nat /\ fram.done < fram.length
          /\ Cardinality(carried) = fram.done /\ Cardinality(after) = fram.done + 1
      BY <1>2, MovedChunks
    <3> HIDE DEF after
    <3>2. carried' = carried \/ carried' = after
      BY <1>2 DEF after
    <3> QED
      BY <3>1, <3>2
  <2>3. Port!AnswerError
    BY <1>2, <2>1, <2>2 DEF Port!AnswerError
  <2> QED
    BY <2>3 DEF PortStep, Port!PortNext, Port!Answer
<1>3. CASE /\ fram.length # 0 /\ fram' = Idle("OK")
           /\ fram.done + 1 = fram.length /\ carried' = carried \cup {fram.done + 1}
  <2>1. fram'.length = 0 /\ fram'.last = "OK"
    BY <1>3 DEF Idle
  <2>2. /\ Cardinality(carried) + 1 = fram.length
        /\ Cardinality(carried') = fram.length
    BY <1>3, MovedChunks
  <2>3. Port!AnswerOk
    BY <1>3, <2>1, <2>2 DEF Port!AnswerOk
  <2> QED
    BY <2>3 DEF PortStep, Port!PortNext, Port!Answer
<1> QED
  BY <1>1, <1>2, <1>3 DEF Answers

\* start_next adds at most the end of the operation whose transfer it refused.
LEMMA EndIsPortStep ==
    ASSUME BusType, Drawn, SidesAgree, NEW driver, Answers(driver),
           NEW Q, NEW H, NEW g, NEW port,
           Outcome(Q, driver, port, H, g, active', wire', pending', notices', fram')
    PROVE  PortStep
<1>1. fram' = driver \/ (fram' = Idle("ERROR") /\ driver.length > 0)
  BY DEF Outcome, Failed, IsAwaited
<1>2. fram.length \in Nat /\ \A x : Idle(x).length = 0
  BY SizesAssumption DEF BusType, Driver, Idle
<1>3. Answers(fram')
  BY <1>1, <1>2 DEF Answers
<1> QED
  BY <1>3, AnswerIsPortStep

\* The transfers that start_next leaves were asked for by the same operations.
LEMMA EndKeepsTokens ==
    ASSUME NEW Q \in SUBSET Transaction, Asked(Q), NEW H, NEW g, NEW driver,
           driver.length = 0 => driver.correlation = 0,
           NEW port, port # None => Asked({port}),
           Outcome(Q, driver, port, H, g, active', wire', pending', notices', fram')
    PROVE  Tokens'
<1>1. PICK refused \in SUBSET Q :
        /\ fram' = Failed(driver, refused)
        /\ \/ refused = Q /\ active' = None /\ pending' = {} /\ wire' = port
           \/ \E b \in Q \ refused :
                 /\ active' = [b EXCEPT !.bus = g] /\ wire' = active'
                 /\ pending' = (Q \ refused) \ {b}
  BY DEF Outcome
<1>2. fram'.length = 0 => fram'.correlation = 0
  BY <1>1 DEF Failed, Idle
<1>3. CASE refused = Q /\ active' = None /\ pending' = {} /\ wire' = port
  BY <1>2, <1>3 DEF Tokens, Asked, Held
<1>4. ASSUME NEW b \in Q \ refused, active' = [b EXCEPT !.bus = g], wire' = active',
             pending' = (Q \ refused) \ {b}
      PROVE  Tokens'
  <2>1. active'.client = b.client /\ active'.correlation = b.correlation
    BY <1>4 DEF Transaction
  <2>2. Asked({active'}) /\ Asked(pending')
    BY <1>4, <2>1 DEF Asked
  <2> QED
    BY <1>2, <1>4, <2>2 DEF Tokens, Asked, Held
<1> QED
  BY <1>1, <1>3, <1>4

-----------------------------------------------------------------------------
(* The steps that end in start_next.                                       *)

\* Those in H were told, the driver is in its place, and start_next runs on Q.
LEMMA EndKeeps ==
    ASSUME IInv,
           NEW Q, NEW H, Q \cup H = Held, Q \cap H = {},
           NEW driver, Answers(driver),
           Fits(driver, Q, carried'), driver.length # 0 => owner' = owner,
           NEW port \in {None, wire},
           generation' \in Nat, generation <= generation', owner' \in Nat,
           UNCHANGED <<asked, token>>,
           \/ nextId' = nextId
           \/ /\ nextId' = nextId + 1 /\ fram.length # 0
              /\ fram.done + 1 < fram.length /\ driver.length = 0,
           late' \in SUBSET Transaction, \A r \in late' : r.bus < generation',
           Outcome(Q, driver, port, H, generation', active', wire', pending', notices', fram')
    PROVE  IInv' /\ StepHolds
<1> USE DEF IInv
<1>0. /\ driver \in Driver /\ (driver = fram \/ driver.length = 0)
      /\ port \in Transaction \cup {None} /\ (port # None => port.bus <= generation)
  BY AnswersType DEF BusType, Stamped
<1>1. /\ active' \in Transaction \cup {None} /\ pending' \in SUBSET Transaction
      /\ wire' \in Transaction \cup {None} /\ fram' \in Driver
      /\ notices' \in [Ids -> Heard]
      /\ OneNotice' /\ WireMatchesManager'
      /\ active' # None => active'.bus = generation'
      /\ wire' # None => wire'.bus <= generation'
      /\ \A u \in Held' : \E t \in Held : t.id = u.id
      /\ \A i \in Ids : notices[i] = "free" => notices'[i] = "free"
  BY <1>0, StartNextKeeps
<1>2. Q \in SUBSET Transaction
  BY DEF Held, BusType
<1>3. DriverMatchesBus' /\ (fram' = driver \/ fram' = Idle("ERROR"))
  <2>1. driver.length # 0 => carried' = carried
    BY DEF Answers, Idle
  <2> QED
    BY <1>0, <1>2, <2>1, StartNextFits
<1>4. nextId' \in Nat \ {0} /\ nextId <= nextId' /\ nextId \in Nat
  BY DEF BusType
<1>5. BusType'
  BY <1>1, <1>4 DEF BusType
<1>6. Stamped'
  BY <1>1 DEF Stamped
<1>7. \A t \in Held' : t.id < nextId'
  <2> SUFFICES ASSUME NEW u \in Held' PROVE u.id < nextId'
    OBVIOUS
  <2>1. PICK t \in Held : t.id = u.id
    BY <1>1
  <2>2. t.id < nextId /\ t.id \in Nat
    BY DEF Drawn, Held, BusType, Transaction
  <2> QED
    BY <1>4, <2>1, <2>2
<1>8. \A i \in Ids : i >= nextId' => notices'[i] = "free"
  <2> SUFFICES ASSUME NEW i \in Ids, i >= nextId' PROVE notices'[i] = "free"
    OBVIOUS
  <2>1. i \in Nat /\ i >= nextId
    BY <1>4 DEF Ids
  <2> QED
    BY <1>1, <2>1 DEF Drawn
<1>9. IF fram'.length = 0
      THEN nextId' <= 1 + asked + token * MaxLength
      ELSE /\ fram'.done < fram'.length
           /\ nextId' + MaxLength <= 2 + asked + token * MaxLength + fram'.done
  <2> DEFINE used == token * MaxLength
  <2>1. /\ used \in Nat /\ asked \in Nat /\ MaxLength \in Nat
        /\ fram.length \in 0 .. MaxLength /\ fram.done \in Nat
    BY SizesAssumption DEF BusType, Driver
  <2>2. IF fram.length = 0
        THEN nextId <= 1 + asked + used
        ELSE /\ fram.done < fram.length
             /\ nextId + MaxLength <= 2 + asked + used + fram.done
    BY DEF Drawn
  <2>3. Idle("ERROR").length = 0
    BY DEF Idle
  <2> HIDE DEF used
  <2>4. CASE fram'.length = 0
    <3>1. nextId' <= 1 + asked + used
      BY <1>0, <1>4, <2>1, <2>2
    <3> QED
      BY <2>4, <3>1 DEF used
  <2>5. CASE fram'.length # 0
    <3>1. fram' = fram /\ nextId' = nextId
      BY <1>0, <1>3, <2>3, <2>5
    <3> QED
      BY <2>2, <2>5, <3>1 DEF used
  <2> QED
    BY <2>4, <2>5
<1>10. Drawn'
  BY <1>7, <1>8, <1>9 DEF Drawn
<1>11. PressureFirst
  BY <1>2, BestGoesFirst DEF PressureFirst
<1>12. PortStep
  BY EndIsPortStep
<1>13. Tokens'
  <2>1. Asked(Q)
    BY DEF Tokens, Asked
  <2>2. driver.length = 0 => driver.correlation = 0
    BY DEF Answers, Idle, Tokens
  <2>3. port # None => Asked({port})
    BY DEF Tokens
  <2> QED
    BY <1>2, <2>1, <2>2, <2>3, EndKeepsTokens
<1> QED
  BY <1>1, <1>3, <1>5, <1>6, <1>10, <1>11, <1>12, <1>13 DEF SidesAgree, StepHolds

\* The transaction that leaves the bus, and what its end means for the driver.
LEMMA ActiveLeaves ==
    ASSUME IInv, active # None
    PROVE  /\ pending \cup {active} = Held /\ pending \cap {active} = {}
           /\ active \in Transaction /\ wire = active /\ active.bus = generation
           /\ pending \in SUBSET Transaction /\ Distinct(pending)
           /\ ~IsAwaited(fram, active) => \A moved :
                 (fram.length # 0 => moved = carried) => Fits(fram, pending, moved)
           /\ active.client = "fram" => IsAwaited(fram, active)
           /\ IsAwaited(fram, active) =>
                 /\ fram.length # 0 /\ active.chunk = fram.done + 1
                 /\ carried = 1 .. fram.done
                 /\ \A t \in pending : t.client # "fram"
<1> USE DEF IInv
<1>1. /\ Held = pending \cup {active} /\ active \notin pending
      /\ active \in Transaction /\ pending \in SUBSET Transaction
  BY DEF Held, BusType, OneNotice
<1>2. Distinct(pending)
  BY <1>1 DEF OneNotice, Distinct
<1>3. wire = active /\ active.bus = generation
  BY DEF SidesAgree, WireMatchesManager, Stamped
<1>4. fram.length \in Nat
  BY SizesAssumption DEF BusType, Driver
<1>5. CASE fram.length = 0
  BY <1>1, <1>2, <1>3, <1>4, <1>5 DEF SidesAgree, DriverMatchesBus, Fits, IsAwaited
<1>6. CASE fram.length # 0
  <2>1. PICK t \in Held : /\ {u \in Held : u.client = "fram"} = {t} /\ IsAwaited(fram, t)
                         /\ t.chunk = fram.done + 1 /\ carried = 1 .. fram.done
    BY <1>6 DEF SidesAgree, DriverMatchesBus
  <2>2. CASE active = t
    BY <1>1, <1>2, <1>3, <1>6, <2>1, <2>2
  <2>3. CASE active # t
    <3>1. active.client # "fram" /\ ~IsAwaited(fram, active)
      BY <1>1, <2>1, <2>3 DEF IsAwaited
    <3>2. {u \in pending : u.client = "fram"} = {t}
      BY <1>1, <2>1, <2>3
    <3> QED
      BY <1>1, <1>2, <1>3, <1>6, <2>1, <3>1, <3>2 DEF Fits
  <2> QED
    BY <2>2, <2>3
<1> QED
  BY <1>5, <1>6

\* i2c_bus_tick answers a transaction whose deadline has passed.
LEMMA TickKeeps == IInv /\ Tick => IInv' /\ StepHolds
<1> SUFFICES ASSUME IInv, Tick PROVE IInv' /\ StepHolds
  OBVIOUS
<1>1. PICK port \in {None, wire} : Release(active, "TIMEOUT", port)
  BY DEF Tick
<1>2. /\ active # None /\ generation' = generation + 1
      /\ UNCHANGED <<asked, owner, token, late, carried>>
  BY DEF Tick
<1>3. /\ generation' \in Nat /\ generation <= generation' /\ owner' \in Nat
      /\ late' \in SUBSET Transaction /\ \A r \in late' : r.bus < generation'
      /\ fram \in Driver
  BY <1>2 DEF IInv, BusType, Stamped, Transaction
<1>4. CASE ~IsAwaited(fram, active)
  <2>1. StartNext(pending, fram, port, {active}) /\ UNCHANGED nextId
    BY <1>1, <1>4 DEF Release
  <2>2. Outcome(pending, fram, port, {active}, generation', active', wire', pending', notices', fram')
    BY <1>2, <1>3, <2>1, ActiveLeaves, StartNextHolds DEF StartNext
  <2>3. Answers(fram)
    BY <1>2 DEF Answers
  <2> QED
    BY <1>2, <1>3, <1>4, <2>1, <2>2, <2>3, ActiveLeaves, EndKeeps
<1>5. CASE IsAwaited(fram, active)
  <2>1. StartNext(pending, Idle("ERROR"), port, {active}) /\ UNCHANGED nextId
    BY <1>1, <1>5 DEF Release
  <2>2. Outcome(pending, Idle("ERROR"), port, {active}, generation', active', wire', pending', notices', fram')
    BY <1>2, <1>3, <2>1, ActiveLeaves, StartNextHolds DEF StartNext
  <2>3. Idle("ERROR") \in Driver /\ Idle("ERROR").length = 0
    BY IdleType DEF Idle
  <2>4. Fits(Idle("ERROR"), pending, carried') /\ Answers(Idle("ERROR"))
    BY <1>2, <1>5, <2>3, ActiveLeaves DEF Fits, Answers
  <2> QED
    BY <1>2, <1>3, <2>1, <2>2, <2>3, <2>4, ActiveLeaves, EndKeeps
<1> QED
  BY <1>4, <1>5

\* i2c_bus_recover tells the client of the active transaction and starts the next.
LEMMA RecoverKeeps == IInv /\ Recover => IInv' /\ StepHolds
<1> SUFFICES ASSUME IInv, Recover PROVE IInv' /\ StepHolds
  OBVIOUS
<1> DEFINE mine == IF active = None THEN {} ELSE {active}
<1>1. PICK port \in {None, wire} :
        /\ late' \in IF wire # None /\ port = None THEN {late, late \cup {wire}} ELSE {late}
        /\ StartNext(pending, Failed(fram, mine), port, mine)
  BY DEF Recover
<1>2. generation' = generation + 1 /\ UNCHANGED <<nextId, asked, owner, token, carried>>
  BY DEF Recover
<1>3. /\ generation' \in Nat /\ generation <= generation' /\ owner' \in Nat
      /\ late' \in SUBSET Transaction
  BY <1>1, <1>2 DEF IInv, BusType, Stamped
<1>4. \A r \in late' : r.bus < generation'
  <2>1. \A r \in late : r.bus < generation /\ r.bus \in Nat
    BY DEF IInv, BusType, Stamped, Transaction
  <2>2. wire # None => wire.bus <= generation /\ wire.bus \in Nat
    BY DEF IInv, BusType, Stamped, Transaction
  <2>3. generation \in Nat
    BY DEF IInv, BusType
  <2>4. \A r \in late' : r \in late \/ (wire # None /\ r = wire)
    BY <1>1
  <2> QED
    BY <1>2, <2>1, <2>2, <2>3, <2>4
<1>5. /\ pending \in SUBSET Transaction /\ Distinct(pending)
      /\ pending \cup mine = Held /\ pending \cap mine = {}
  BY DEF IInv, BusType, OneNotice, Held, Distinct
<1> DEFINE driver == Failed(fram, mine)
<1>6. Answers(driver) /\ Fits(driver, pending, carried')
  <2>2. CASE active = None
    <3>1. driver = fram
      BY <2>2 DEF Failed
    <3>2. Fits(fram, pending, carried)
      BY <1>5, <2>2 DEF IInv, SidesAgree, DriverMatchesBus, Fits
    <3> QED
      BY <1>2, <3>1, <3>2 DEF Answers
  <2>3. CASE active # None /\ IsAwaited(fram, active)
    <3>1. driver = Idle("ERROR") /\ driver.length = 0
      BY <2>3 DEF Failed, Idle
    <3>2. fram.length # 0 /\ \A t \in pending : t.client # "fram"
      BY <2>3, ActiveLeaves
    <3> QED
      BY <1>2, <3>1, <3>2 DEF Fits, Answers
  <2>4. CASE active # None /\ ~IsAwaited(fram, active)
    <3>1. driver = fram
      BY <2>4 DEF Failed
    <3>2. Fits(fram, pending, carried)
      BY <2>4, ActiveLeaves
    <3> QED
      BY <1>2, <3>1, <3>2 DEF Answers
  <2> QED
    BY <2>2, <2>3, <2>4
<1>7. Outcome(pending, driver, port, mine, generation', active', wire', pending', notices', fram')
  BY <1>1, <1>3, <1>5, StartNextHolds DEF StartNext
<1> HIDE DEF mine, driver
<1> QED
  BY <1>2, <1>3, <1>4, <1>5, <1>6, <1>7, EndKeeps

\* A request that was given up is the answer to nothing.
LEMMA LateKeeps == IInv /\ LateCompletion => IInv' /\ StepHolds
<1> SUFFICES ASSUME IInv, LateCompletion PROVE IInv' /\ StepHolds
  OBVIOUS
<1>1. PICK r \in late, result \in Results :
        /\ late' = late \ {r}
        /\ UNCHANGED <<generation, asked, owner, token, aborts, carried>>
        /\ Complete(r, result, wire)
  BY DEF LateCompletion
<1>2. r.bus < generation /\ r.bus \in Nat /\ generation \in Nat
  BY DEF IInv, Stamped, BusType, Transaction
<1>3. ~IsAnswer(r)
  BY <1>2 DEF IsAnswer
<1>4. UNCHANGED <<active, pending, nextId, fram, notices, wire>>
  BY <1>1, <1>3 DEF Complete
<1>5. PortStep
  BY <1>1, <1>4, PortSeesNothing
<1> QED
  BY <1>1, <1>4, <1>5 DEF IInv, BusType, Stamped, Drawn, OneNotice, SidesAgree, WireMatchesManager,
                          DriverMatchesBus, IsAwaited, Held, Tokens, Asked, PressureFirst, StepHolds

\* fram_cancel_generation takes the driver's one transaction from where it is.
LEMMA CancelKeeps == IInv /\ CancelGeneration => IInv' /\ StepHolds
<1> SUFFICES ASSUME IInv, CancelGeneration PROVE IInv' /\ StepHolds
  OBVIOUS
<1> DEFINE waiting == {t \in pending : t.client = "fram"}
           running == active # None /\ active.client = "fram"
           driver == Failed(fram, waiting)
<1>1. owner' = owner + 1 /\ UNCHANGED <<nextId, asked, token, late, carried>>
  BY DEF CancelGeneration
<1>2. /\ owner' \in Nat /\ late' \in SUBSET Transaction
      /\ fram \in Driver /\ fram.length \in Nat
  BY <1>1, SizesAssumption DEF IInv, BusType, Driver
<1>3. CASE fram.length > 0 /\ running
  <2>1. IsAwaited(fram, active) /\ waiting = {}
    BY <1>3, ActiveLeaves
  <2>2. driver = fram /\ Failed(driver, {active}) = Idle("ERROR")
    BY <2>1 DEF Failed
  <2>3. PICK port \in {None, wire} :
          StartNext(pending \ waiting, Failed(driver, {active}), port, waiting \cup {active})
    BY <1>3 DEF CancelGeneration
  <2>4. pending \ waiting = pending /\ waiting \cup {active} = {active}
    BY <2>1
  <2>5. generation' = generation + 1
    BY <1>3 DEF CancelGeneration
  <2>6. /\ generation' \in Nat /\ generation <= generation'
        /\ \A r \in late' : r.bus < generation'
    BY <1>1, <2>5 DEF IInv, BusType, Stamped, Transaction
  <2>7. pending \in SUBSET Transaction /\ Distinct(pending)
    BY <1>3, ActiveLeaves
  <2>8. StartNext(pending, Idle("ERROR"), port, {active})
    BY <2>2, <2>3, <2>4
  <2>9. Outcome(pending, Idle("ERROR"), port, {active}, generation', active', wire', pending', notices', fram')
    BY <2>6, <2>7, <2>8, StartNextHolds DEF StartNext
  <2>10. Idle("ERROR") \in Driver /\ Idle("ERROR").length = 0
    BY IdleType DEF Idle
  <2>11. Fits(Idle("ERROR"), pending, carried') /\ Answers(Idle("ERROR"))
    BY <1>1, <1>2, <1>3, <2>1, <2>10 DEF Fits, Answers
  <2> HIDE DEF waiting, running, driver
  <2> QED
    BY <1>1, <1>2, <1>3, <2>6, <2>9, <2>10, <2>11, ActiveLeaves, EndKeeps DEF running
<1>4. CASE fram.length > 0 /\ ~running
  <2>1. /\ pending' = pending \ waiting /\ fram' = driver /\ notices' = Notified(waiting)
        /\ UNCHANGED <<active, generation, wire>>
    BY <1>4 DEF CancelGeneration
  <2>2. waiting \subseteq Held /\ Held' = Held \ waiting
    BY <1>4, <2>1 DEF IInv, OneNotice, Held
  <2>3. PICK t \in Held : {u \in Held : u.client = "fram"} = {t} /\ IsAwaited(fram, t)
    BY <1>2, <1>4 DEF IInv, SidesAgree, DriverMatchesBus
  <2>4. t \in waiting
    BY <1>4, <2>3 DEF Held
  <2>5. fram' = Idle("ERROR") /\ fram' \in Driver /\ fram'.length = 0
    BY <2>1, <2>3, <2>4, IdleType DEF Failed, Idle
  <2>6. \A u \in Held' : u.client # "fram"
    BY <1>4, <2>1 DEF Held
  <2>7. /\ notices' \in [Ids -> Heard]
        /\ \A i \in Ids :
              notices'[i] = IF \E u \in waiting : u.id = i THEN "answered" ELSE notices[i]
    BY <2>1, <2>2, NotifiedIs DEF IInv
  <2>8. OneNotice'
    <3> HIDE DEF waiting
    <3> QED
      BY <2>1, <2>2, <2>7 DEF IInv, OneNotice
  <2>9. SidesAgree'
    <3>1. WireMatchesManager'
      BY <2>1 DEF IInv, SidesAgree, WireMatchesManager
    <3>2. DriverMatchesBus'
      BY <2>5, <2>6 DEF DriverMatchesBus
    <3> QED
      BY <3>1, <3>2 DEF SidesAgree
  <2>10. BusType' /\ Stamped'
    BY <1>1, <1>2, <2>1, <2>5, <2>7 DEF IInv, BusType, Stamped
  <2>11. Drawn'
    <3>1. \A u \in Held' : u.id < nextId'
      BY <1>1, <2>2 DEF IInv, Drawn
    <3>2. \A i \in Ids : i >= nextId' => notices'[i] = "free"
      BY <1>1, <2>2, <2>7 DEF IInv, Drawn, OneNotice
    <3>3. nextId' <= 1 + asked + token * MaxLength
      <4> DEFINE used == token * MaxLength
      <4>1. /\ used \in Nat /\ nextId \in Nat /\ asked \in Nat /\ MaxLength \in Nat
            /\ fram.length \in 0 .. MaxLength /\ fram.done \in Nat
        BY SizesAssumption DEF IInv, BusType, Driver
      <4>2. fram.done < fram.length /\ nextId + MaxLength <= 2 + asked + used + fram.done
        BY <1>2, <1>4 DEF IInv, Drawn
      <4> HIDE DEF used
      <4>3. nextId <= 1 + asked + used
        BY <4>1, <4>2
      <4> QED
        BY <1>1, <4>3 DEF used
    <3> QED
      BY <1>1, <2>5, <3>1, <3>2, <3>3 DEF Drawn
  <2>12. Tokens'
    BY <1>1, <2>1, <2>2, <2>5 DEF IInv, Tokens, Asked, Idle
  <2>13. PortStep
    <3>1. Answers(fram')
      BY <1>1, <1>2, <1>4, <2>5 DEF Answers
    <3> QED
      BY <3>1, AnswerIsPortStep DEF IInv
  <2> QED
    BY <2>1, <2>8, <2>9, <2>10, <2>11, <2>12, <2>13 DEF IInv, PressureFirst, StepHolds
<1>5. CASE ~(fram.length > 0)
  <2>1. UNCHANGED <<active, pending, generation, wire, fram, notices>>
    BY <1>5 DEF CancelGeneration
  <2>2. fram.length = 0
    BY <1>2, <1>5
  <2>3. PortStep
    BY <1>1, <2>1, PortSeesNothing
  <2> QED
    BY <1>1, <1>2, <2>1, <2>2, <2>3 DEF IInv, BusType, Stamped, Drawn, OneNotice, SidesAgree,
                        WireMatchesManager, DriverMatchesBus, Held, Tokens, Asked,
                        PressureFirst, StepHolds
<1> QED
  BY <1>3, <1>4, <1>5

-----------------------------------------------------------------------------
(* Submission.                                                             *)

\* There is an identifier for whatever may still be asked for.
LEMMA IdsSuffice ==
    ASSUME IInv
    PROVE  /\ token * MaxLength \in Nat /\ (token + 1) * MaxLength = token * MaxLength + MaxLength
           /\ asked < MaxTransfers => nextId \in Ids
           /\ token < MaxOperations /\ fram.length = 0 => nextId \in Ids
           /\ fram.length # 0 /\ fram.done + 1 < fram.length => nextId \in Ids
<1> DEFINE used == token * MaxLength
           room == MaxOperations * MaxLength
<1>1. /\ MaxLength \in Nat \ {0} /\ MaxOperations \in Nat /\ MaxTransfers \in Nat
      /\ token \in 0 .. MaxOperations /\ asked \in 0 .. MaxTransfers
      /\ nextId \in Nat \ {0}
      /\ fram.length \in 0 .. MaxLength /\ fram.done \in Nat
  BY SizesAssumption DEF IInv, BusType, Driver
<1>2. used \in Nat /\ room \in Nat /\ used <= room
  BY <1>1
<1>3. (token + 1) * MaxLength = used + MaxLength
  BY <1>1
<1>4. token < MaxOperations => used + MaxLength <= room
  <2> SUFFICES ASSUME token < MaxOperations PROVE used + MaxLength <= room
    OBVIOUS
  <2>1. token + 1 <= MaxOperations
    BY <1>1
  <2>2. (token + 1) * MaxLength <= room
    BY <1>1, <2>1
  <2> QED
    BY <1>3, <2>2
<1>5. IF fram.length = 0
      THEN nextId <= 1 + asked + used
      ELSE /\ fram.done < fram.length
           /\ nextId + MaxLength <= 2 + asked + used + fram.done
  BY DEF IInv, Drawn
<1>6. Ids = 1 .. MaxTransfers + room
  BY DEF Ids
<1> HIDE DEF used, room
<1>7. asked < MaxTransfers => nextId \in Ids
  BY <1>1, <1>2, <1>5, <1>6
<1>8. token < MaxOperations /\ fram.length = 0 => nextId \in Ids
  BY <1>1, <1>2, <1>4, <1>5, <1>6
<1>9. fram.length # 0 /\ fram.done + 1 < fram.length => nextId \in Ids
  BY <1>1, <1>2, <1>5, <1>6
<1> QED
  BY <1>2, <1>3, <1>7, <1>8, <1>9 DEF used

\* A new transaction is on the wire or waits; the driver has not looked yet.
LEMMA AcceptedKeeps ==
    ASSUME IInv, NEW t \in Transaction, t.id = nextId, t.bus = generation, nextId \in Ids,
           notices' = [notices EXCEPT ![t.id] = "open"],
           nextId' = nextId + 1, UNCHANGED <<generation, late>>,
           \/ active = None /\ active' = t /\ wire' = t /\ UNCHANGED pending
           \/ active # None /\ pending' = pending \cup {t} /\ UNCHANGED <<active, wire>>
    PROVE  /\ active' \in Transaction \cup {None} /\ pending' \in SUBSET Transaction
           /\ wire' \in Transaction \cup {None} /\ notices' \in [Ids -> Heard]
           /\ nextId' \in Nat \ {0}
           /\ Stamped' /\ OneNotice' /\ WireMatchesManager'
           /\ Held' = Held \cup {t} /\ wire' \in {wire, t}
           /\ \A u \in Held' : u.id < nextId'
           /\ \A i \in Ids : i >= nextId' => notices'[i] = "free"
<1> USE DEF IInv
<1>1. t # None /\ nextId \in Nat
  BY NoneAssumption DEF BusType
<1>2. Held' = Held \cup {t}
  BY <1>1 DEF Held
<1>3. \A u \in Held : u.id < nextId /\ u.id \in Nat
  BY DEF Drawn, Held, BusType, Transaction
<1>4. \A u \in Held' : u.id < nextId'
  BY <1>1, <1>2, <1>3
<1>5. /\ notices' \in [Ids -> Heard]
      /\ \A i \in Ids : notices'[i] = IF i = nextId THEN "open" ELSE notices[i]
  BY DEF BusType, Heard
<1>6. \A i \in Ids : i >= nextId' => notices'[i] = "free"
  BY <1>1, <1>5 DEF Drawn, Ids
<1>7. \A u \in Held : u.id # nextId
  BY <1>1, <1>3
<1>8. OneNotice'
  <2>1. \A i \in Ids : notices'[i] # "unexpected"
                      /\ (notices'[i] = "open" <=> \E u \in Held' : u.id = i)
    BY <1>2, <1>5 DEF OneNotice
  <2>2. \A u, v \in Held' : u.id = v.id => u = v
    BY <1>2, <1>7 DEF OneNotice
  <2>3. active' \notin pending'
    <3>1. t \notin Held
      BY <1>7
    <3>2. CASE active = None
      BY <1>1, <3>1, <3>2 DEF Held
    <3>3. CASE active # None
      BY <3>1, <3>3 DEF Held, OneNotice
    <3> QED
      BY <3>2, <3>3
  <2> QED
    BY <2>1, <2>2, <2>3 DEF OneNotice
<1>9. WireMatchesManager'
  BY <1>1 DEF SidesAgree, WireMatchesManager
<1>10. Stamped'
  BY DEF Stamped, Transaction
<1> QED
  BY <1>1, <1>2, <1>4, <1>5, <1>6, <1>8, <1>9, <1>10 DEF BusType

\* A refused submission changes nothing but the next identifier.
LEMMA RefusedKeeps ==
    ASSUME IInv, SubmitRefused, UNCHANGED <<late, owner, fram>>
    PROVE  /\ UNCHANGED <<active, pending, wire, notices, generation>>
           /\ nextId' = nextId + 1 /\ nextId' \in Nat \ {0}
           /\ Stamped' /\ OneNotice' /\ WireMatchesManager' /\ Held' = Held
           /\ \A u \in Held' : u.id < nextId'
           /\ \A i \in Ids : i >= nextId' => notices'[i] = "free"
<1>1. UNCHANGED <<active, pending, wire, notices, generation>> /\ nextId' = nextId + 1
  BY DEF SubmitRefused
<1>2. nextId \in Nat /\ nextId' \in Nat \ {0}
  BY <1>1 DEF IInv, BusType
<1>3. Held' = Held
  BY <1>1 DEF Held
<1>4. \A u \in Held : u.id < nextId /\ u.id \in Nat
  BY DEF IInv, Drawn, Held, BusType, Transaction
<1>5. \A i \in Ids : i >= nextId' => notices'[i] = "free"
  BY <1>1, <1>2 DEF IInv, Drawn, Ids
<1>6. Stamped' /\ OneNotice' /\ WireMatchesManager'
  BY <1>1, <1>3 DEF IInv, Stamped, OneNotice, SidesAgree, WireMatchesManager
<1> QED
  BY <1>1, <1>2, <1>3, <1>4, <1>5, <1>6

LEMMA PressureSubmitsKeeps == IInv /\ PressureSubmits => IInv' /\ StepHolds
<1> SUFFICES ASSUME IInv, PressureSubmits PROVE IInv' /\ StepHolds
  OBVIOUS
<1> DEFINE t == [id |-> nextId, client |-> "pressure", correlation |-> nextId,
                 chunk |-> 0, owner |-> 1, bus |-> generation]
<1>1. /\ asked < MaxTransfers /\ asked' = asked + 1
      /\ UNCHANGED <<owner, fram, token, late, aborts, carried>>
      /\ SubmitStarts(t) \/ SubmitWaits(t) \/ SubmitRefused
  BY DEF PressureSubmits, Submit
<1>2. t \in Transaction /\ t.id = nextId /\ t.bus = generation /\ t.client = "pressure"
  BY DEF IInv, BusType, Transaction, Clients
<1>3. nextId \in Ids
  BY <1>1, IdsSuffice
<1>4. asked' \in 0 .. MaxTransfers /\ asked \in Nat
  BY <1>1, SizesAssumption DEF IInv, BusType
<1> HIDE DEF t
<1>5. /\ active' \in Transaction \cup {None} /\ pending' \in SUBSET Transaction
      /\ wire' \in Transaction \cup {None} /\ notices' \in [Ids -> Heard]
      /\ nextId' = nextId + 1 /\ nextId' \in Nat \ {0} /\ UNCHANGED generation
      /\ Stamped' /\ OneNotice' /\ WireMatchesManager'
      /\ Held' = Held \cup {t} \/ Held' = Held
      /\ wire' \in {wire, t}
      /\ \A u \in Held' : u.id < nextId'
      /\ \A i \in Ids : i >= nextId' => notices'[i] = "free"
  <2>1. CASE SubmitStarts(t) \/ SubmitWaits(t)
    <3>1. /\ notices' = [notices EXCEPT ![t.id] = "open"]
          /\ nextId' = nextId + 1 /\ UNCHANGED <<generation, late>>
          /\ \/ active = None /\ active' = t /\ wire' = t /\ UNCHANGED pending
             \/ active # None /\ pending' = pending \cup {t} /\ UNCHANGED <<active, wire>>
      BY <1>1, <2>1 DEF SubmitStarts, SubmitWaits
    <3> QED
      BY <1>2, <1>3, <3>1, AcceptedKeeps
  <2>2. CASE SubmitRefused
    <3>1. UNCHANGED <<late, owner, fram>>
      BY <1>1
    <3> QED
      BY <2>2, <3>1, RefusedKeeps DEF IInv, BusType
  <2> QED
    BY <1>1, <2>1, <2>2
<1>6. BusType'
  BY <1>1, <1>4, <1>5 DEF IInv, BusType
<1>7. Drawn'
  <2> DEFINE used == token * MaxLength
  <2>1. /\ used \in Nat /\ nextId \in Nat /\ MaxLength \in Nat
        /\ fram.length \in 0 .. MaxLength /\ fram.done \in Nat
    BY SizesAssumption DEF IInv, BusType, Driver
  <2>2. IF fram.length = 0
        THEN nextId <= 1 + asked + used
        ELSE /\ fram.done < fram.length
             /\ nextId + MaxLength <= 2 + asked + used + fram.done
    BY DEF IInv, Drawn
  <2>3. used' = used
    BY <1>1
  <2> HIDE DEF used
  <2>4. IF fram'.length = 0
        THEN nextId' <= 1 + asked' + used
        ELSE /\ fram'.done < fram'.length
             /\ nextId' + MaxLength <= 2 + asked' + used + fram'.done
    BY <1>1, <1>4, <1>5, <2>1, <2>2
  <2> QED
    BY <1>1, <1>5, <2>4 DEF Drawn, used
<1>8. DriverMatchesBus'
  <2>1. {u \in Held' : u.client = "fram"} = {u \in Held : u.client = "fram"}
    BY <1>2, <1>5
  <2> QED
    BY <1>1, <2>1 DEF IInv, SidesAgree, DriverMatchesBus, IsAwaited
<1>9. PressureFirst
  BY <1>1, <1>2 DEF SubmitStarts, SubmitWaits, SubmitRefused, PressureFirst
<1>10. Tokens'
  BY <1>1, <1>2, <1>5 DEF IInv, Tokens, Asked
<1>11. PortStep
  BY <1>1, PortSeesNothing
<1> QED
  BY <1>5, <1>6, <1>7, <1>8, <1>9, <1>10, <1>11 DEF IInv, SidesAgree, StepHolds

\* begin_operation draws one identifier, and one more for each further chunk.
LEMMA BeginKeeps == IInv /\ Begin => IInv' /\ StepHolds
<1> SUFFICES ASSUME IInv, Begin PROVE IInv' /\ StepHolds
  OBVIOUS
<1> DEFINE t == Chunk(1, token')
<1>1. /\ fram.length = 0 /\ token < MaxOperations /\ token' = token + 1
      /\ UNCHANGED <<asked, owner, late, aborts>>
  BY DEF Begin
<1>2. /\ token' \in 0 .. MaxOperations /\ token' \in Nat /\ token' > 0
      /\ MaxLength \in Nat \ {0} /\ nextId \in Nat /\ asked \in Nat
  BY <1>1, SizesAssumption DEF IInv, BusType
<1>3. /\ t \in Transaction /\ t.id = nextId /\ t.bus = generation /\ t.client = "fram"
      /\ t.correlation = token' /\ t.chunk = 1 /\ t.owner = owner
  BY <1>2 DEF IInv, BusType, Transaction, Clients, Chunk
<1>4. nextId \in Ids
  BY <1>1, IdsSuffice
<1>5. /\ nextId <= 1 + asked + token * MaxLength
      /\ token' * MaxLength = token * MaxLength + MaxLength
      /\ token * MaxLength \in Nat /\ token' * MaxLength \in Nat
  BY <1>1, <1>2, IdsSuffice DEF IInv, Drawn
<1>6. \A u \in Held : u.client # "fram"
  BY <1>1 DEF IInv, SidesAgree, DriverMatchesBus
<1> HIDE DEF t
<1>7. PICK length \in 1 .. MaxLength :
        \/ /\ SubmitStarts(t) \/ SubmitWaits(t)
           /\ fram' = [length |-> length, done |-> 0, id |-> nextId,
                       correlation |-> token', last |-> fram.last]
           /\ carried' = {}
        \/ SubmitRefused /\ UNCHANGED <<fram, carried>>
  BY DEF Begin, t
<1>8. CASE /\ SubmitStarts(t) \/ SubmitWaits(t)
           /\ fram' = [length |-> length, done |-> 0, id |-> nextId,
                       correlation |-> token', last |-> fram.last]
           /\ carried' = {}
  <2>1. /\ notices' = [notices EXCEPT ![t.id] = "open"]
        /\ nextId' = nextId + 1 /\ UNCHANGED <<generation, late>>
        /\ \/ active = None /\ active' = t /\ wire' = t /\ UNCHANGED pending
           \/ active # None /\ pending' = pending \cup {t} /\ UNCHANGED <<active, wire>>
    BY <1>1, <1>8 DEF SubmitStarts, SubmitWaits
  <2>2. /\ active' \in Transaction \cup {None} /\ pending' \in SUBSET Transaction
        /\ wire' \in Transaction \cup {None} /\ notices' \in [Ids -> Heard]
        /\ nextId' \in Nat \ {0}
        /\ Stamped' /\ OneNotice' /\ WireMatchesManager'
        /\ Held' = Held \cup {t} /\ wire' \in {wire, t}
        /\ \A u \in Held' : u.id < nextId'
        /\ \A i \in Ids : i >= nextId' => notices'[i] = "free"
    BY <1>3, <1>4, <2>1, AcceptedKeeps
  <2>3. /\ fram' \in Driver /\ fram'.length # 0 /\ fram'.length > 0
        /\ fram'.done = 0 /\ fram'.id = nextId
        /\ fram'.correlation = token' /\ fram'.done < fram'.length
    BY <1>2, <1>8 DEF IInv, BusType, Driver
  <2>4. BusType'
    BY <1>1, <1>2, <2>1, <2>2, <2>3 DEF IInv, BusType
  <2>5. Drawn'
    <3>1. nextId' + MaxLength <= 2 + asked' + token' * MaxLength + fram'.done
      BY <1>1, <1>2, <1>5, <2>1, <2>3
    <3> QED
      BY <2>2, <2>3, <3>1 DEF Drawn
  <2>6. DriverMatchesBus'
    <3>1. {u \in Held' : u.client = "fram"} = {t}
      BY <1>3, <1>6, <2>2
    <3>2. carried' = 1 .. fram'.done
      BY <1>8, <2>3
    <3>3. /\ t.client = "fram" /\ t.id = fram'.id /\ t.correlation = fram'.correlation
          /\ t.owner = owner' /\ t.chunk = fram'.done + 1
      BY <1>1, <1>3, <2>3
    <3> QED
      BY <2>3, <3>1, <3>2, <3>3 DEF DriverMatchesBus, IsAwaited
  \* The bus was idle, and then nothing waits.
  <2>7. PressureFirst
    BY <2>1 DEF IInv, SidesAgree, WireMatchesManager, PressureFirst
  <2>8. Tokens'
    <3>1. t.correlation # 0
      BY <1>2, <1>3
    <3> QED
      BY <2>2, <2>3, <3>1 DEF IInv, Tokens, Asked
  <2>9. PortStep
    <3>1. /\ fram'.length \in 1 .. MaxLength /\ fram'.last = fram.last
          /\ carried' = {}
      BY <1>8
    <3>2. Cardinality(carried') = 0
      BY <3>1, FS_EmptySet
    <3>3. Port!Accept
      BY <1>1, <3>1, <3>2 DEF Port!Accept
    <3> QED
      BY <3>3 DEF PortStep, Port!PortNext
  <2> QED
    BY <2>2, <2>4, <2>5, <2>6, <2>7, <2>8, <2>9 DEF IInv, SidesAgree, StepHolds
<1>9. CASE SubmitRefused /\ UNCHANGED <<fram, carried>>
  <2>1. UNCHANGED <<late, owner, fram>>
    BY <1>1, <1>9
  <2>2. /\ UNCHANGED <<active, pending, wire, notices, generation>>
        /\ nextId' = nextId + 1 /\ nextId' \in Nat \ {0}
        /\ Stamped' /\ OneNotice' /\ WireMatchesManager' /\ Held' = Held
        /\ \A u \in Held' : u.id < nextId'
        /\ \A i \in Ids : i >= nextId' => notices'[i] = "free"
    BY <1>9, <2>1, RefusedKeeps
  <2>3. BusType'
    BY <1>1, <1>2, <1>9, <2>2 DEF IInv, BusType
  <2>4. Drawn'
    <3>1. nextId' <= 1 + asked' + token' * MaxLength
      BY <1>1, <1>2, <1>5, <2>2
    <3> QED
      BY <1>1, <1>9, <2>2, <3>1 DEF Drawn
  <2>5. DriverMatchesBus'
    BY <1>1, <1>6, <1>9, <2>2 DEF DriverMatchesBus
  <2>6. Tokens'
    BY <1>9, <2>2 DEF IInv, Tokens
  <2>7. PortStep
    BY <1>9, PortSeesNothing
  <2> QED
    BY <2>2, <2>3, <2>4, <2>5, <2>6, <2>7 DEF IInv, SidesAgree, PressureFirst, StepHolds
<1> QED
  BY <1>7, <1>8, <1>9

-----------------------------------------------------------------------------
(* Completion.                                                             *)

\* The driver submits the chunk after the one that has just ended.
LEMMA ChunkKeeps ==
    ASSUME IInv, active # None, IsAwaited(fram, active), HasMoreChunks,
           NextChunkStarts(active, None), carried' = carried \cup {active.chunk},
           UNCHANGED <<generation, asked, owner, token, late>>
    PROVE  IInv' /\ StepHolds
<1> DEFINE t == Chunk(active.chunk + 1, active.correlation)
<1>1. /\ active' = t /\ wire' = t /\ nextId' = nextId + 1 /\ UNCHANGED pending
      /\ fram' = [fram EXCEPT !.done = @ + 1, !.id = nextId]
      /\ notices' = [Notified({active}) EXCEPT ![nextId] = "open"]
  BY DEF NextChunkStarts
<1>2. /\ pending \cup {active} = Held /\ pending \cap {active} = {}
      /\ active \in Transaction /\ pending \in SUBSET Transaction
      /\ fram.length # 0 /\ active.chunk = fram.done + 1 /\ carried = 1 .. fram.done
      /\ \A u \in pending : u.client # "fram"
  BY ActiveLeaves
<1>3. /\ MaxLength \in Nat /\ asked \in Nat /\ nextId \in Nat
      /\ fram \in Driver /\ fram.length \in 0 .. MaxLength /\ fram.done \in Nat
      /\ active.correlation = fram.correlation /\ token * MaxLength \in Nat
  BY SizesAssumption, IdsSuffice DEF IInv, BusType, Driver, IsAwaited
<1>4. /\ t \in Transaction /\ t.id = nextId /\ t.bus = generation /\ t.client = "fram"
      /\ t.correlation = fram.correlation /\ t.chunk = fram.done + 2 /\ t.owner = owner
  BY <1>2, <1>3 DEF IInv, BusType, Transaction, Clients, Chunk
<1> HIDE DEF t
<1>5. t # None /\ nextId \in Ids
  BY <1>2, <1>4, NoneAssumption, IdsSuffice DEF HasMoreChunks
<1>6. Held' = pending \cup {t}
  BY <1>1, <1>5 DEF Held
<1>7. \A u \in Held : u.id < nextId /\ u.id \in Nat
  BY DEF IInv, Drawn, Held, BusType, Transaction
<1>8. /\ notices' \in [Ids -> Heard] /\ notices'[nextId] = "open"
      /\ \A i \in Ids \ {nextId} :
            notices'[i] = IF i = active.id THEN "answered" ELSE notices[i]
  <2>1. /\ Notified({active}) \in [Ids -> Heard]
        /\ \A i \in Ids :
              Notified({active})[i] = IF \E u \in {active} : u.id = i THEN "answered" ELSE notices[i]
    BY <1>2, NotifiedIs DEF IInv
  <2> QED
    BY <1>1, <1>5, <2>1 DEF Heard
<1>9. /\ fram' \in Driver /\ fram'.length = fram.length /\ fram'.done = fram.done + 1
      /\ fram'.id = nextId /\ fram'.correlation = fram.correlation
  <2> DEFINE moved == [fram EXCEPT !.done = @ + 1]
  <2>1. /\ moved \in Driver /\ moved.length = fram.length /\ moved.done = fram.done + 1
        /\ moved.correlation = fram.correlation
    BY <1>3 DEF Driver
  <2>2. fram' = [moved EXCEPT !.id = nextId]
    BY <1>1
  <2> HIDE DEF moved
  <2> QED
    BY <1>3, <2>1, <2>2 DEF Driver
<1>10. BusType'
  <2>1. nextId' \in Nat \ {0} /\ active' \in Transaction /\ wire' \in Transaction
    BY <1>1, <1>3, <1>4
  <2> QED
    BY <1>1, <1>8, <1>9, <2>1 DEF IInv, BusType
<1>11. Stamped'
  BY <1>1, <1>4, <1>5 DEF IInv, BusType, Stamped
<1>12. Drawn'
  <2>1. \A u \in Held' : u.id < nextId'
    BY <1>1, <1>2, <1>3, <1>4, <1>6, <1>7
  <2>2. \A i \in Ids : i >= nextId' => notices'[i] = "free"
    <3> SUFFICES ASSUME NEW i \in Ids, i >= nextId' PROVE notices'[i] = "free"
      OBVIOUS
    <3>1. i \in Nat /\ i > nextId /\ active.id < nextId /\ active.id \in Nat
      BY <1>1, <1>2, <1>3, <1>7 DEF Ids
    <3>2. notices'[i] = notices[i]
      BY <1>3, <1>8, <3>1
    <3> QED
      BY <1>3, <3>1, <3>2 DEF IInv, Drawn
  <2>3. nextId + MaxLength <= 2 + asked + token * MaxLength + fram.done
    BY <1>2 DEF IInv, Drawn
  <2>4. fram.done + 1 < fram.length
    BY DEF HasMoreChunks
  <2>5. /\ fram'.length # 0 /\ fram'.done < fram'.length
        /\ nextId' + MaxLength <= 2 + asked' + token' * MaxLength + fram'.done
    BY <1>1, <1>2, <1>3, <1>9, <2>3, <2>4
  <2> QED
    BY <2>1, <2>2, <2>5 DEF Drawn
<1>13. OneNotice'
  <2>1. \A i \in Ids : notices'[i] # "unexpected"
                      /\ (notices'[i] = "open" <=> \E u \in Held' : u.id = i)
    <3> SUFFICES ASSUME NEW i \in Ids
                 PROVE  notices'[i] # "unexpected"
                        /\ (notices'[i] = "open" <=> \E u \in Held' : u.id = i)
      OBVIOUS
    <3>1. CASE i = nextId
      BY <1>4, <1>6, <1>8, <3>1
    <3>2. CASE i # nextId
      <4>1. (\E u \in Held' : u.id = i) <=> \E u \in pending : u.id = i
        BY <1>4, <1>6, <3>2
      <4>2. CASE i = active.id
        <5>1. \A u \in pending : u.id # i
          BY <1>2, <4>2 DEF IInv, OneNotice
        <5> QED
          BY <1>8, <3>2, <4>1, <4>2, <5>1
      <4>3. CASE i # active.id
        <5>1. notices'[i] = notices[i]
          BY <1>8, <3>2, <4>3
        <5>2. (\E u \in Held : u.id = i) <=> \E u \in pending : u.id = i
          BY <1>2, <4>3
        <5> QED
          BY <4>1, <5>1, <5>2 DEF IInv, OneNotice
      <4> QED
        BY <4>2, <4>3
    <3> QED
      BY <3>1, <3>2
  <2>2. \A u \in pending : u.id # nextId
    BY <1>2, <1>3, <1>7
  <2>3. \A u, v \in Held' : u.id = v.id => u = v
    BY <1>2, <1>4, <1>6, <2>2 DEF IInv, OneNotice
  <2>4. active' \notin pending'
    BY <1>1, <1>4, <2>2
  <2> QED
    BY <2>1, <2>3, <2>4 DEF OneNotice
<1>14. WireMatchesManager'
  BY <1>1, <1>5 DEF WireMatchesManager
<1>15. DriverMatchesBus'
  <2>1. {u \in Held' : u.client = "fram"} = {t}
    BY <1>2, <1>4, <1>6
  <2>2. carried' = 1 .. fram'.done
    BY <1>2, <1>3, <1>9
  <2>3. /\ t.id = fram'.id /\ t.correlation = fram'.correlation /\ t.owner = owner'
        /\ t.chunk = fram'.done + 1 /\ fram'.length > 0 /\ fram'.length # 0
    BY <1>2, <1>3, <1>4, <1>9
  <2> QED
    BY <1>4, <2>1, <2>2, <2>3 DEF DriverMatchesBus, IsAwaited
<1>16. PressureFirst
  BY <1>1, <1>3, <1>4 DEF PressureFirst
<1>17. Tokens'
  <2>1. active \in Held /\ active.client = "fram" /\ active.correlation # 0
    BY <1>2 DEF IInv, Tokens, Asked, IsAwaited
  <2>2. Asked({t}) /\ Asked(Held')
    BY <1>2, <1>3, <1>4, <1>6, <2>1 DEF IInv, Tokens, Asked
  <2> QED
    BY <1>1, <1>2, <1>9, <2>2 DEF Tokens
<1>18. PortStep
  <2>1. fram'.last = fram.last
    BY <1>1, <1>3 DEF Driver
  <2>2. /\ Cardinality(carried) = fram.done /\ Cardinality(carried') = fram.done + 1
        /\ fram.done < fram.length
    BY <1>2, MovedChunks DEF IInv
  <2>3. Port!Move
    BY <1>9, <2>1, <2>2 DEF Port!Move
  <2> QED
    BY <2>3 DEF PortStep, Port!PortNext
<1> QED
  BY <1>10, <1>11, <1>12, <1>13, <1>14, <1>15, <1>16, <1>17, <1>18 DEF IInv, SidesAgree, StepHolds

\* The completion of the request on the wires.
LEMMA PortCompletesKeeps == IInv /\ PortCompletes => IInv' /\ StepHolds
<1> SUFFICES ASSUME IInv, PortCompletes PROVE IInv' /\ StepHolds
  OBVIOUS
<1>1. /\ wire # None
      /\ UNCHANGED <<generation, asked, owner, token, late, aborts>>
  BY DEF PortCompletes
<1>2. PICK result \in Results :
        /\ Complete(wire, result, None)
        /\ carried' = IF /\ result = "OK" /\ wire.client = "fram"
                         /\ wire.correlation = fram.correlation
                      THEN carried \cup {wire.chunk} ELSE carried
  BY DEF PortCompletes
<1>3. /\ generation' \in Nat /\ generation <= generation' /\ owner' \in Nat
      /\ late' \in SUBSET Transaction /\ \A r \in late' : r.bus < generation'
      /\ fram \in Driver
  BY <1>1 DEF IInv, BusType, Stamped
<1>4. CASE active = None
  <2>1. wire' = None /\ UNCHANGED <<active, pending, nextId, fram, notices>>
    BY <1>2, <1>4 DEF Complete, IsAnswer
  <2>2. fram.length = 0
    BY <1>4 DEF IInv, SidesAgree, WireMatchesManager, DriverMatchesBus, Held
  <2>3. ~(wire.client = "fram" /\ wire.correlation = fram.correlation)
    BY <1>1, <2>2 DEF IInv, Tokens, Asked
  <2>4. PortStep
    BY <1>2, <2>1, <2>3, PortSeesNothing
  <2> QED
    BY <1>1, <1>4, <2>1, <2>2, <2>4 DEF IInv, BusType, Stamped, Drawn, OneNotice, SidesAgree,
                                  WireMatchesManager, DriverMatchesBus, Held, Tokens, Asked,
                                  PressureFirst, StepHolds
<1>5. CASE active # None
  <2>1. wire = active /\ IsAnswer(wire)
    BY <1>5, ActiveLeaves DEF IsAnswer
  <2>2. Release(active, result, None)
    BY <1>2, <2>1 DEF Complete
  <2>3. pending \in SUBSET Transaction /\ Distinct(pending)
    BY <1>5, ActiveLeaves
  <2>4. CASE ~IsAwaited(fram, active)
    <3>1. StartNext(pending, fram, None, {active}) /\ UNCHANGED nextId
      BY <2>2, <2>4 DEF Release
    <3>2. Outcome(pending, fram, None, {active}, generation', active', wire', pending', notices', fram')
      BY <1>3, <2>3, <3>1, StartNextHolds DEF StartNext
    <3>3. carried' = carried /\ Answers(fram)
      BY <1>2, <1>5, <2>1, <2>4, ActiveLeaves DEF Answers
    <3> QED
      BY <1>1, <1>3, <1>5, <2>4, <3>1, <3>2, <3>3, ActiveLeaves, EndKeeps
  <2>5. CASE IsAwaited(fram, active) /\ result = "OK" /\ HasMoreChunks
    <3>1. NextChunkStarts(active, None) \/ NextChunkRefused(active, None)
      BY <2>2, <2>5 DEF Release
    <3>2. CASE NextChunkStarts(active, None)
      <4>1. carried' = carried \cup {active.chunk}
        BY <1>2, <2>1, <2>5 DEF IsAwaited
      <4>2. UNCHANGED <<generation, asked, owner, token, late>>
        BY <1>1
      <4> QED
        BY <1>5, <2>5, <3>2, <4>1, <4>2, ChunkKeeps
    <3>3. CASE NextChunkRefused(active, None)
      <4>1. nextId' = nextId + 1 /\ StartNext(pending, Idle("ERROR"), None, {active})
        BY <3>3 DEF NextChunkRefused
      <4>2. Outcome(pending, Idle("ERROR"), None, {active}, generation', active', wire', pending', notices', fram')
        BY <1>3, <2>3, <4>1, StartNextHolds DEF StartNext
      <4>3. /\ Idle("ERROR") \in Driver /\ Idle("ERROR").length = 0
            /\ Fits(Idle("ERROR"), pending, carried')
        BY <1>5, <2>5, IdleType, ActiveLeaves DEF Idle, Fits
      <4>4. fram.length # 0 /\ fram.done + 1 < fram.length
        BY <1>5, <2>5, ActiveLeaves DEF HasMoreChunks
      <4>5. Answers(Idle("ERROR"))
        <5>1. carried' \in {carried, carried \cup {fram.done + 1}}
          BY <1>2, <1>5, <2>1, <2>5, ActiveLeaves
        <5> QED
          BY <4>4, <5>1 DEF Answers
      <4> QED
        BY <1>1, <1>3, <1>5, <4>1, <4>2, <4>3, <4>4, <4>5, ActiveLeaves, EndKeeps
    <3> QED
      BY <3>1, <3>2, <3>3
  <2>6. CASE IsAwaited(fram, active) /\ ~(result = "OK" /\ HasMoreChunks)
    <3> DEFINE last == IF result = "OK" THEN "OK" ELSE "ERROR"
    <3>1. StartNext(pending, Idle(last), None, {active}) /\ UNCHANGED nextId
      BY <2>2, <2>6 DEF Release
    <3>2. last \in {"none", "OK", "ERROR"}
      OBVIOUS
    <3>5. Answers(Idle(last))
      <4>1. /\ fram.length # 0 /\ fram.done < fram.length
            /\ fram.done \in Nat /\ fram.length \in Nat
            /\ active.chunk = fram.done + 1
            /\ active.client = "fram" /\ active.correlation = fram.correlation
        BY <1>5, <2>6, ActiveLeaves, MovedChunks DEF IInv, IsAwaited
      <4>2. CASE result = "OK"
        <5>1. fram.done + 1 = fram.length
          BY <2>6, <4>1, <4>2 DEF HasMoreChunks
        <5>2. carried' = carried \cup {fram.done + 1}
          BY <1>2, <2>1, <4>1, <4>2
        <5> QED
          BY <4>1, <4>2, <5>1, <5>2 DEF Answers
      <4>3. CASE result # "OK"
        <5>1. carried' = carried
          BY <1>2, <4>3
        <5> QED
          BY <4>1, <4>3, <5>1 DEF Answers
      <4> QED
        BY <4>2, <4>3
    <3> HIDE DEF last
    <3>3. Outcome(pending, Idle(last), None, {active}, generation', active', wire', pending', notices', fram')
      BY <1>3, <2>3, <3>1, StartNextHolds DEF StartNext
    <3>4. /\ Idle(last) \in Driver /\ Idle(last).length = 0
          /\ Fits(Idle(last), pending, carried')
      BY <1>5, <2>6, <3>2, IdleType, ActiveLeaves DEF Idle, Fits
    <3> QED
      BY <1>1, <1>3, <1>5, <3>1, <3>3, <3>4, <3>5, ActiveLeaves, EndKeeps
  <2> QED
    BY <2>4, <2>5, <2>6
<1> QED
  BY <1>4, <1>5

-----------------------------------------------------------------------------
LEMMA InitHolds == Init => IInv
<1> SUFFICES ASSUME Init PROVE IInv
  OBVIOUS
<1>1. BusType
  BY SizesAssumption, IdleType DEF Init, BusType, Heard
<1>2. Held = {}
  BY DEF Init, Held
<1>3. Stamped /\ OneNotice
  BY <1>2 DEF Init, Stamped, OneNotice
<1>4. Drawn
  <2>1. 0 * MaxLength = 0
    BY SizesAssumption
  <2> QED
    BY <1>2, <2>1 DEF Init, Drawn, Idle
<1>5. SidesAgree
  BY <1>2 DEF Init, SidesAgree, WireMatchesManager, DriverMatchesBus, Idle
<1>6. Tokens
  BY <1>2 DEF Init, Tokens, Asked, Idle
<1> QED
  BY <1>1, <1>3, <1>4, <1>5, <1>6 DEF IInv

LEMMA StepKeeps == IInv /\ [Next]_vars => IInv' /\ StepHolds
<1> SUFFICES ASSUME IInv, [Next]_vars PROVE IInv' /\ StepHolds
  OBVIOUS
<1>1. CASE Next
  BY <1>1, PressureSubmitsKeeps, BeginKeeps, PortCompletesKeeps, LateKeeps, TickKeeps,
     CancelKeeps, RecoverKeeps DEF Next
<1>2. CASE UNCHANGED vars
  <2>1. PortStep
    BY <1>2, PortSeesNothing DEF vars
  <2> QED
    BY <1>2, <2>1 DEF vars, IInv, BusType, Stamped, Drawn, OneNotice, SidesAgree,
                      WireMatchesManager, DriverMatchesBus, IsAwaited, Held, Tokens, Asked,
                      PressureFirst, StepHolds
<1> QED
  BY <1>1, <1>2

\* i2c_bus_manager.c tells the client of every accepted transaction its end exactly
\* once, whatever is refused, completes late, times out, is cancelled or recovered,
\* and whatever the clients' callbacks submit.
THEOREM ClientsToldOnce == Spec => []OneNotice
<1>1. IInv => OneNotice
  BY DEF IInv
<1> QED
  BY <1>1, InitHolds, StepKeeps, PTL DEF Spec

\* The port, the manager and the F-RAM driver agree after every handler: no idle
\* bus beside waiting work, no driver that waits for a transfer that is gone.
THEOREM AllSidesAgree == Spec => []SidesAgree
<1>1. IInv => SidesAgree
  BY DEF IInv
<1> QED
  BY <1>1, InitHolds, StepKeeps, PTL DEF Spec

\* Arbitration by priority: an F-RAM operation does not get its first chunk on the
\* wire while a pressure transaction waits.  Later chunks of an operation under way,
\* which the driver's callback submits, do go ahead of one.
THEOREM PressureIsServedFirst == Spec => PressureGoesFirst
<1>1. Init => IInv
  BY InitHolds
<1>2. IInv /\ [Next]_vars => IInv' /\ StepHolds
  BY StepKeeps
<1>3. StepHolds =>
        ((/\ active' # None /\ active' # active
          /\ active'.client = "fram" /\ active'.chunk = 1)
         => \A t \in pending' : t.client # "pressure")
  BY DEF StepHolds, PressureFirst
<1> QED
  BY <1>1, <1>2, <1>3, PTL DEF Spec, PressureGoesFirst

\* Seen from the storage service, fram_driver.c on the shared bus is a storage port:
\* every step is one of StoragePort's or changes nothing there, so that an operation
\* is answered at most once, and OK only with its last chunk, whatever was cancelled,
\* recovered, refused or late in between.
THEOREM DriverIsAPort == Spec => ImplementsStoragePort
<1>1. Init => Port!PortInit
  BY FS_EmptySet DEF Init, Idle, Port!PortInit
<1>2. StepHolds => [Port!PortNext]_(Port!portVars)
  BY DEF StepHolds, PortStep
<1> QED
  BY <1>1, <1>2, InitHolds, StepKeeps, PTL DEF Spec, ImplementsStoragePort, Port!PortSpec
=============================================================================
