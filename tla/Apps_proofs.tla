------------------------------ MODULE Apps_proofs ------------------------------
(***************************************************************************)
(* What holds of AppData and SchemaApps for every number of records, keys, *)
(* calls, manifests, sessions, tickets and requests at a time, and all     *)
(* limits.  The two share no state; each part is about the behaviours of   *)
(* one of them, and the last about AppsMC, which joins them.               *)
(***************************************************************************)
EXTENDS AppsMC, FiniteSetTheorems, TLAPS

(***************************************************************************)
(* The records of a code app.                                              *)
(***************************************************************************)
AppDataSpec == AppDataInit /\ [][AppDataNext]_vars

Fields == UNION {m.fields : m \in Manifests}
Responses == [rec : Records \cup {Nothing}, version : Nat]
Roles == {"none", "owner", "editor", "member"}

\* The values that the records P store in f.
Contents(P, f) == {p \in Records \X Fields : p[1] \in P /\ p[2] \in f[p[1]].fields}

AccessTypes ==
  /\ appLive \in BOOLEAN /\ shared \in BOOLEAN
  /\ owner \in Users \cup {Nothing}
  /\ members \subseteq Users
  /\ session \in [Sessions -> [status : {"none", "open", "revoked", "expired"}, role : Roles,
                               user : Users \cup {Nothing}]]
  /\ uses \in [Tickets -> -1..MaxRedemptions]
  /\ ticketLive \subseteq Tickets

RowTypes ==
  /\ deployed \in Manifests \cup {Nothing}
  /\ record \in [Records -> [version : Nat, fields : SUBSET Fields]]
  /\ removed \subseteq {r \in Records : record[r].version > 0}

\* What is stored can be served and is within its limits.
RowsKept ==
  /\ deployed = Nothing => \A r \in Records : record[r].version = 0
  /\ \A r \in Present : Fits(deployed, record[r].fields)
  /\ Cardinality(Present) <= MaxRecords
  /\ Used <= MaxBytes

\* An event is the event of a call under its key; what was not done was not
\* answered.
Logged(k) ==
  IF event[k] = Nothing
  THEN answers[k] = {} /\ k \notin reminders /\ k \notin recent
  ELSE \E c \in Calls, x \in Records \cup {Nothing}, v \in Nat :
         c.key = k /\ event[k] = [call |-> c, response |-> [rec |-> x, version |-> v]]

EventsKept ==
  /\ event \in [Keys -> [call : Calls, response : Responses] \cup {Nothing}]
  /\ answers \in [Keys -> SUBSET Responses]
  /\ recent \subseteq Keys /\ reminders \subseteq Keys
  /\ \A k \in Keys : Logged(k)

RecentOf(a) == {k \in recent : event[k].call.by = a}

MinuteKept ==
  /\ Cardinality(recent) <= MaxPerApp
  /\ \A a \in Actors : Cardinality(RecentOf(a)) <= MaxPerActor

HandlerTypes ==
  /\ pc \in [Handlers -> {"idle", "entered", "read"}]
  /\ work \in [Handlers -> [call : Calls \cup {Nothing}, role : Roles,
                            manifest : Manifests \cup {Nothing}, room : Int]]

\* A request that has entered holds the app alone, and its bearer has the role it was
\* given, or had it until the session expired.
Authorized(h) ==
  LET a == work[h].call.by
  IN  /\ \A g \in Handlers : pc[g] # "idle" => g = h
      /\ appLive
      /\ work[h].call \in Calls
      /\ \/ RoleOf(a) = work[h].role /\ work[h].role \in Writable
         \/ a \in Sessions /\ session[a].status = "expired"

\* What it has read is what there is.
UpToDate(h) ==
  LET c == work[h].call
  IN  /\ deployed = work[h].manifest /\ deployed # Nothing
      /\ work[h].room = MaxBytes - Used
      /\ c.op = "create" => Cardinality(Present) < MaxRecords
      /\ c.op = "remind" => MayRemind(c.by, work[h].role)
      /\ Cardinality(recent) < MaxPerApp
      /\ Cardinality(RecentOf(c.by)) < MaxPerActor

Serving ==
  \A h \in Handlers :
    /\ pc[h] # "idle" => Authorized(h)
    /\ pc[h] = "read" => UpToDate(h)

AppDataInv ==
  AccessTypes /\ RowTypes /\ RowsKept /\ EventsKept /\ MinuteKept /\ HandlerTypes /\ Serving

\* The finiteness of what is counted.
LEMMA Counted ==
  ASSUME AppDataInv
  PROVE  /\ IsFiniteSet(Present) /\ Cardinality(Present) \in Nat
         /\ IsFiniteSet(recent) /\ Cardinality(recent) \in Nat
         /\ \A a : IsFiniteSet(RecentOf(a)) /\ Cardinality(RecentOf(a)) \in Nat
  <1>1. IsFiniteSet(Present)
    BY FS_Subset, AppDataAssumption DEF Present
  <1>2. IsFiniteSet(recent)
    BY FS_Subset, AppDataAssumption DEF AppDataInv, EventsKept
  <1>3. \A a : IsFiniteSet(RecentOf(a))
    BY <1>2, FS_Subset DEF RecentOf
  <1> QED
    BY <1>1, <1>2, <1>3, FS_CardinalityType

\* Records that fit a manifest store finitely many values.
LEMMA ContentsAreFinite ==
  ASSUME NEW P \in SUBSET Records, NEW f, NEW m \in Manifests,
         \A r \in P : f[r].fields \subseteq m.fields
  PROVE  IsFiniteSet(Contents(P, f)) /\ Cardinality(Contents(P, f)) \in Nat
  <1>1. IsFiniteSet(Records \X m.fields)
    BY AppDataAssumption, FS_Product
  <1>2. Contents(P, f) \subseteq Records \X m.fields
    BY DEF Contents
  <1> QED
    BY <1>1, <1>2, FS_Subset, FS_CardinalityType

\* What one record stores counts as much as it has fields.
LEMMA RowCounts ==
  ASSUME NEW r, NEW S, IsFiniteSet(S)
  PROVE  /\ IsFiniteSet({r} \X S) /\ Cardinality({r} \X S) = Cardinality(S)
         /\ Cardinality(S) \in Nat
  <1>1. IsFiniteSet({r}) /\ Cardinality({r}) = 1
    BY FS_Singleton
  <1>2. /\ IsFiniteSet({r} \X S)
        /\ Cardinality({r} \X S) = 1 * Cardinality(S)
    BY <1>1, FS_Product
  <1>3. Cardinality(S) \in Nat
    BY FS_CardinalityType
  <1> QED
    BY <1>2, <1>3

\* Storage is counted record by record.
LEMMA CountedApart ==
  ASSUME NEW P \in SUBSET Records, NEW f, NEW m \in Manifests, NEW r \in P,
         \A q \in P : f[q].fields \subseteq m.fields
  PROVE  /\ Cardinality(Contents(P \ {r}, f)) \in Nat
         /\ Cardinality(f[r].fields) \in Nat
         /\ Cardinality(Contents(P, f))
              = Cardinality(Contents(P \ {r}, f)) + Cardinality(f[r].fields)
  <1> DEFINE rest == Contents(P \ {r}, f)
             mine == {r} \X f[r].fields
  <1>1. IsFiniteSet(rest) /\ Cardinality(rest) \in Nat
    BY ContentsAreFinite
  <1>2. IsFiniteSet(f[r].fields)
    BY AppDataAssumption, FS_Subset
  <1>3. IsFiniteSet(mine) /\ Cardinality(mine) = Cardinality(f[r].fields)
        /\ Cardinality(f[r].fields) \in Nat
    BY <1>2, RowCounts
  <1>4. Contents(P, f) = rest \cup mine
    BY DEF Contents, Fields
  <1>5. rest \cap mine = {}
    BY DEF Contents
  <1>6. Cardinality(rest \cup mine) = Cardinality(rest) + Cardinality(mine) - Cardinality({})
    <2> HIDE DEF rest, mine
    <2>1. Cardinality(rest \cup mine)
            = Cardinality(rest) + Cardinality(mine) - Cardinality(rest \cap mine)
      BY <1>1, <1>3, FS_Union
    <2> QED
      BY <2>1, <1>5
  <1> QED
    BY <1>1, <1>3, <1>4, <1>6, FS_EmptySet

\* The manifest that is served covers what is stored.
LEMMA Covered ==
  ASSUME AppDataInv
  PROVE  /\ Used = Cardinality(Contents(Present, record)) /\ Used \in Nat
         /\ deployed # Nothing => /\ deployed \in Manifests
                                  /\ \A r \in Present : record[r].fields \subseteq deployed.fields
         /\ deployed = Nothing => Present = {}
  <1>1. Used = Cardinality(Contents(Present, record))
    BY DEF Used, Contents, Fields
  <1>2. CASE deployed = Nothing
    <2>1. Present = {}
      BY <1>2 DEF AppDataInv, RowsKept, Present
    <2>2. Contents(Present, record) = {}
      BY <2>1 DEF Contents
    <2> QED
      BY <1>1, <1>2, <2>1, <2>2, FS_EmptySet
  <1>3. CASE deployed # Nothing
    <2>1. deployed \in Manifests /\ \A r \in Present : record[r].fields \subseteq deployed.fields
      BY <1>3 DEF AppDataInv, RowTypes, RowsKept, Fits
    <2>2. Cardinality(Contents(Present, record)) \in Nat
      BY <2>1, ContentsAreFinite DEF Present
    <2> QED
      BY <1>1, <1>3, <2>1, <2>2
  <1> QED
    BY <1>2, <1>3

-----------------------------------------------------------------------------
\* An app starts without records and without calls.
LEMMA AppDataInitially ==
  ASSUME AppDataInit
  PROVE  AppDataInv
  <1>1. Present = {} /\ recent = {} /\ \A a : RecentOf(a) = {}
    BY DEF AppDataInit, Present, NoRecord, RecentOf
  <1>2. Used = Cardinality({})
    <2>1. {p \in Records \X UNION {m.fields : m \in Manifests} :
             p[1] \in Present /\ p[2] \in record[p[1]].fields} = {}
      BY <1>1
    <2> QED
      BY <2>1 DEF Used
  <1>3. Cardinality({}) = 0
    BY FS_EmptySet
  <1>4. AccessTypes
    BY AppDataAssumption DEF AppDataInit, AccessTypes, NoSession, Roles
  <1>5. RowTypes
    BY DEF AppDataInit, RowTypes, NoRecord
  <1>6. RowsKept
    BY <1>1, <1>2, <1>3, AppDataAssumption DEF AppDataInit, RowsKept, NoRecord
  <1>7. EventsKept
    BY DEF AppDataInit, EventsKept, Logged
  <1>8. MinuteKept
    BY <1>1, <1>3, AppDataAssumption DEF MinuteKept
  <1>9. HandlerTypes /\ Serving
    BY DEF AppDataInit, HandlerTypes, Serving, NoWork, Roles
  <1> QED
    BY <1>4, <1>5, <1>6, <1>7, <1>8, <1>9 DEF AppDataInv

-----------------------------------------------------------------------------
(***************************************************************************)
(* The steps.                                                              *)
(***************************************************************************)

\* The transactions that take the row of the app while nobody serves a call from it.
LEMMA AccessChanged ==
  ASSUME AppDataInv, AppLockFree, AccessTypes', UNCHANGED <<dataVars, pc, work, answers>>
  PROVE  AppDataInv'
  <1>1. UNCHANGED <<Present, Used>> /\ \A a : UNCHANGED RecentOf(a)
    BY DEF Present, Used, RecentOf, dataVars
  <1>2. RowTypes' /\ RowsKept'
    BY <1>1 DEF AppDataInv, RowTypes, RowsKept, dataVars
  <1>3. EventsKept' /\ MinuteKept'
    BY <1>1 DEF AppDataInv, EventsKept, MinuteKept, Logged, dataVars
  <1>4. HandlerTypes' /\ Serving'
    BY DEF AppDataInv, HandlerTypes, Serving, AppLockFree
  <1> QED
    BY <1>2, <1>3, <1>4 DEF AppDataInv

\* A request that ends lets the app go.
LEMMA Left ==
  ASSUME AppDataInv, NEW h \in Handlers, pc[h] # "idle", Leave(h)
  PROVE  HandlerTypes' /\ Serving'
  <1>1. \A g \in Handlers : pc'[g] = "idle"
    BY DEF AppDataInv, HandlerTypes, Serving, Authorized, Leave
  <1>2. NoWork \in [call : Calls \cup {Nothing}, role : Roles, manifest : Manifests \cup {Nothing},
                    room : Int]
    BY DEF NoWork, Roles
  <1>3. HandlerTypes'
    BY <1>2 DEF AppDataInv, HandlerTypes, Leave
  <1> QED
    BY <1>1, <1>3 DEF Serving

\* A request that is let in.
LEMMA EnterOK ==
  ASSUME AppDataInv, NEW h \in Handlers, NEW c \in Calls, Enter(h, c)
  PROVE  AppDataInv'
  <1>1. /\ AppLockFree /\ appLive /\ RoleOf(c.by) \in Writable
        /\ UNCHANGED <<accessVars, dataVars, answers>>
        /\ pc' = [pc EXCEPT ![h] = "entered"]
    BY DEF Enter
  <1>2. UNCHANGED <<Present, Used>> /\ \A a : UNCHANGED <<RecentOf(a), RoleOf(a)>>
    BY <1>1 DEF Present, Used, RecentOf, RoleOf, dataVars, accessVars
  <1>3. AccessTypes' /\ RowTypes' /\ RowsKept'
    BY <1>1, <1>2 DEF AppDataInv, AccessTypes, RowTypes, RowsKept, dataVars, accessVars
  <1>4. EventsKept' /\ MinuteKept'
    BY <1>1, <1>2 DEF AppDataInv, EventsKept, MinuteKept, Logged, dataVars
  <1> DEFINE w == [NoWork EXCEPT !.call = c, !.role = RoleOf(c.by)]
  <1>5. /\ w.call = c /\ w.role = RoleOf(c.by)
        /\ w \in [call : Calls \cup {Nothing}, role : Roles, manifest : Manifests \cup {Nothing},
                  room : Int]
    <2>1. RoleOf(c.by) \in Roles
      BY <1>1 DEF Roles, Writable
    <2>2. NoWork \in [call : Calls \cup {Nothing}, role : Roles,
                      manifest : Manifests \cup {Nothing}, room : Int]
      BY DEF NoWork, Roles
    <2> DEFINE r == RoleOf(c.by)
    <2> HIDE DEF r
    <2>3. [NoWork EXCEPT !.call = c, !.role = r]
            \in [call : Calls \cup {Nothing}, role : Roles,
                 manifest : Manifests \cup {Nothing}, room : Int]
      BY <2>1, <2>2 DEF r
    <2>4. /\ [NoWork EXCEPT !.call = c, !.role = r].call = c
          /\ [NoWork EXCEPT !.call = c, !.role = r].role = r
      BY DEF NoWork
    <2> QED
      BY <2>3, <2>4 DEF r
  <1>6. work' = [work EXCEPT ![h] = w]
    BY DEF Enter
  <1> HIDE DEF w
  <1>7. HandlerTypes'
    BY <1>1, <1>5, <1>6 DEF AppDataInv, HandlerTypes
  <1>8. work'[h] = w /\ pc'[h] = "entered" /\ \A g \in Handlers \ {h} : pc'[g] = "idle"
    BY <1>1, <1>6 DEF AppDataInv, HandlerTypes, AppLockFree
  <1>9. Authorized(h)'
    BY <1>1, <1>2, <1>5, <1>8 DEF Authorized, accessVars
  <1>10. Serving'
    BY <1>8, <1>9 DEF Serving
  <1> QED
    BY <1>3, <1>4, <1>7, <1>10 DEF AppDataInv

\* What a request reads is up to date.
LEMMA ReadOK ==
  ASSUME AppDataInv, NEW h \in Handlers, Read(h)
  PROVE  AppDataInv'
  <1> DEFINE c == work[h].call
             w == [work[h] EXCEPT !.manifest = deployed, !.room = MaxBytes - Used]
  <1>1. /\ pc[h] = "entered" /\ pc' = [pc EXCEPT ![h] = "read"]
        /\ UNCHANGED <<accessVars, dataVars, answers>>
        /\ work' = [work EXCEPT ![h] = w]
        /\ deployed # Nothing /\ Unhurried(c.by)
        /\ c.op = "remind" => MayRemind(c.by, work[h].role)
        /\ c.op = "create" => Cardinality(Present) < MaxRecords
    BY DEF Read
  <1>2. UNCHANGED <<Present, Used>> /\ \A a : UNCHANGED <<RecentOf(a), RoleOf(a)>>
    BY <1>1 DEF Present, Used, RecentOf, RoleOf, dataVars, accessVars
  <1>3. AccessTypes' /\ RowTypes' /\ RowsKept'
    BY <1>1, <1>2 DEF AppDataInv, AccessTypes, RowTypes, RowsKept, dataVars, accessVars
  <1>4. EventsKept' /\ MinuteKept'
    BY <1>1, <1>2 DEF AppDataInv, EventsKept, MinuteKept, Logged, dataVars
  <1>5. Authorized(h)
    BY <1>1 DEF AppDataInv, Serving
  <1>6. /\ w.call = c /\ w.role = work[h].role /\ w.manifest = deployed /\ w.room = MaxBytes - Used
        /\ w \in [call : Calls \cup {Nothing}, role : Roles, manifest : Manifests \cup {Nothing},
                  room : Int]
    <2>1. work[h] \in [call : Calls \cup {Nothing}, role : Roles,
                       manifest : Manifests \cup {Nothing}, room : Int]
      BY DEF AppDataInv, HandlerTypes
    <2>2. deployed \in Manifests \cup {Nothing} /\ MaxBytes - Used \in Int
      BY AppDataAssumption, Covered DEF AppDataInv, RowTypes
    <2> DEFINE x == work[h]
               n == MaxBytes - Used
    <2> HIDE DEF x, n
    <2>3. /\ [x EXCEPT !.manifest = deployed, !.room = n].call = x.call
          /\ [x EXCEPT !.manifest = deployed, !.room = n].role = x.role
          /\ [x EXCEPT !.manifest = deployed, !.room = n].manifest = deployed
          /\ [x EXCEPT !.manifest = deployed, !.room = n].room = n
      BY <2>1 DEF x
    <2>4. [x EXCEPT !.manifest = deployed, !.room = n]
            \in [call : Calls \cup {Nothing}, role : Roles,
                 manifest : Manifests \cup {Nothing}, room : Int]
      BY <2>1, <2>2 DEF x, n
    <2> QED
      BY <2>3, <2>4 DEF x, n
  <1>7. HandlerTypes'
    BY <1>1, <1>6 DEF AppDataInv, HandlerTypes
  <1>8. work'[h] = w /\ pc'[h] = "read" /\ \A g \in Handlers \ {h} : pc'[g] = "idle"
    BY <1>1, <1>5 DEF AppDataInv, HandlerTypes, Authorized
  <1>9. Cardinality(RecentOf(c.by)) < MaxPerActor /\ Cardinality(recent) < MaxPerApp
    <2> DEFINE alike == {k \in recent : Identity(event[k].call.by) = Identity(c.by)}
    <2>1. Cardinality(alike) < MaxPerActor /\ Cardinality(recent) < MaxPerApp
      BY <1>1 DEF Unhurried
    <2>2. IsFiniteSet(alike)
      BY Counted, FS_Subset
    <2>3. RecentOf(c.by) \subseteq alike
      BY DEF RecentOf
    <2>4. /\ Cardinality(RecentOf(c.by)) <= Cardinality(alike)
          /\ Cardinality(RecentOf(c.by)) \in Nat /\ Cardinality(alike) \in Nat
      BY <2>2, <2>3, FS_Subset, FS_CardinalityType
    <2> QED
      BY <2>1, <2>4, AppDataAssumption
  <1> HIDE DEF w
  <1>10. Authorized(h)'
    BY <1>1, <1>2, <1>5, <1>6, <1>8 DEF Authorized, accessVars
  <1>11. UpToDate(h)'
    BY <1>1, <1>2, <1>6, <1>8, <1>9 DEF UpToDate, dataVars
  <1>12. Serving'
    BY <1>8, <1>10, <1>11 DEF Serving
  <1> QED
    BY <1>3, <1>4, <1>7, <1>12 DEF AppDataInv

\* A request that gives up, or answers what is stored, leaves everything as it is.
LEMMA AbortOK ==
  ASSUME AppDataInv, NEW h \in Handlers, pc[h] # "idle", Leave(h),
         UNCHANGED <<accessVars, dataVars>>,
         answers' \in [Keys -> SUBSET Responses],
         \A k \in Keys : event[k] = Nothing => answers'[k] = answers[k]
  PROVE  AppDataInv'
  <1>1. UNCHANGED <<Present, Used>> /\ \A a : UNCHANGED RecentOf(a)
    BY DEF Present, Used, RecentOf, dataVars
  <1>2. AccessTypes' /\ RowTypes' /\ RowsKept'
    BY <1>1 DEF AppDataInv, AccessTypes, RowTypes, RowsKept, dataVars, accessVars
  <1>3. EventsKept' /\ MinuteKept'
    BY <1>1 DEF AppDataInv, EventsKept, MinuteKept, Logged, dataVars
  <1> QED
    BY <1>2, <1>3, Left DEF AppDataInv

\* Time passes also while a request is served: a session that expires leaves its request
\* what it was given, and a new minute only widens the limits.
LEMMA ExpireOK ==
  ASSUME AppDataInv, NEW s \in Sessions, Expire(s)
  PROVE  AppDataInv'
  <1> DEFINE e == [session[s] EXCEPT !.status = "expired"]
  <1>1. /\ session[s].status = "open" /\ session' = [session EXCEPT ![s] = e]
        /\ UNCHANGED <<appLive, shared, owner, members, uses, ticketLive, dataVars, pc, work, answers>>
    BY DEF Expire
  <1>2. /\ e.status = "expired"
        /\ e \in [status : {"none", "open", "revoked", "expired"}, role : Roles,
                  user : Users \cup {Nothing}]
    BY DEF AppDataInv, AccessTypes
  <1> HIDE DEF e
  <1>3. UNCHANGED <<Present, Used>> /\ \A a : UNCHANGED RecentOf(a)
    BY <1>1 DEF Present, Used, RecentOf, dataVars
  <1>4. AccessTypes'
    BY <1>1, <1>2 DEF AppDataInv, AccessTypes
  <1>5. RowTypes' /\ RowsKept'
    BY <1>1, <1>3 DEF AppDataInv, RowTypes, RowsKept, dataVars
  <1>6. EventsKept' /\ MinuteKept'
    BY <1>1, <1>3 DEF AppDataInv, EventsKept, MinuteKept, Logged, dataVars
  <1>7. \A a \in Actors : RoleOf(a)' = RoleOf(a) \/ (a \in Sessions /\ session'[a].status = "expired")
    BY <1>1, <1>2 DEF AppDataInv, AccessTypes, RoleOf, Actors
  <1>8. \A a \in Sessions : session[a].status = "expired" => session'[a].status = "expired"
    BY <1>1, <1>2 DEF AppDataInv, AccessTypes
  <1>9. \A h \in Handlers : Authorized(h) => Authorized(h)'
    BY <1>1, <1>7, <1>8, AppDataAssumption DEF Authorized
  <1>10. \A h \in Handlers : UpToDate(h) => UpToDate(h)'
    BY <1>1, <1>3 DEF UpToDate, dataVars
  <1>11. HandlerTypes' /\ Serving'
    BY <1>1, <1>9, <1>10 DEF AppDataInv, HandlerTypes, Serving
  <1> QED
    BY <1>4, <1>5, <1>6, <1>11 DEF AppDataInv

\* As ExpireOK, for a ticket.
LEMMA ExpireTicketOK ==
  ASSUME AppDataInv, NEW t \in Tickets, ExpireTicket(t)
  PROVE  AppDataInv'
  <1>1. /\ ticketLive' = ticketLive \ {t}
        /\ UNCHANGED <<appLive, shared, owner, members, session, uses, dataVars, pc, work, answers>>
    BY DEF ExpireTicket
  <1>2. UNCHANGED <<Present, Used>> /\ \A a : UNCHANGED <<RecentOf(a), RoleOf(a)>>
    BY <1>1 DEF Present, Used, RecentOf, RoleOf, dataVars
  <1>3. AccessTypes' /\ RowTypes' /\ RowsKept'
    BY <1>1, <1>2 DEF AppDataInv, AccessTypes, RowTypes, RowsKept, dataVars
  <1>4. EventsKept' /\ MinuteKept'
    BY <1>1, <1>2 DEF AppDataInv, EventsKept, MinuteKept, Logged, dataVars
  <1>5. \A h \in Handlers : /\ Authorized(h) => Authorized(h)'
                            /\ UpToDate(h) => UpToDate(h)'
    BY <1>1, <1>2 DEF Authorized, UpToDate, dataVars
  <1>6. HandlerTypes' /\ Serving'
    BY <1>1, <1>5 DEF AppDataInv, HandlerTypes, Serving
  <1> QED
    BY <1>3, <1>4, <1>6 DEF AppDataInv

\* As ExpireOK, for the minute of the limits.
LEMMA MinuteOK ==
  ASSUME AppDataInv, MinutePasses
  PROVE  AppDataInv'
  <1>1. /\ recent' = {}
        /\ UNCHANGED <<accessVars, deployed, record, removed, event, reminders, pc, work, answers>>
    BY DEF MinutePasses
  <1>2. UNCHANGED <<Present, Used>> /\ \A a : UNCHANGED RoleOf(a)
    BY <1>1 DEF Present, Used, RoleOf, accessVars
  <1>3. AccessTypes' /\ RowTypes' /\ RowsKept'
    BY <1>1, <1>2 DEF AppDataInv, AccessTypes, RowTypes, RowsKept, accessVars
  <1>4. EventsKept'
    BY <1>1 DEF AppDataInv, EventsKept, Logged
  <1>5. Cardinality({}) = 0 /\ \A a : RecentOf(a)' = {}
    BY <1>1, FS_EmptySet DEF RecentOf
  <1>6. MinuteKept'
    BY <1>1, <1>5, AppDataAssumption DEF MinuteKept
  <1>7. \A h \in Handlers : /\ Authorized(h) => Authorized(h)'
                            /\ UpToDate(h) => UpToDate(h)'
    <2>1. \A h \in Handlers : Authorized(h) => Authorized(h)'
      BY <1>1, <1>2 DEF Authorized, accessVars
    <2>2. ASSUME NEW h \in Handlers, UpToDate(h)
          PROVE  UpToDate(h)'
      <3>1. 0 < MaxPerApp /\ 0 < MaxPerActor
        BY <2>2, Counted, AppDataAssumption DEF UpToDate
      <3> QED
        BY <1>1, <1>2, <1>5, <2>2, <3>1 DEF UpToDate
    <2> QED
      BY <2>1, <2>2
  <1>8. HandlerTypes' /\ Serving'
    BY <1>1, <1>7 DEF AppDataInv, HandlerTypes, Serving
  <1> QED
    BY <1>3, <1>4, <1>6, <1>8 DEF AppDataInv

-----------------------------------------------------------------------------
\* One more element makes a finite set at most one larger.
LEMMA OneMore ==
  ASSUME NEW S, NEW x, IsFiniteSet(S)
  PROVE  /\ IsFiniteSet(S \cup {x})
         /\ Cardinality(S) \in Nat /\ Cardinality(S \cup {x}) \in Nat
         /\ Cardinality(S \cup {x}) <= Cardinality(S) + 1
  <1>1. /\ IsFiniteSet(S \cup {x})
        /\ Cardinality(S \cup {x}) = IF x \in S THEN Cardinality(S) ELSE Cardinality(S) + 1
    BY FS_AddElement
  <1>2. Cardinality(S) \in Nat
    BY FS_CardinalityType
  <1> QED
    BY <1>1, <1>2

\* What a commit stores beside its effect: the event and, unless it is lost, the answer.
LEMMA LogOK ==
  ASSUME AppDataInv, NEW h \in Handlers, pc[h] = "read",
         NEW r \in Records \cup {Nothing}, NEW v \in Nat, NEW lost \in BOOLEAN,
         NEW c, c = work[h].call, NEW k, k = c.key,
         Log(c, r, v), Answer(h, c, lost), reminders' \in {reminders, reminders \cup {k}}
  PROVE  EventsKept' /\ MinuteKept' /\ HandlerTypes' /\ Serving'
  <1> DEFINE e == [call |-> c, response |-> [rec |-> r, version |-> v]]
  <1>1. /\ event[k] = Nothing /\ event' = [event EXCEPT ![k] = e]
        /\ recent' = recent \cup {k}
        /\ Leave(h)
    BY DEF Log, Answer
  <1>2. c \in Calls /\ k \in Keys /\ c.by \in Actors /\ UpToDate(h)
    BY AppDataAssumption DEF AppDataInv, Serving, Authorized
  <1>3. e \in [call : Calls, response : Responses] /\ event' \in [Keys -> [call : Calls, response : Responses] \cup {Nothing}]
    BY <1>1, <1>2 DEF AppDataInv, EventsKept, Responses
  <1>4. event'[k] = e /\ event'[k].response \in Responses /\ event'[k].call = c
    BY <1>1, <1>2 DEF AppDataInv, EventsKept, Responses
  <1>5. e # Nothing
    BY <1>3, AppDataAssumption DEF Responses
  <1>6. answers' \in [Keys -> SUBSET Responses] /\ \A l \in Keys \ {k} : answers'[l] = answers[l]
    <2> DEFINE told == IF lost THEN answers[k] ELSE answers[k] \cup {event'[k].response}
    <2>1. told \in SUBSET Responses
      BY <1>2, <1>4 DEF AppDataInv, EventsKept
    <2>2. answers' = [answers EXCEPT ![k] = told]
      BY DEF Answer
    <2>3. answers \in [Keys -> SUBSET Responses]
      BY DEF AppDataInv, EventsKept
    <2> HIDE DEF told
    <2> QED
      BY <2>1, <2>2, <2>3
  <1>7. \A l \in Keys : Logged(l)'
    <2>1. Logged(k)'
      BY <1>2, <1>4, <1>5 DEF Logged
    <2>2. ASSUME NEW l \in Keys \ {k}
          PROVE  Logged(l)'
      <3>1. Logged(l)
        BY DEF AppDataInv, EventsKept
      <3>2. event'[l] = event[l] /\ answers'[l] = answers[l]
        <4>1. event \in [Keys -> [call : Calls, response : Responses] \cup {Nothing}]
          BY DEF AppDataInv, EventsKept
        <4> QED
          BY <1>1, <1>6, <4>1
      <3>3. (l \in recent' <=> l \in recent) /\ (l \in reminders' <=> l \in reminders)
        BY <1>1
      <3>4. CASE event[l] = Nothing
        BY <3>1, <3>2, <3>3, <3>4 DEF Logged
      <3>5. CASE event[l] # Nothing
        <4>1. PICK d \in Calls, x \in Records \cup {Nothing}, n \in Nat :
                d.key = l /\ event[l] = [call |-> d, response |-> [rec |-> x, version |-> n]]
          BY <3>1, <3>5 DEF Logged
        <4>2. /\ event'[l] # Nothing /\ d.key = l
              /\ event'[l] = [call |-> d, response |-> [rec |-> x, version |-> n]]
          BY <3>2, <3>5, <4>1
        <4> QED
          BY <4>2 DEF Logged
      <3> QED
        BY <3>4, <3>5
    <2> QED
      BY <2>1, <2>2
  <1>8. EventsKept'
    <2>1. recent' \subseteq Keys
      BY <1>1, <1>2 DEF AppDataInv, EventsKept
    <2>2. reminders' \subseteq Keys
      BY <1>2 DEF AppDataInv, EventsKept
    <2>3. event' \in [Keys -> [call : Calls, response : Responses] \cup {Nothing}]
      BY <1>3
    <2> QED
      BY <2>3, <1>6, <1>7, <2>1, <2>2 DEF EventsKept
  <1>9. /\ IsFiniteSet(recent') /\ Cardinality(recent') <= Cardinality(recent) + 1
        /\ Cardinality(recent) \in Nat /\ Cardinality(recent') \in Nat
    BY <1>1, Counted, OneMore
  <1>10. ASSUME NEW a \in Actors
         PROVE  Cardinality(RecentOf(a)') <= MaxPerActor
    <2>0. IsFiniteSet(RecentOf(a)) /\ Cardinality(RecentOf(a)) \in Nat
      BY Counted
    <2>1. CASE a = c.by
      <3>1. RecentOf(a)' = RecentOf(a) \cup {k}
        <4>1. \A l \in Keys \ {k} : event'[l] = event[l]
          BY <1>1 DEF AppDataInv, EventsKept
        <4>2. recent' = recent \cup {k} /\ recent \subseteq Keys /\ event'[k].call.by = a
          BY <1>1, <1>4, <2>1 DEF AppDataInv, EventsKept
        <4>3. k \notin recent
          BY <1>1, <1>2 DEF AppDataInv, EventsKept, Logged
        <4>4. \A l : l \in RecentOf(a)' <=> l \in RecentOf(a) \cup {k}
          BY <4>1, <4>2, <4>3 DEF RecentOf
        <4> QED
          BY <4>4
      <3>2. /\ Cardinality(RecentOf(a) \cup {k}) <= Cardinality(RecentOf(a)) + 1
            /\ Cardinality(RecentOf(a) \cup {k}) \in Nat
        BY <2>0, OneMore
      <3>4. Cardinality(RecentOf(a)) < MaxPerActor
        BY <1>2, <2>1 DEF UpToDate
      <3> QED
        BY <2>0, <3>1, <3>2, <3>4, AppDataAssumption
    <2>2. CASE a # c.by
      <3>1. RecentOf(a)' = RecentOf(a)
        BY <2>2, <1>1, <1>4 DEF RecentOf, AppDataInv, EventsKept, Logged
      <3> QED
        BY <3>1 DEF AppDataInv, MinuteKept
    <2> QED
      BY <2>1, <2>2
  <1>11. MinuteKept'
    <2>1. Cardinality(recent) < MaxPerApp
      BY <1>2 DEF UpToDate
    <2> QED
      BY <1>9, <1>10, <2>1, AppDataAssumption DEF MinuteKept
  <1> QED
    BY <1>1, <1>8, <1>11, Left

\* What a call may put in the place of old in r.
Admitted(r, n, fields, old) ==
  /\ deployed # Nothing /\ Fits(deployed, fields)
  /\ r \notin removed /\ n > 0
  /\ old \in SUBSET Fields
  /\ r \in Present => old = record[r].fields
  /\ r \notin Present => old = {} /\ Cardinality(Present) < MaxRecords
  /\ HasRoom(Cardinality(fields) - Cardinality(old), MaxBytes - Used)

\* A record that was added or changed by a call that had room for it.
LEMMA RowStored ==
  ASSUME AppDataInv, UNCHANGED <<deployed, removed>>,
         NEW r \in Records, NEW n \in Nat, NEW fields, NEW old, Admitted(r, n, fields, old),
         record' = [record EXCEPT ![r] = [version |-> n, fields |-> fields]]
  PROVE  RowTypes' /\ RowsKept'
  <1>0. /\ deployed # Nothing /\ Fits(deployed, fields)
        /\ r \notin removed /\ n > 0
        /\ old \in SUBSET Fields
        /\ r \in Present => old = record[r].fields
        /\ r \notin Present => old = {} /\ Cardinality(Present) < MaxRecords
        /\ HasRoom(Cardinality(fields) - Cardinality(old), MaxBytes - Used)
    BY DEF Admitted
  <1>1. fields \subseteq deployed.fields /\ deployed \in Manifests /\ fields \subseteq Fields
    BY <1>0 DEF AppDataInv, RowTypes, Fits, Fields
  <1>2. /\ record'[r].version = n /\ record'[r].fields = fields
        /\ \A q \in Records \ {r} : record'[q] = record[q]
        /\ record' \in [Records -> [version : Nat, fields : SUBSET Fields]]
    BY <1>1 DEF AppDataInv, RowTypes
  <1>3. RowTypes'
    BY <1>0, <1>2 DEF AppDataInv, RowTypes
  <1>4. Present' = Present \cup {r}
    BY <1>0, <1>2 DEF Present
  <1>5. \A q \in Present' : Fits(deployed, record'[q].fields)
    BY <1>0, <1>2, <1>4 DEF AppDataInv, RowsKept, Present
  <1>6. Cardinality(Present') <= MaxRecords
    <2>1. /\ IsFiniteSet(Present) /\ Cardinality(Present) \in Nat
          /\ Cardinality(Present) <= MaxRecords
      BY Counted DEF AppDataInv, RowsKept
    <2>2. CASE r \in Present
      BY <1>4, <2>1, <2>2, FS_AddElement
    <2>3. CASE r \notin Present
      <3>1. Cardinality(Present \cup {r}) = Cardinality(Present) + 1
        BY <2>1, <2>3, FS_AddElement
      <3> QED
        BY <1>0, <1>4, <2>1, <2>3, <3>1, AppDataAssumption
    <2> QED
      BY <2>2, <2>3
  <1> DEFINE rest == Cardinality(Contents(Present \ {r}, record))
  <1>7. Used = rest + Cardinality(old) /\ rest \in Nat /\ Cardinality(old) \in Nat
    <2>1. /\ Used = Cardinality(Contents(Present, record)) /\ Used \in Nat
          /\ \A q \in Present : record[q].fields \subseteq deployed.fields
      BY <1>0, Covered
    <2>2. CASE r \in Present
      <3>1. Present \in SUBSET Records
        BY DEF Present
      <3>2. /\ rest \in Nat /\ Cardinality(record[r].fields) \in Nat
            /\ Cardinality(Contents(Present, record)) = rest + Cardinality(record[r].fields)
        BY <1>0, <2>1, <2>2, <1>1, <3>1, CountedApart
      <3> QED
        BY <1>0, <2>1, <2>2, <3>2
    <2>3. CASE r \notin Present
      <3>1. Present \ {r} = Present /\ old = {}
        BY <1>0, <2>3
      <3>2. Cardinality(old) = 0
        BY <3>1, FS_EmptySet
      <3>3. rest = Used
        BY <2>1, <3>1
      <3> HIDE DEF rest
      <3> QED
        BY <2>1, <3>2, <3>3
    <2> QED
      BY <2>2, <2>3
  <1>8. Used' = rest + Cardinality(fields) /\ Cardinality(fields) \in Nat
    <2>1. Used' = Cardinality(Contents(Present', record'))
      BY DEF Used, Contents, Fields
    <2>2. Present' \in SUBSET Records /\ r \in Present'
      BY <1>4 DEF Present
    <2>3. \A q \in Present' : record'[q].fields \subseteq deployed.fields
      BY <1>0, <1>5 DEF Fits
    <2>4. /\ Cardinality(record'[r].fields) \in Nat
          /\ Cardinality(Contents(Present', record'))
               = Cardinality(Contents(Present' \ {r}, record')) + Cardinality(record'[r].fields)
      <3> DEFINE P == Present'
                 f == record'
      <3>1. P \in SUBSET Records /\ r \in P /\ \A q \in P : f[q].fields \subseteq deployed.fields
        BY <2>2, <2>3
      <3> HIDE DEF P, f
      <3>2. /\ Cardinality(f[r].fields) \in Nat
            /\ Cardinality(Contents(P, f))
                 = Cardinality(Contents(P \ {r}, f)) + Cardinality(f[r].fields)
        BY <3>1, <1>1, CountedApart
      <3> QED
        BY <3>2 DEF P, f
    <2>5. Contents(Present' \ {r}, record') = Contents(Present \ {r}, record)
      BY <1>2, <1>4 DEF Contents, Present
    <2> QED
      BY <1>2, <2>1, <2>4, <2>5
  <1>9. Used' <= MaxBytes
    <2> HIDE DEF rest
    <2>1. Used <= MaxBytes /\ MaxBytes \in Nat
      BY AppDataAssumption DEF AppDataInv, RowsKept
    <2> QED
      BY <1>0, <1>7, <1>8, <2>1 DEF HasRoom
  <1>10. RowsKept'
    BY <1>0, <1>5, <1>6, <1>9 DEF RowsKept
  <1> QED
    BY <1>3, <1>10

-----------------------------------------------------------------------------
\* A deployment serves what is stored, and the first one plants the seeds.
LEMMA DeployOK ==
  ASSUME AppDataInv, NEW m \in Manifests, Deploy(m)
  PROVE  AppDataInv' /\ (Ledger!vars' = Ledger!vars \/ Ledger!Seed)
  <1>1. /\ AppLockFree /\ deployed' = m /\ m # Nothing
        /\ \A r \in Present : Fits(m, record[r].fields)
        /\ UNCHANGED <<accessVars, removed, event, recent, reminders, pc, work, answers>>
    BY AppDataAssumption DEF Deploy
  <1>2. /\ AccessTypes' /\ EventsKept' /\ MinuteKept' /\ HandlerTypes' /\ Serving'
    <2>1. AccessTypes' /\ HandlerTypes' /\ Serving'
      BY <1>1 DEF AppDataInv, AccessTypes, accessVars, HandlerTypes, Serving, AppLockFree
    <2>2. EventsKept'
      BY <1>1 DEF AppDataInv, EventsKept, Logged
    <2>3. \A a : UNCHANGED RecentOf(a)
      BY <1>1 DEF RecentOf
    <2>4. MinuteKept'
      BY <1>1, <2>3 DEF AppDataInv, MinuteKept
    <2> QED
      BY <2>1, <2>2, <2>4
  <1>3. CASE UNCHANGED record
    <2>1. UNCHANGED <<Present, Used>>
      BY <1>1, <1>3 DEF Present, Used
    <2>2. RowTypes' /\ RowsKept'
      BY <1>1, <1>3, <2>1 DEF AppDataInv, RowTypes, RowsKept
    <2>3. Ledger!vars' = Ledger!vars
      BY <1>1, <1>3 DEF Ledger!vars
    <2> QED
      BY <1>2, <2>2, <2>3 DEF AppDataInv
  <1>4. CASE /\ deployed = Nothing
             /\ Cardinality(Seeds) * Cardinality(m.required) <= MaxBytes
             /\ record' = [r \in Records |-> IF r \in Seeds THEN [version |-> 1, fields |-> m.required]
                                                            ELSE NoRecord]
    <2>1. \A r \in Records : record[r].version = 0
      BY <1>4 DEF AppDataInv, RowsKept
    <2>2. removed = {} /\ Seeds \subseteq Records /\ m.required \subseteq Fields
      BY <2>1, AppDataAssumption DEF AppDataInv, RowTypes, Fields
    <2>3. RowTypes'
      BY <1>1, <1>4, <2>2 DEF RowTypes, NoRecord
    <2>4. Present' = Seeds
      BY <1>1, <1>4, <2>2 DEF Present, NoRecord
    <2>5. Contents(Present', record') = Seeds \X m.required
      BY <1>4, <2>2, <2>4 DEF Contents
    <2>6. Used' = Cardinality(Seeds \X m.required)
      BY <2>5 DEF Used, Contents, Fields
    <2>7. IsFiniteSet(Seeds) /\ IsFiniteSet(m.required)
      BY AppDataAssumption, FS_Subset
    <2>8. Used' <= MaxBytes
      BY <1>4, <2>6, <2>7, FS_Product
    <2>9. RowsKept'
      BY <1>1, <1>4, <2>2, <2>4, <2>8, AppDataAssumption DEF RowsKept, Fits
    <2>10. Ledger!Seed
      <3> DEFINE old == [r \in Records |-> record[r].version]
                 new == [r \in Records |-> IF r \in Seeds THEN 1 ELSE 0]
      <3>1. \A r \in Records : old[r] = 0
        BY <2>1
      <3>2. [r \in Records |-> record'[r].version] = new
        BY <1>4, <2>2 DEF NoRecord
      <3>3. Seeds \in SUBSET Records
        BY <2>2
      <3> QED
        BY <1>1, <3>1, <3>2, <3>3 DEF Ledger!Seed
    <2> QED
      BY <1>2, <2>3, <2>9, <2>10 DEF AppDataInv
  <1> QED
    BY <1>3, <1>4 DEF Deploy

\* The event that a commit stores is an effect of the ledger.
LEMMA Recorded ==
  ASSUME AppDataInv, NEW h \in Handlers, pc[h] = "read",
         NEW r \in Records \cup {Nothing}, NEW v \in Nat, NEW lost \in BOOLEAN,
         NEW c, c = work[h].call, NEW k, k = c.key,
         Log(c, r, v), Answer(h, c, lost), c.expects \in Nat
  PROVE  Ledger!Record(k, r, c.expects, v)
  <1> DEFINE e == [call |-> c, response |-> [rec |-> r, version |-> v]]
             done == [l \in Keys |-> IF event[l] = Nothing THEN Nothing
                                     ELSE [rec |-> event[l].response.rec,
                                           against |-> event[l].call.expects,
                                           version |-> event[l].response.version]]
             doneNext == [l \in Keys |-> IF event'[l] = Nothing THEN Nothing
                                     ELSE [rec |-> event'[l].response.rec,
                                           against |-> event'[l].call.expects,
                                           version |-> event'[l].response.version]]
             d == [rec |-> r, against |-> c.expects, version |-> v]
  <1>1. event[k] = Nothing /\ event' = [event EXCEPT ![k] = e]
    BY DEF Log
  <1>2. c \in Calls /\ k \in Keys
    BY AppDataAssumption DEF AppDataInv, Serving, Authorized
  <1>3. /\ event \in [Keys -> [call : Calls, response : Responses] \cup {Nothing}]
        /\ answers \in [Keys -> SUBSET Responses] /\ answers[k] = {}
    BY <1>1, <1>2 DEF AppDataInv, EventsKept, Logged
  <1>4. e \in [call : Calls, response : Responses] /\ e # Nothing
    BY <1>2, AppDataAssumption DEF Responses
  <1>5. event'[k] = e /\ \A l \in Keys \ {k} : event'[l] = event[l]
    BY <1>1, <1>2, <1>3
  <1>6. doneNext = [done EXCEPT ![k] = d]
    <2>1. doneNext[k] = d
      BY <1>2, <1>4, <1>5
    <2>2. \A l \in Keys \ {k} : doneNext[l] = done[l]
      BY <1>5
    <2>3. DOMAIN done = Keys /\ DOMAIN doneNext = Keys
      OBVIOUS
    <2>4. done = [l \in Keys |-> done[l]] /\ doneNext = [l \in Keys |-> doneNext[l]]
      OBVIOUS
    <2> HIDE DEF done, doneNext, d
    <2> QED
      BY <2>1, <2>2, <2>3, <2>4, <1>2
  <1>7. done[k] = Nothing
    BY <1>1, <1>2
  <1>8. /\ doneNext[k].rec = r /\ doneNext[k].version = v
        /\ event'[k].response = [rec |-> r, version |-> v]
    BY <1>2, <1>5, <1>6
  <1>9. answers' \in {answers, [answers EXCEPT ![k] = {[rec |-> r, version |-> v]}]}
    BY <1>3, <1>8 DEF Answer
  <1>10. Ledger!Answer(k)' = [rec |-> r, version |-> v]
    BY <1>8 DEF Ledger!Answer
  <1> QED
    BY <1>6, <1>7, <1>9, <1>10 DEF Ledger!Record

-----------------------------------------------------------------------------
\* What CommitsUnderAuthority says of a step.
CommitIsCovered ==
  \A k \in Keys :
    event[k] = Nothing /\ event'[k] # Nothing =>
      LET a == event'[k].call.by
      IN  /\ appLive
          /\ RoleOf(a) \in Writable \/ (a \in Sessions /\ session[a].status = "expired")
          /\ k \in reminders' => a = owner

\* A commit has the authority its request was let in with.
LEMMA Covering ==
  ASSUME AppDataInv, NEW h \in Handlers, pc[h] = "read", NEW r, NEW v,
         Log(work[h].call, r, v),
         \/ UNCHANGED reminders
         \/ work[h].call.op = "remind" /\ reminders' = reminders \cup {work[h].call.key}
  PROVE  CommitIsCovered
  <1> DEFINE c == work[h].call
  <1>1. c \in Calls /\ c.key \in Keys /\ c.by \in Actors /\ Authorized(h) /\ UpToDate(h)
    BY AppDataAssumption DEF AppDataInv, Serving, Authorized
  <1>2. /\ event[c.key] = Nothing
        /\ event' = [event EXCEPT ![c.key] = [call |-> c, response |-> [rec |-> r, version |-> v]]]
    BY DEF Log
  <1>3. event'[c.key].call = c /\ \A k \in Keys \ {c.key} : event'[k] = event[k]
    BY <1>1, <1>2 DEF AppDataInv, EventsKept
  <1>4. appLive /\ (RoleOf(c.by) \in Writable \/ (c.by \in Sessions /\ session[c.by].status = "expired"))
    BY <1>1 DEF Authorized
  <1>5. c.key \in reminders' => c.by = owner
    <2>1. c.key \notin reminders
      BY <1>1, <1>2 DEF AppDataInv, EventsKept, Logged
    <2>2. SUFFICES ASSUME c.op = "remind"  PROVE c.by = owner
      BY <2>1
    <2>3. c.by \in Users /\ work[h].role \in {"owner", "editor"}
      BY <1>1, <2>2 DEF UpToDate, MayRemind
    <2>4. RoleOf(c.by) = work[h].role
      BY <1>1, <2>3, AppDataAssumption DEF Authorized
    <2> QED
      BY <2>3, <2>4 DEF RoleOf
  <1> QED
    BY <1>3, <1>4, <1>5 DEF CommitIsCovered

LedgerStep == Ledger!Next \/ Ledger!vars' = Ledger!vars

\* The actions of the ledger are its steps.
LEMMA LedgerActs ==
  ASSUME NEW k \in Keys, NEW r \in Records
  PROVE  /\ Ledger!Seed => LedgerStep
         /\ Ledger!Elsewhere(k) => LedgerStep
         /\ Ledger!Reply(k) => LedgerStep
         /\ Ledger!Create(k, r) => LedgerStep
         /\ Ledger!Replace(k, r) => LedgerStep
         /\ Ledger!Remove(k, r) => LedgerStep
  BY DEF LedgerStep, Ledger!Next

\* create_data_record.
LEMMA CommitCreateOK ==
  ASSUME AppDataInv, NEW h \in Handlers, NEW r \in Records, NEW lost \in BOOLEAN,
         CommitCreate(h, r, lost)
  PROVE  AppDataInv' /\ LedgerStep /\ CommitIsCovered
  <1>0. PICK c \in Calls : c = work[h].call
    BY DEF CommitCreate, AppDataInv, Serving, Authorized
  <1>1. /\ pc[h] = "read" /\ c.op = "create" /\ record[r].version = 0
        /\ Fits(work[h].manifest, c.sets) /\ HasRoom(Cardinality(c.sets), work[h].room)
        /\ record' = [record EXCEPT ![r] = [version |-> 1, fields |-> c.sets]]
        /\ Log(c, r, 1) /\ Answer(h, c, lost)
        /\ UNCHANGED <<accessVars, deployed, removed, reminders>>
    BY <1>0 DEF CommitCreate
  <1>2. /\ c \in Calls /\ c.key \in Keys /\ c.expects = 0 /\ UpToDate(h)
    BY <1>0, <1>1, AppDataAssumption DEF AppDataInv, Serving, Authorized
  <1>3. EventsKept' /\ MinuteKept' /\ HandlerTypes' /\ Serving'
    BY <1>0, <1>1, LogOK
  <1>4. AccessTypes'
    BY <1>1 DEF AppDataInv, AccessTypes, accessVars
  <1>5. RowTypes' /\ RowsKept'
    <2>1. /\ deployed # Nothing /\ r \notin removed /\ r \notin Present /\ deployed \in Manifests
          /\ Fits(deployed, c.sets) /\ Cardinality(Present) < MaxRecords
      BY <1>0, <1>1, <1>2 DEF AppDataInv, RowTypes, UpToDate, Present
    <2>2. IsFiniteSet(c.sets)
      BY <2>1, AppDataAssumption, FS_Subset DEF Fits
    <2>3. Cardinality(c.sets) - Cardinality({}) = Cardinality(c.sets)
      BY <2>2, FS_EmptySet, FS_CardinalityType
    <2>4. HasRoom(Cardinality(c.sets) - Cardinality({}), MaxBytes - Used)
      BY <1>0, <1>1, <1>2, <2>3 DEF UpToDate
    <2>5. Admitted(r, 1, c.sets, {})
      BY <2>1, <2>4 DEF Admitted
    <2> QED
      BY <1>1, <2>5, RowStored
  <1>6. Ledger!Create(c.key, r)
    <2>1. Ledger!Record(c.key, r, 0, 1)
      BY <1>1, <1>2, <1>0, Recorded
    <2>2. [q \in Records |-> record'[q].version] = [[q \in Records |-> record[q].version] EXCEPT ![r] = 1]
      BY <1>1 DEF AppDataInv, RowTypes
    <2> QED
      BY <1>1, <2>1, <2>2 DEF Ledger!Create
  <1>7. CommitIsCovered
    BY <1>0, <1>1, Covering
  <1>8. LedgerStep
    BY <1>2, <1>6, LedgerActs
  <1> QED
    BY <1>3, <1>4, <1>5, <1>7, <1>8 DEF AppDataInv

\* update_data_record.
LEMMA CommitUpdateOK ==
  ASSUME AppDataInv, NEW h \in Handlers, NEW lost \in BOOLEAN, CommitUpdate(h, lost)
  PROVE  AppDataInv' /\ LedgerStep /\ CommitIsCovered
  <1>0. PICK c \in Calls : c = work[h].call
    BY DEF CommitUpdate, AppDataInv, Serving, Authorized
  <1>r. PICK r : r = c.rec
    OBVIOUS
  <1>v. PICK v, fields : v = record[r].version /\ fields = Merged(c)
    OBVIOUS
  <1>1. /\ pc[h] = "read" /\ c.op = "update" /\ r \in Present /\ v = c.expects
        /\ Fits(work[h].manifest, fields)
        /\ HasRoom(Cardinality(fields) - Cardinality(record[r].fields), work[h].room)
        /\ record' = [record EXCEPT ![r] = [version |-> record[r].version + 1, fields |-> fields]]
        /\ Log(c, r, record'[r].version) /\ Answer(h, c, lost)
        /\ UNCHANGED <<accessVars, deployed, removed, reminders>>
    BY <1>0, <1>r, <1>v DEF CommitUpdate, VersionIs
  <1>2. /\ c \in Calls /\ c.key \in Keys /\ UpToDate(h)
        /\ r \in Records /\ v \in Nat /\ v > 0 /\ r \notin removed /\ c.expects \in Nat
    BY <1>0, <1>r, <1>v, <1>1, AppDataAssumption DEF AppDataInv, Serving, Authorized, Present, RowTypes
  <1>3. record'[r].version = v + 1
    BY <1>v, <1>1, <1>2 DEF AppDataInv, RowTypes
  <1>4. EventsKept' /\ MinuteKept' /\ HandlerTypes' /\ Serving'
    BY <1>0, <1>1, <1>2, <1>3, LogOK
  <1>5. AccessTypes'
    BY <1>1 DEF AppDataInv, AccessTypes, accessVars
  <1>6. RowTypes' /\ RowsKept'
    <2>1. deployed # Nothing /\ Fits(deployed, fields)
      BY <1>0, <1>1, <1>2 DEF UpToDate
    <2>2. HasRoom(Cardinality(fields) - Cardinality(record[r].fields), MaxBytes - Used)
      BY <1>0, <1>1, <1>2 DEF UpToDate
    <2>3. record[r].fields \in SUBSET Fields /\ v + 1 \in Nat /\ v + 1 > 0
      BY <1>v, <1>1, <1>2 DEF AppDataInv, RowTypes
    <2>4. Admitted(r, v + 1, fields, record[r].fields)
      BY <1>1, <1>2, <2>1, <2>2, <2>3 DEF Admitted
    <2> QED
      BY <1>v, <1>1, <1>2, <2>3, <2>4, RowStored
  <1>7. Ledger!Replace(c.key, r)
    <2>1. Ledger!Record(c.key, r, v, v + 1)
      <3>1. Log(c, r, v + 1) /\ v + 1 \in Nat
        BY <1>1, <1>2, <1>3
      <3>2. Ledger!Record(c.key, r, c.expects, v + 1)
        BY <1>1, <1>2, <3>1, <1>0, Recorded
      <3> QED
        BY <1>1, <3>2
    <2> DEFINE ver == [q \in Records |-> record[q].version]
    <2>2. [q \in Records |-> record'[q].version] = [ver EXCEPT ![r] = ver[r] + 1]
      BY <1>1, <1>2 DEF AppDataInv, RowTypes
    <2>3. ver[r] = v
      BY <1>v, <1>2
    <2> QED
      BY <1>1, <1>2, <2>1, <2>2, <2>3 DEF Ledger!Replace, Ledger!Record
  <1>8. CommitIsCovered
    BY <1>0, <1>1, Covering
  <1>9. LedgerStep
    BY <1>2, <1>7, LedgerActs
  <1> QED
    BY <1>4, <1>5, <1>6, <1>8, <1>9 DEF AppDataInv

\* delete_data_record.
LEMMA CommitDeleteOK ==
  ASSUME AppDataInv, NEW h \in Handlers, NEW lost \in BOOLEAN, CommitDelete(h, lost)
  PROVE  AppDataInv' /\ LedgerStep /\ CommitIsCovered
  <1>0. PICK c \in Calls : c = work[h].call
    BY DEF CommitDelete, AppDataInv, Serving, Authorized
  <1>r. PICK r, v : r = c.rec /\ v = record[r].version
    OBVIOUS
  <1>1. /\ pc[h] = "read" /\ c.op = "delete" /\ r \in Present /\ v = c.expects
        /\ removed' = removed \cup {r}
        /\ Log(c, r, v) /\ Answer(h, c, lost)
        /\ UNCHANGED <<accessVars, deployed, record, reminders>>
    BY <1>0, <1>r DEF CommitDelete, VersionIs
  <1>2. /\ c \in Calls /\ c.key \in Keys
        /\ r \in Records /\ v \in Nat /\ v > 0 /\ r \notin removed /\ c.expects \in Nat
    BY <1>0, <1>r, <1>1, AppDataAssumption DEF AppDataInv, Serving, Authorized, Present, RowTypes
  <1>3. EventsKept' /\ MinuteKept' /\ HandlerTypes' /\ Serving'
    BY <1>0, <1>1, <1>2, LogOK
  <1>4. AccessTypes'
    BY <1>1 DEF AppDataInv, AccessTypes, accessVars
  <1>5. RowTypes' /\ RowsKept'
    <2>1. RowTypes'
      BY <1>r, <1>1, <1>2 DEF AppDataInv, RowTypes
    <2>2. Present' \subseteq Present
      BY <1>1 DEF Present
    <2>3. Cardinality(Present') <= MaxRecords
      <3>1. IsFiniteSet(Present) /\ Cardinality(Present) <= MaxRecords /\ Cardinality(Present) \in Nat
        BY Counted DEF AppDataInv, RowsKept
      <3>2. Cardinality(Present') <= Cardinality(Present) /\ Cardinality(Present') \in Nat
        BY <2>2, <3>1, FS_Subset, FS_CardinalityType
      <3> QED
        BY <3>1, <3>2, AppDataAssumption
    <2>4. Used' <= MaxBytes
      <3> DEFINE before == Contents(Present, record)
                 after  == Contents(Present', record')
      <3>1. Used = Cardinality(before) /\ Used' = Cardinality(after)
        BY DEF Used, Contents, Fields
      <3>2. after \subseteq before
        BY <1>1, <2>2 DEF Contents
      <3>3. IsFiniteSet(before)
        <4>1. CASE deployed = Nothing
          <5>1. before = {}
            BY <4>1, Covered DEF Contents
          <5> QED
            BY <5>1, FS_EmptySet
        <4>2. CASE deployed # Nothing
          BY <4>2, Covered, ContentsAreFinite DEF Present
        <4> QED
          BY <4>1, <4>2
      <3> HIDE DEF before, after
      <3>4. /\ Cardinality(after) <= Cardinality(before)
            /\ Cardinality(after) \in Nat /\ Cardinality(before) \in Nat
        BY <3>2, <3>3, FS_Subset, FS_CardinalityType
      <3> QED
        BY <3>1, <3>4, AppDataAssumption DEF AppDataInv, RowsKept
    <2>5. RowsKept'
      BY <1>1, <2>2, <2>3, <2>4 DEF AppDataInv, RowsKept
    <2> QED
      BY <2>1, <2>5
  <1>6. Ledger!Remove(c.key, r)
    <2>1. Ledger!Record(c.key, r, v, v)
      <3>1. Ledger!Record(c.key, r, c.expects, v)
        BY <1>1, <1>2, <1>0, Recorded
      <3> QED
        BY <1>1, <3>1
    <2> DEFINE ver == [q \in Records |-> record[q].version]
    <2>2. ver[r] = v /\ UNCHANGED ver
      BY <1>r, <1>1, <1>2
    <2> QED
      BY <1>1, <1>2, <2>1, <2>2 DEF Ledger!Remove, Ledger!Record
  <1>7. CommitIsCovered
    BY <1>0, <1>1, Covering
  <1>8. LedgerStep
    BY <1>2, <1>6, LedgerActs
  <1> QED
    BY <1>3, <1>4, <1>5, <1>7, <1>8 DEF AppDataInv

\* create_app_reminder.
LEMMA CommitReminderOK ==
  ASSUME AppDataInv, NEW h \in Handlers, NEW lost \in BOOLEAN, CommitReminder(h, lost)
  PROVE  AppDataInv' /\ LedgerStep /\ CommitIsCovered
  <1>0. PICK c \in Calls : c = work[h].call
    BY DEF CommitReminder, AppDataInv, Serving, Authorized
  <1>1. /\ pc[h] = "read" /\ c.op = "remind"
        /\ reminders' = reminders \cup {c.key}
        /\ Log(c, Nothing, 0) /\ Answer(h, c, lost)
        /\ UNCHANGED <<accessVars, deployed, record, removed>>
    BY <1>0 DEF CommitReminder
  <1>2. c \in Calls /\ c.key \in Keys /\ c.expects = 0
    BY <1>0, <1>1, AppDataAssumption DEF AppDataInv, Serving, Authorized
  <1>3. EventsKept' /\ MinuteKept' /\ HandlerTypes' /\ Serving'
    BY <1>0, <1>1, <1>2, LogOK
  <1>4. UNCHANGED <<Present, Used>>
    BY <1>1 DEF Present, Used
  <1>5. AccessTypes' /\ RowTypes' /\ RowsKept'
    BY <1>1, <1>4 DEF AppDataInv, AccessTypes, accessVars, RowTypes, RowsKept
  <1>6. Ledger!Elsewhere(c.key)
    <2>1. Ledger!Record(c.key, Nothing, 0, 0)
      BY <1>1, <1>2, <1>0, Recorded
    <2> QED
      BY <1>1, <2>1 DEF Ledger!Elsewhere
  <1>7. CommitIsCovered
    BY <1>0, <1>1, Covering
  <1>8. LedgerStep
    BY <1>2, <1>6 DEF LedgerStep, Ledger!Next
  <1> QED
    BY <1>3, <1>5, <1>7, <1>8 DEF AppDataInv

\* A stored response answers a call that is sent again.
LEMMA ReplayOK ==
  ASSUME AppDataInv, NEW h \in Handlers, Replay(h)
  PROVE  AppDataInv' /\ LedgerStep
  <1>0. PICK c \in Calls, k \in Keys : c = work[h].call /\ k = c.key
    BY AppDataAssumption DEF Replay, AppDataInv, Serving, Authorized
  <1>1. /\ pc[h] = "entered" /\ event[k] # Nothing
        /\ answers' = [answers EXCEPT ![k] = answers[k] \cup {event[k].response}]
        /\ Leave(h) /\ UNCHANGED <<accessVars, dataVars>>
    BY <1>0 DEF Replay
  <1>2. k \in Keys
    OBVIOUS
  <1>3. PICK d \in Calls, x \in Records \cup {Nothing}, n \in Nat :
          event[k] = [call |-> d, response |-> [rec |-> x, version |-> n]]
    BY <1>1, <1>2 DEF AppDataInv, EventsKept, Logged
  <1>4. event[k].response = [rec |-> x, version |-> n] /\ event[k].response \in Responses
    BY <1>3 DEF Responses
  <1>5. /\ answers' \in [Keys -> SUBSET Responses]
        /\ \A l \in Keys : event[l] = Nothing => answers'[l] = answers[l]
    BY <1>1, <1>2, <1>4 DEF AppDataInv, EventsKept
  <1>6. AppDataInv'
    BY <1>1, <1>5, AbortOK
  <1>7. Ledger!Reply(k)
    <2>1. Ledger!Answer(k) = [rec |-> x, version |-> n]
      BY <1>1, <1>2, <1>4 DEF Ledger!Answer
    <2> DEFINE done == [l \in Keys |-> IF event[l] = Nothing THEN Nothing
                                      ELSE [rec |-> event[l].response.rec,
                                            against |-> event[l].call.expects,
                                            version |-> event[l].response.version]]
    <2>2. done[k] = [rec |-> x, against |-> d.expects, version |-> n]
      BY <1>1, <1>3
    <2>3. [rec |-> x, against |-> d.expects, version |-> n]
            \in [rec : Records \cup {Nothing}, against : Nat, version : Nat]
      BY AppDataAssumption
    <2>4. done[k] # Nothing
      BY <2>2, <2>3, AppDataAssumption
    <2>5. answers' = [answers EXCEPT ![k] = @ \cup {Ledger!Answer(k)}]
      BY <1>1, <1>4, <2>1
    <2> QED
      BY <1>1, <2>4, <2>5 DEF Ledger!Reply, dataVars
  <1> QED
    BY <1>2, <1>6, <1>7 DEF LedgerStep, Ledger!Next

\* Deployments plant no events.
LEMMA NoCommit ==
  ASSUME UNCHANGED event
  PROVE  CommitIsCovered
  BY DEF CommitIsCovered

\* A step that leaves the records, the events and the answers alone.
LEMMA NotRecorded ==
  ASSUME UNCHANGED <<record, removed, event, answers>>
  PROVE  LedgerStep /\ CommitIsCovered
  BY DEF LedgerStep, Ledger!vars, CommitIsCovered

\* Every step keeps the invariant, is one of the ledger or does not show in it, and
\* commits under authority.
LEMMA AppDataStep ==
  ASSUME AppDataInv, [AppDataNext]_vars
  PROVE  AppDataInv' /\ LedgerStep /\ CommitIsCovered
  <1>t. AccessTypes
    BY DEF AppDataInv
  <1>1. ASSUME NEW h \in Handlers, NEW c \in Calls, Enter(h, c)
        PROVE  AppDataInv' /\ LedgerStep /\ CommitIsCovered
    BY <1>1, EnterOK, NotRecorded DEF Enter, dataVars
  <1>2. ASSUME NEW h \in Handlers, Replay(h)
        PROVE  AppDataInv' /\ LedgerStep /\ CommitIsCovered
    BY <1>2, ReplayOK, NoCommit DEF Replay, dataVars
  <1>3. ASSUME NEW h \in Handlers, Read(h)
        PROVE  AppDataInv' /\ LedgerStep /\ CommitIsCovered
    BY <1>3, ReadOK, NotRecorded DEF Read, dataVars
  <1>4. ASSUME NEW h \in Handlers, NEW lost \in BOOLEAN,
               \/ \E r \in Records : CommitCreate(h, r, lost)
               \/ CommitUpdate(h, lost)
               \/ CommitDelete(h, lost)
               \/ CommitReminder(h, lost)
        PROVE  AppDataInv' /\ LedgerStep /\ CommitIsCovered
    BY <1>4, CommitCreateOK, CommitUpdateOK, CommitDeleteOK, CommitReminderOK
  <1>5. ASSUME NEW h \in Handlers, Abort(h)
        PROVE  AppDataInv' /\ LedgerStep /\ CommitIsCovered
    <2>1. pc[h] # "idle" /\ Leave(h) /\ UNCHANGED <<accessVars, dataVars, answers>>
      BY <1>5 DEF Abort
    <2>2. answers' \in [Keys -> SUBSET Responses] /\ answers' = answers
      BY <2>1 DEF AppDataInv, EventsKept
    <2>3. AppDataInv'
      BY <2>1, <2>2, AbortOK
    <2> QED
      BY <2>1, <2>3, NotRecorded DEF dataVars
  <1>6. ASSUME NEW m \in Manifests, Deploy(m)
        PROVE  AppDataInv' /\ LedgerStep /\ CommitIsCovered
    BY <1>6, DeployOK, NoCommit DEF Deploy, LedgerStep, Ledger!Next
  <1>7. ASSUME NEW u \in Users, NEW departs \in BOOLEAN, TransferApp(u, departs)
        PROVE  AppDataInv' /\ LedgerStep /\ CommitIsCovered
    <2>1. /\ AppLockFree /\ owner' = u
          /\ members' = (members \ {u}) \cup (IF departs \/ owner = Nothing THEN {} ELSE {owner})
          /\ UNCHANGED <<appLive, shared, session, uses, ticketLive, dataVars, pc, work, answers>>
      BY <1>7 DEF TransferApp
    <2>2. AccessTypes'
      BY <1>t, <2>1 DEF AccessTypes
    <2> QED
      BY <2>1, <2>2, AccessChanged, NotRecorded DEF dataVars
  <1>8. ASSUME Unclaim
        PROVE  AppDataInv' /\ LedgerStep /\ CommitIsCovered
    <2>1. AccessTypes'
      BY <1>t, <1>8 DEF Unclaim, AccessTypes
    <2> QED
      BY <1>8, <2>1, AccessChanged, NotRecorded DEF Unclaim, dataVars
  <1>9. ASSUME ArchiveApp
        PROVE  AppDataInv' /\ LedgerStep /\ CommitIsCovered
    <2>1. \A s \in Sessions :
            [session[s] EXCEPT !.status = "revoked"]
              \in [status : {"none", "open", "revoked", "expired"}, role : Roles,
                   user : Users \cup {Nothing}]
      BY <1>t DEF AccessTypes
    <2>2. AccessTypes'
      BY <1>t, <1>9, <2>1 DEF ArchiveApp, AccessTypes
    <2> QED
      BY <1>9, <2>2, AccessChanged, NotRecorded DEF ArchiveApp, dataVars
  <1>10. ASSUME NEW t \in Tickets, IssueTicket(t)
         PROVE  AppDataInv' /\ LedgerStep /\ CommitIsCovered
    <2>1. 0 \in -1..MaxRedemptions
      BY AppDataAssumption
    <2>2. AccessTypes'
      BY <1>t, <1>10, <2>1 DEF IssueTicket, AccessTypes
    <2> QED
      BY <1>10, <2>2, AccessChanged, NotRecorded DEF IssueTicket, dataVars
  <1>11. ASSUME NEW t \in Tickets, ExpireTicket(t)
         PROVE  AppDataInv' /\ LedgerStep /\ CommitIsCovered
    BY <1>11, ExpireTicketOK, NotRecorded DEF ExpireTicket, dataVars
  <1>12. ASSUME NEW t \in Tickets, NEW s \in Sessions, Redeem(t, s)
         PROVE  AppDataInv' /\ LedgerStep /\ CommitIsCovered
    <2> DEFINE e == IF shared THEN [status |-> "open", role |-> "member", user |-> Nothing]
                              ELSE [status |-> "open", role |-> "owner", user |-> owner]
    <2>1. /\ AppLockFree /\ uses[t] < MaxRedemptions
          /\ session' = [session EXCEPT ![s] = e] /\ uses' = [uses EXCEPT ![t] = uses[t] + 1]
          /\ UNCHANGED <<appLive, shared, owner, members, ticketLive, dataVars, pc, work, answers>>
      BY <1>12 DEF Redeem, RedemptionsLeft
    <2>2. e \in [status : {"none", "open", "revoked", "expired"}, role : Roles,
                 user : Users \cup {Nothing}]
      BY <1>t DEF AccessTypes, Roles
    <2> HIDE DEF e
    <2>3. uses[t] + 1 \in -1..MaxRedemptions
      BY <1>t, <2>1, AppDataAssumption DEF AccessTypes
    <2>4. AccessTypes'
      BY <1>t, <2>1, <2>2, <2>3 DEF AccessTypes
    <2> QED
      BY <2>1, <2>4, AccessChanged, NotRecorded DEF dataVars
  <1>13. ASSUME NEW s \in Sessions, Expire(s)
         PROVE  AppDataInv' /\ LedgerStep /\ CommitIsCovered
    BY <1>13, ExpireOK, NotRecorded DEF Expire, dataVars
  <1>14. ASSUME MinutePasses
         PROVE  AppDataInv' /\ LedgerStep /\ CommitIsCovered
    BY <1>14, MinuteOK, NotRecorded DEF MinutePasses
  <1>15. ASSUME UNCHANGED vars
         PROVE  AppDataInv' /\ LedgerStep /\ CommitIsCovered
    <2>1. UNCHANGED <<Present, Used, accessVars, dataVars, pc, work, answers>>
      BY <1>15 DEF vars, Present, Used, accessVars, dataVars
    <2>2. \A a : UNCHANGED <<RecentOf(a), RoleOf(a)>>
      BY <1>15 DEF vars, accessVars, dataVars, RecentOf, RoleOf
    <2>3. AccessTypes' /\ RowTypes' /\ RowsKept'
      BY <2>1 DEF AppDataInv, AccessTypes, RowTypes, RowsKept, accessVars, dataVars
    <2>4. EventsKept' /\ MinuteKept'
      BY <2>1, <2>2 DEF AppDataInv, EventsKept, MinuteKept, Logged, dataVars
    <2>5. HandlerTypes' /\ Serving'
      BY <2>1, <2>2 DEF AppDataInv, HandlerTypes, Serving, Authorized, UpToDate, accessVars, dataVars
    <2> QED
      BY <2>1, <2>3, <2>4, <2>5, NotRecorded DEF AppDataInv, dataVars
  <1> QED
    BY <1>1, <1>2, <1>3, <1>4, <1>5, <1>6, <1>7, <1>8, <1>9, <1>10, <1>11, <1>12, <1>13, <1>14,
       <1>15 DEF AppDataNext, Mutate

-----------------------------------------------------------------------------
\* The invariant holds throughout.
THEOREM AppDataInvariant == AppDataSpec => []AppDataInv
  <1>1. AppDataInit => AppDataInv
    BY AppDataInitially
  <1>2. AppDataInv /\ [AppDataNext]_vars => AppDataInv'
    BY AppDataStep
  <1> QED
    BY <1>1, <1>2, PTL DEF AppDataSpec

\* The rows, bearers and requests of a code app are well formed.
THEOREM AppDataTypes == AppDataSpec => []AppDataTypeOK
  <1>1. AppDataInv => AppDataTypeOK
    <2> SUFFICES ASSUME AppDataInv  PROVE AppDataTypeOK
      OBVIOUS
    <2>2. \A k \in Keys : event[k] # Nothing => event[k].call \in Calls /\ event[k].call.key = k
      BY DEF AppDataInv, EventsKept, Logged
    <2>3. recent \subseteq {k \in Keys : event[k] # Nothing}
      BY DEF AppDataInv, EventsKept, Logged
    <2> QED
      BY <2>2, <2>3
         DEF AppDataInv, AccessTypes, RowTypes, EventsKept, HandlerTypes, AppDataTypeOK
  <1> QED
    BY AppDataInvariant, <1>1, PTL

\* However calls, deployments and redemptions interleave, what is stored fits the manifest
\* and keeps to the limits of records, bytes and mutations.
THEOREM LimitsKept == AppDataSpec => []WithinLimits
  <1>1. AppDataInv => WithinLimits
    BY DEF AppDataInv, RowsKept, MinuteKept, RecentOf, WithinLimits
  <1> QED
    BY AppDataInvariant, <1>1, PTL

\* No mutation commits without the authority to, whatever happened to the app and the
\* bearer since it was let in.
THEOREM AuthorityKept == AppDataSpec => CommitsUnderAuthority
  <1>1. AppDataInv /\ [AppDataNext]_vars => [CommitIsCovered]_vars
    BY AppDataStep
  <1>2. AppDataSpec => [][CommitIsCovered]_vars
    BY AppDataInvariant, <1>1, PTL DEF AppDataSpec
  <1> QED
    BY <1>2 DEF CommitsUnderAuthority, CommitIsCovered

\* A code app implements MutationLedger: calls take effect once, are answered alike, and no
\* two of them follow the same version of a record.
THEOREM LedgerImplemented == AppDataSpec => MutationsTakeEffectOnce
  <1>1. AppDataInit => Ledger!Init
    <2> SUFFICES ASSUME AppDataInit  PROVE Ledger!Init
      OBVIOUS
    <2>1. [r \in Records |-> record[r].version] = [r \in Records |-> 0]
      BY DEF AppDataInit, NoRecord
    <2> QED
      BY <2>1 DEF AppDataInit, Ledger!Init
  <1>2. AppDataInv /\ [AppDataNext]_vars => [Ledger!Next]_(Ledger!vars)
    BY AppDataStep DEF LedgerStep
  <1> QED
    BY AppDataInvariant, <1>1, <1>2, PTL DEF AppDataSpec, MutationsTakeEffectOnce, Ledger!Spec

-----------------------------------------------------------------------------
(***************************************************************************)
(* The records of a schema app.                                            *)
(***************************************************************************)
SchemaAppsSpec == SchemaAppsInit /\ [][SchemaAppsNext]_schemaVars

RowValues == [kind : Kinds \cup {"absent", "gone"}, names : SUBSET People]
Jobs == [op : {"none", "create", "update", "delete"}, target : Rows \cup {{}},
         names : SUBSET People, kind : Kinds \cup {"none"}, owned : BOOLEAN,
         seen : [Rows -> RowValues] \cup {{}}, stale : BOOLEAN]

SchemaTypes ==
  /\ row \in [Rows -> RowValues]
  /\ appOpen \in BOOLEAN
  /\ at \in [Servers -> {"idle", "loaded", "validated"}]
  /\ job \in [Servers -> Jobs]

\* A participant has one name.
Named == \A i \in Rows : row[i].kind = "participant" => \E p \in People : row[i].names = {p}

\* A call knows what it is about; it knows the records, unless they were changed.
Loaded(j) ==
  /\ j.target \in Rows /\ j.kind \in Kinds /\ j.op \in {"create", "update", "delete"}
  /\ ~j.stale => /\ j.seen = row
                 /\ IF j.op = "create" THEN row[j.target] = NoRow
                                       ELSE row[j.target].kind = j.kind

\* What its checks have shown.
Validated(j) ==
  /\ j.op # "delete" /\ j.kind = "participant" => \E p \in People : j.names = {p}
  /\ ~j.stale =>
       /\ j.op = "create" => Valid(j.kind, j.names, {})
       /\ j.op = "update" => Valid(j.kind, j.names, {j.target})
       /\ j.kind = "participant" /\ j.op # "create" =>
            (j.op = "update" /\ j.names = row[j.target].names) \/ ~Referenced(row, j.target)

SchemaInv ==
  /\ SchemaTypes /\ Named
  /\ \A s \in Servers : /\ at[s] # "idle" => Loaded(job[s])
                        /\ at[s] = "validated" => Validated(job[s])

\* The names of the participants.
LEMMA InNames ==
  ASSUME NEW f, NEW q
  PROVE  q \in NamesIn(f) <=> \E m \in Rows : f[m].kind = "participant" /\ q \in f[m].names
  BY DEF NamesIn

\* Names of a participant, counted, are one name.
LEMMA OneName ==
  ASSUME NEW names \in SUBSET People, Cardinality(names) = 1
  PROVE  \E p \in People : names = {p}
  BY SchemaAppsAssumption, FS_Subset, FS_Singleton

\* A row that the checks of a create or an update admit keeps the records sound.
LEMMA StoringIsSound ==
  ASSUME SchemaInv, Sound(row), NEW i \in Rows, NEW kind \in Kinds, NEW names \in SUBSET People,
         NEW without \in {{}, {i}}, Valid(kind, names, without),
         without = {} => row[i] = NoRow,
         without = {i} => row[i].kind = kind,
         without = {i} /\ kind = "participant" =>
           names = row[i].names \/ ~Referenced(row, i),
         row' = [row EXCEPT ![i] = [kind |-> kind, names |-> names]]
  PROVE  Sound(row')
  <1>1. /\ row'[i].kind = kind /\ row'[i].names = names
        /\ \A j \in Rows \ {i} : row'[j] = row[j]
    BY DEF SchemaInv, SchemaTypes
  <1>2. CASE kind = "participant"
    <2>1. \A j \in Rows \ {i} : row[j].kind = "participant" => row[j].names # names
      BY <1>2 DEF Valid, NoRow
    <2>2. ASSUME NEW j \in Rows, row'[j].kind = "expense", NEW q \in row'[j].names
          PROVE  q \in NamesIn(row')
      <3>1. j # i /\ row[j].kind = "expense" /\ q \in row[j].names
        BY <1>1, <1>2, <2>2
      <3>2. PICK m \in Rows : row[m].kind = "participant" /\ q \in row[m].names
        BY <3>1, InNames DEF Sound
      <3>3. CASE m # i
        BY <1>1, <3>2, <3>3, InNames
      <3>4. CASE m = i
        <4>1. row[i].names = {q}
          BY <3>2, <3>4 DEF SchemaInv, Named
        <4>2. Referenced(row, i)
          BY <3>1, <4>1 DEF Referenced
        <4>3. names = row[i].names
          BY <1>2, <3>2, <3>4, <4>2 DEF NoRow
        <4> QED
          BY <1>1, <1>2, <4>1, <4>3, InNames
      <3> QED
        BY <3>3, <3>4
    <2>3. \A m, n \in Rows :
            row'[m].kind = "participant" /\ row'[n].kind = "participant"
              /\ row'[m].names = row'[n].names => m = n
      <3> SUFFICES ASSUME NEW m \in Rows, NEW n \in Rows, row'[m].kind = "participant",
                          row'[n].kind = "participant", row'[m].names = row'[n].names, m # n
                   PROVE  FALSE
        OBVIOUS
      <3>1. CASE m = i
        BY <1>1, <2>1, <3>1
      <3>2. CASE n = i
        BY <1>1, <2>1, <3>2
      <3>3. CASE m # i /\ n # i
        BY <1>1, <3>3 DEF Sound
      <3> QED
        BY <3>1, <3>2, <3>3
    <2>4. \A j \in Rows : row'[j].kind = "expense" => row'[j].names \subseteq NamesIn(row')
      BY <2>2
    <2> QED
      BY <2>3, <2>4 DEF Sound
  <1>3. CASE kind = "expense"
    <2>1. \A m \in Rows : row[m].kind = "participant" => m # i
      BY <1>3 DEF NoRow
    <2>2. ASSUME NEW q, q \in NamesIn(row)  PROVE q \in NamesIn(row')
      <3>1. PICK m \in Rows : row[m].kind = "participant" /\ q \in row[m].names
        BY <2>2, InNames
      <3>2. row'[m].kind = "participant" /\ q \in row'[m].names
        BY <1>1, <2>1, <3>1
      <3> QED
        BY <3>2, InNames
    <2>3. ASSUME NEW q \in names  PROVE q \in NamesIn(row)
      <3> DEFINE others == [j \in Rows |-> IF j \in without THEN NoRow ELSE row[j]]
      <3>1. q \in NamesIn(others)
        BY <1>3 DEF Valid
      <3>2. PICK m \in Rows : others[m].kind = "participant" /\ q \in others[m].names
        BY <3>1, InNames
      <3>3. others[m] = row[m]
        BY <3>2 DEF NoRow
      <3> QED
        BY <3>2, <3>3, InNames
    <2>4. \A j \in Rows : row'[j].kind = "expense" => row'[j].names \subseteq NamesIn(row')
      BY <1>1, <2>2, <2>3 DEF Sound
    <2> QED
      BY <1>1, <1>3, <2>4 DEF Sound
  <1> QED
    BY <1>2, <1>3 DEF Kinds

\* So does the deletion of a record that no expense refers to.
LEMMA DeletingIsSound ==
  ASSUME SchemaInv, Sound(row), NEW i \in Rows,
         row[i].kind = "participant" => ~Referenced(row, i),
         row' = [row EXCEPT ![i] = Gone]
  PROVE  Sound(row')
  <1>1. /\ row'[i].kind = "gone" /\ \A j \in Rows \ {i} : row'[j] = row[j]
    BY DEF SchemaInv, SchemaTypes, Gone
  <1>2. ASSUME NEW j \in Rows, row'[j].kind = "expense", NEW q \in row'[j].names
        PROVE  q \in NamesIn(row')
    <2>1. j # i /\ row[j].kind = "expense" /\ q \in row[j].names
      BY <1>1, <1>2
    <2>2. PICK m \in Rows : row[m].kind = "participant" /\ q \in row[m].names
      BY <2>1, InNames DEF Sound
    <2>3. m # i
      <3>1. row[m].names = {q}
        BY <2>2 DEF SchemaInv, Named
      <3> QED
        BY <2>1, <2>2, <3>1 DEF Referenced
    <2> QED
      BY <1>1, <2>2, <2>3, InNames
  <1> QED
    BY <1>1, <1>2 DEF Sound

\* The commit of a call whose records were not changed keeps them sound.
LEMMA CommitIsSound ==
  ASSUME SchemaInv, Sound(row), NEW s \in Servers, CommitRow(s), ~job[s].stale
  PROVE  Sound(row')
  <1> DEFINE j == job[s]
  <1>1. /\ at[s] = "validated" /\ Loaded(j) /\ Validated(j) /\ ~j.stale /\ j \in Jobs
    BY DEF SchemaInv, SchemaTypes, CommitRow
  <1>2. /\ j.target \in Rows /\ j.kind \in Kinds /\ j.names \in SUBSET People
        /\ j.op \in {"create", "update", "delete"}
    BY <1>1 DEF Loaded, Jobs
  <1>3. row' = [row EXCEPT ![j.target] = IF j.op = "delete" THEN Gone
                                         ELSE [kind |-> j.kind, names |-> j.names]]
    BY DEF CommitRow
  <1>4. CASE j.op = "create"
    <2>1. /\ Valid(j.kind, j.names, {}) /\ row[j.target] = NoRow
          /\ row' = [row EXCEPT ![j.target] = [kind |-> j.kind, names |-> j.names]]
      BY <1>1, <1>3, <1>4 DEF Loaded, Validated
    <2> QED
      BY <1>2, <2>1, StoringIsSound
  <1>5. CASE j.op = "update"
    <2>1. /\ Valid(j.kind, j.names, {j.target}) /\ row[j.target].kind = j.kind
          /\ j.kind = "participant" =>
               j.names = row[j.target].names \/ ~Referenced(row, j.target)
          /\ row' = [row EXCEPT ![j.target] = [kind |-> j.kind, names |-> j.names]]
      BY <1>1, <1>3, <1>5 DEF Loaded, Validated
    <2> HIDE DEF j
    <2> QED
      BY <1>2, <2>1, StoringIsSound
  <1>6. CASE j.op = "delete"
    <2>1. /\ row[j.target].kind = "participant" => ~Referenced(row, j.target)
          /\ row' = [row EXCEPT ![j.target] = Gone]
      BY <1>1, <1>3, <1>6 DEF Loaded, Validated
    <2> QED
      BY <1>2, <2>1, DeletingIsSound
  <1> QED
    BY <1>2, <1>4, <1>5, <1>6

\* A call starts with what is stored, and is checked against it.
LEMMA LoadOK ==
  ASSUME SchemaInv, NEW s \in Servers, NEW op \in {"create", "update", "delete"}, NEW i \in Rows,
         NEW kind \in Kinds, NEW names \in SUBSET People, NEW owned \in BOOLEAN,
         Load(s, op, i, kind, names, owned)
  PROVE  SchemaInv'
  <1> DEFINE j == [op |-> op, target |-> i, names |-> names, kind |-> kind,
                   owned |-> owned, seen |-> row, stale |-> FALSE]
  <1>1. /\ at' = [at EXCEPT ![s] = "loaded"] /\ job' = [job EXCEPT ![s] = j]
        /\ IF op = "create" THEN row[i] = NoRow ELSE kind = row[i].kind
        /\ UNCHANGED <<row, appOpen>>
    BY DEF Load
  <1>2. j \in Jobs /\ Loaded(j)
    BY <1>1 DEF SchemaInv, SchemaTypes, Jobs, Loaded
  <1> HIDE DEF j
  <1>3. SchemaTypes' /\ Named'
    BY <1>1, <1>2 DEF SchemaInv, SchemaTypes, Named
  <1>4. \A t \in Servers : /\ Loaded(job[t]) /\ t # s => Loaded(job[t])'
                           /\ Validated(job[t]) /\ t # s => Validated(job[t])'
    BY <1>1 DEF SchemaInv, SchemaTypes, Loaded, Validated, Valid, Referenced
  <1>5. Loaded(job[s])'
    BY <1>1, <1>2 DEF SchemaInv, SchemaTypes, Loaded
  <1>6. /\ at'[s] = "loaded" /\ \A t \in Servers \ {s} : at'[t] = at[t]
    BY <1>1 DEF SchemaInv, SchemaTypes
  <1> QED
    BY <1>3, <1>4, <1>5, <1>6 DEF SchemaInv

\* The checks of a call.
LEMMA ValidateOK ==
  ASSUME SchemaInv, NEW s \in Servers, ValidateCreate(s) \/ ValidateUpdate(s) \/ ValidateDelete(s)
  PROVE  SchemaInv'
  <1> DEFINE j == job[s]
  <1>1. /\ at[s] = "loaded" /\ at' = [at EXCEPT ![s] = "validated"]
        /\ UNCHANGED <<row, appOpen, job>>
    BY DEF ValidateCreate, ValidateUpdate, ValidateDelete
  <1>2. j \in Jobs /\ Loaded(j)
    BY <1>1 DEF SchemaInv, SchemaTypes
  <1>3. Validated(j)
    <2>1. CASE ValidateCreate(s)
      <3>1. j.op = "create" /\ Valid(j.kind, j.names, {})
        BY <2>1 DEF ValidateCreate
      <3>2. j.kind = "participant" => Cardinality(j.names) = 1
        BY <3>1 DEF Valid
      <3>3. j.kind = "participant" => \E p \in People : j.names = {p}
        BY <1>2, <3>2, OneName DEF Jobs
      <3> QED
        BY <3>1, <3>3 DEF Validated
    <2>2. CASE ValidateUpdate(s)
      <3>1. /\ j.op = "update" /\ Valid(j.kind, j.names, {j.target})
            /\ j.kind = "participant" /\ j.names # j.seen[j.target].names
                 => ~Referenced(j.seen, j.target)
        BY <2>2 DEF ValidateUpdate
      <3>2. j.kind = "participant" => Cardinality(j.names) = 1
        BY <3>1 DEF Valid
      <3>3. j.kind = "participant" => \E p \in People : j.names = {p}
        BY <1>2, <3>2, OneName DEF Jobs
      <3>4. ~j.stale => j.seen = row
        BY <1>2 DEF Loaded
      <3> QED
        BY <3>1, <3>3, <3>4 DEF Validated
    <2>3. CASE ValidateDelete(s)
      <3>1. /\ j.op = "delete" /\ (j.kind = "participant" => ~Referenced(j.seen, j.target))
        BY <2>3 DEF ValidateDelete
      <3>2. ~j.stale => j.seen = row
        BY <1>2 DEF Loaded
      <3> QED
        BY <3>1, <3>2 DEF Validated
    <2> QED
      BY <2>1, <2>2, <2>3
  <1>4. SchemaTypes' /\ Named'
    BY <1>1 DEF SchemaInv, SchemaTypes, Named
  <1>5. \A t \in Servers : /\ Loaded(job[t]) => Loaded(job[t])'
                           /\ Validated(job[t]) => Validated(job[t])'
    BY <1>1 DEF Loaded, Validated, Valid, Referenced
  <1>6. \A t \in Servers \ {s} : at'[t] = at[t]
    BY <1>1 DEF SchemaInv, SchemaTypes
  <1>7. \A t \in Servers : /\ at'[t] # "idle" => Loaded(job[t])
                           /\ at'[t] = "validated" => Validated(job[t])
    BY <1>2, <1>3, <1>6 DEF SchemaInv
  <1> QED
    BY <1>4, <1>5, <1>7 DEF SchemaInv

\* A commit leaves everyone else with records that were changed.
LEMMA CommitRowOK ==
  ASSUME SchemaInv, NEW s \in Servers, CommitRow(s)
  PROVE  SchemaInv'
  <1> DEFINE j == job[s]
             r == IF j.op = "delete" THEN Gone ELSE [kind |-> j.kind, names |-> j.names]
             jobs == [t \in Servers |-> IF t = s THEN NoJob
                                        ELSE [job[t] EXCEPT !.stale = at[t] # "idle"]]
  <1>1. /\ at[s] = "validated" /\ Loaded(j) /\ Validated(j) /\ j \in Jobs
    BY DEF SchemaInv, SchemaTypes, CommitRow
  <1>2. /\ row' = [row EXCEPT ![j.target] = r] /\ at' = [at EXCEPT ![s] = "idle"]
        /\ job' = jobs /\ UNCHANGED appOpen
    BY DEF CommitRow, OthersStale
  <1>3. /\ r \in RowValues
        /\ r.kind = "participant" => \E p \in People : r.names = {p}
    BY <1>1 DEF Loaded, Validated, Jobs, RowValues, Gone
  <1>4. \A t \in Servers \ {s} :
          /\ jobs[t] \in Jobs /\ jobs[t].stale = (at[t] # "idle")
          /\ jobs[t].op = job[t].op /\ jobs[t].target = job[t].target
          /\ jobs[t].kind = job[t].kind /\ jobs[t].names = job[t].names
    <2> TAKE t \in Servers \ {s}
    <2>1. job[t] \in Jobs /\ (at[t] # "idle") \in BOOLEAN
      BY DEF SchemaInv, SchemaTypes
    <2>2. jobs[t] = [job[t] EXCEPT !.stale = at[t] # "idle"]
      OBVIOUS
    <2> HIDE DEF jobs
    <2> QED
      BY <2>1, <2>2 DEF Jobs
  <1>5. NoJob \in Jobs
    BY DEF NoJob, Jobs
  <1>6. SchemaTypes'
    <2>1. jobs \in [Servers -> Jobs]
      BY <1>4, <1>5
    <2> HIDE DEF r, jobs
    <2> QED
      BY <1>2, <1>3, <2>1 DEF SchemaInv, SchemaTypes
  <1>7. Named'
    <2> HIDE DEF r
    <2> QED
      BY <1>2, <1>3 DEF SchemaInv, SchemaTypes, Named
  <1>8. ASSUME NEW t \in Servers
        PROVE  /\ at'[t] # "idle" => Loaded(job[t])'
               /\ at'[t] = "validated" => Validated(job[t])'
    <2>1. CASE t = s
      BY <1>2, <2>1 DEF SchemaInv, SchemaTypes
    <2>2. CASE t # s
      <3>1. at'[t] = at[t] /\ job'[t] = jobs[t]
        BY <1>2, <2>2 DEF SchemaInv, SchemaTypes
      <3>2. /\ at[t] # "idle" => Loaded(job[t])
            /\ at[t] = "validated" => Validated(job[t])
        BY DEF SchemaInv
      <3> DEFINE k == jobs[t]
      <3> HIDE DEF jobs
      <3> QED
        BY <1>4, <2>2, <3>1, <3>2 DEF Loaded, Validated
    <2> QED
      BY <2>1, <2>2
  <1> QED
    BY <1>6, <1>7, <1>8 DEF SchemaInv

\* Every step of a schema app keeps the invariant.
LEMMA SchemaStep ==
  ASSUME SchemaInv, [SchemaAppsNext]_schemaVars
  PROVE  SchemaInv'
  <1>1. ASSUME NEW s \in Servers, GiveUp(s)
        PROVE  SchemaInv'
    <2>1. /\ at' = [at EXCEPT ![s] = "idle"] /\ job' = [job EXCEPT ![s] = NoJob]
          /\ UNCHANGED <<row, appOpen>>
      BY <1>1 DEF GiveUp, Finish
    <2>2. NoJob \in Jobs
      BY DEF NoJob, Jobs
    <2>3. SchemaTypes' /\ Named'
      BY <2>1, <2>2 DEF SchemaInv, SchemaTypes, Named
    <2>4. /\ at'[s] = "idle"
          /\ \A t \in Servers \ {s} : at'[t] = at[t] /\ job'[t] = job[t]
      BY <2>1 DEF SchemaInv, SchemaTypes
    <2>5. \A t \in Servers \ {s} : /\ Loaded(job[t]) => Loaded(job[t])'
                                   /\ Validated(job[t]) => Validated(job[t])'
      BY <2>1, <2>4 DEF Loaded, Validated, Valid, Referenced
    <2> QED
      BY <2>3, <2>4, <2>5 DEF SchemaInv
  <1>2. ASSUME UNCHANGED <<row, at, job>>, appOpen' \in BOOLEAN
        PROVE  SchemaInv'
    <2>1. \A t \in Servers : /\ Loaded(job[t]) => Loaded(job[t])'
                             /\ Validated(job[t]) => Validated(job[t])'
      BY <1>2 DEF Loaded, Validated, Valid, Referenced
    <2> QED
      BY <1>2, <2>1 DEF SchemaInv, SchemaTypes, Named
  <1>3. CASE ArchiveSchemaApp \/ UNCHANGED schemaVars
    BY <1>2, <1>3 DEF ArchiveSchemaApp, schemaVars, SchemaInv, SchemaTypes
  <1> QED
    BY <1>1, <1>3, LoadOK, ValidateOK, CommitRowOK DEF SchemaAppsNext

\* The calls of a schema app know what they are about, throughout.
THEOREM SchemaInvariant == SchemaAppsSpec => []SchemaInv
  <1>1. SchemaAppsInit => SchemaInv
    BY DEF SchemaAppsInit, SchemaInv, SchemaTypes, Named, NoRow, RowValues, NoJob, Jobs
  <1>2. SchemaInv /\ [SchemaAppsNext]_schemaVars => SchemaInv'
    BY SchemaStep
  <1> QED
    BY <1>1, <1>2, PTL DEF SchemaAppsSpec

\* Only a call that commits over records that were changed after it had loaded them takes a
\* participant away from an expense, or gives two participants one name.
THEOREM SoundnessKept == SchemaAppsSpec => SoundUnlessRaced
  <1> DEFINE A == Sound(row) /\ ~Sound(row') =>
                    \E s \in Servers : at[s] = "validated" /\ at'[s] = "idle" /\ job[s].stale
  <1>1. SchemaInv /\ [SchemaAppsNext]_schemaVars => [A]_schemaVars
    <2> SUFFICES ASSUME SchemaInv, SchemaAppsNext, Sound(row), ~Sound(row')
                 PROVE  \E s \in Servers : at[s] = "validated" /\ at'[s] = "idle" /\ job[s].stale
      OBVIOUS
    <2>1. row' # row
      OBVIOUS
    <2>2. /\ \A s \in Servers : ~ValidateCreate(s) /\ ~ValidateUpdate(s) /\ ~ValidateDelete(s)
          /\ \A s \in Servers : ~GiveUp(s)
          /\ ~ArchiveSchemaApp
      BY <2>1 DEF ValidateCreate, ValidateUpdate, ValidateDelete, GiveUp, ArchiveSchemaApp
    <2>3. \A s, op, i, kind, names, owned : ~Load(s, op, i, kind, names, owned)
      BY <2>1 DEF Load
    <2>4. PICK s \in Servers : CommitRow(s)
      BY <2>2, <2>3 DEF SchemaAppsNext
    <2>5. job[s].stale
      <3>1. job[s].stale \in BOOLEAN
        BY DEF SchemaInv, SchemaTypes, Jobs
      <3> QED
        BY <2>4, <3>1, CommitIsSound
    <2>6. at[s] = "validated" /\ at'[s] = "idle"
      BY <2>4 DEF CommitRow, SchemaInv, SchemaTypes
    <2> QED
      BY <2>5, <2>6
  <1>2. SchemaAppsSpec => [][A]_schemaVars
    BY SchemaInvariant, <1>1, PTL DEF SchemaAppsSpec
  <1> QED
    BY <1>2 DEF SoundUnlessRaced

(***************************************************************************)
(* Both kinds of app, together.                                            *)
(***************************************************************************)

\* A behaviour of apps of either kind is one of code apps and one of schema apps.
LEMMA BothKinds == Spec => AppDataSpec /\ SchemaAppsSpec
  <1>1. Init => AppDataInit /\ SchemaAppsInit
    BY DEF Init
  <1>2. ASSUME [Next]_<<focus, vars, schemaVars>>
        PROVE  [AppDataNext]_vars /\ [SchemaAppsNext]_schemaVars
    <2>1. CASE UNCHANGED <<focus, vars, schemaVars>>
      BY <2>1
    <2>2. CASE Next
      BY <2>2 DEF Next
    <2> QED
      BY <1>2, <2>1, <2>2
  <1> QED
    BY <1>1, <1>2, PTL DEF Spec, AppDataSpec, SchemaAppsSpec

\* The rows and the requests of services/generated_apps_v2.py and services/generated_apps.py
\* keep their shape and their limits.
THEOREM AppTypes == Spec => []TypeOK
  <1>1. SchemaInv => SchemaAppsTypeOK
    BY DEF SchemaInv, SchemaTypes, RowValues, SchemaAppsTypeOK
  <1>2. SchemaAppsTypeOK /\ AppDataTypeOK => TypeOK
    BY DEF TypeOK
  <1> QED
    BY <1>1, <1>2, BothKinds, AppDataTypes, SchemaInvariant, PTL
==============================================================================
