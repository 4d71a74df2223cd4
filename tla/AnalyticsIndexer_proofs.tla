----------------------- MODULE AnalyticsIndexer_proofs ----------------------
(***************************************************************************)
(* What any number of indexer processes may do to their database, for any  *)
(* history, chunk size and number of failed calls, exceptions and kills.   *)
(*                                                                         *)
(* A step works through the events it has one by one, which the model says *)
(* with a recursive function; FoldSteps and Reaches let properties of its  *)
(* result be proved event by event.                                        *)
(*                                                                         *)
(* The last part, from VerdictIn on, is about the views: what the tables   *)
(* hold when nothing has failed, and what the API makes of them.           *)
(***************************************************************************)
EXTENDS AnalyticsViews, WellFoundedInduction, SequenceTheorems, FiniteSetTheorems, TLAPS

-----------------------------------------------------------------------------
(***************************************************************************)
(* Induction and recursion over the natural numbers, of sets and not of    *)
(* operators.                                                              *)
(***************************************************************************)
LEMMA LeastNumber ==
    ASSUME NEW T, T \subseteq Nat, T # {}
    PROVE  \E n \in T : \A m \in T : n <= m
<1>1. PICK n \in T : \A m \in T : ~(<<m, n>> \in OpToRel(<, Nat))
    BY NatLessThanWellFounded, WFMin
<1>2. ASSUME NEW m \in T PROVE n <= m
    <2>1. <<m, n>> \notin {ss \in Nat \X Nat : ss[1] < ss[2]}
        BY <1>1 DEF OpToRel
    <2> QED BY <2>1
<1> QED BY <1>2

LEMMA Reaches ==
    ASSUME NEW N \in Nat, NEW G, 0 \in G, \A n \in 1 .. N : n - 1 \in G => n \in G
    PROVE  N \in G
<1> DEFINE T == (0 .. N) \ G
<1> SUFFICES ASSUME T # {} PROVE FALSE
    OBVIOUS
<1>1. PICK n \in T : \A m \in T : n <= m
    <2>1. T \subseteq Nat
        OBVIOUS
    <2> HIDE DEF T
    <2> QED BY <2>1, LeastNumber
<1>2. n \in 1 .. N /\ n - 1 \in 0 .. N /\ ~(n <= n - 1)
    BY <1>1
<1> QED BY <1>1, <1>2

LEMMA StepsAndNames ==
    /\ CoreSteps = {"factory", "registry", "staking", "challenges"}
    /\ Names("factory") = {"ProviderDeployed"}
    /\ Names("registry") = {"ProviderRegistered", "EndpointRegistered"}
    /\ Names("staking") = {"Staked", "UnstakeRequested", "Withdrawn", "Slashed"}
    /\ Names("challenges") = {"ChallengeOpened", "ChallengeResolved"}
<1>1. CoreSteps = {"factory", "registry", "staking", "challenges"}
    BY DEF CoreSteps, Fetches
<1>2. /\ DOMAIN Fetches["factory"] = 1 .. 1
      /\ DOMAIN Fetches["registry"] = 1 .. 2
      /\ DOMAIN Fetches["staking"] = 1 .. 4
      /\ DOMAIN Fetches["challenges"] = 1 .. 2
    BY DEF Fetches
<1>3. /\ Names("factory") = {Fetches["factory"][1]}
      /\ Names("registry") = {Fetches["registry"][1], Fetches["registry"][2]}
      /\ Names("staking") = {Fetches["staking"][1], Fetches["staking"][2],
                             Fetches["staking"][3], Fetches["staking"][4]}
      /\ Names("challenges") = {Fetches["challenges"][1], Fetches["challenges"][2]}
    BY <1>2 DEF Names
<1> QED BY <1>1, <1>3 DEF Fetches

LEMMA OfTypes ==
    ASSUME NEW types
    PROVE  Of(types) = {e \in EventIds : Ev(e).type \in types}
<1>1. \A t \in DOMAIN OfType : OfType[t] = {e \in EventIds : Ev(e).type = t}
    BY DEF OfType
<1>2. DOMAIN OfType = {Ev(e).type : e \in EventIds}
    BY DEF OfType
<1> QED BY <1>1, <1>2 DEF Of

LEMMA LogFacts ==
    ASSUME NEW step \in CoreSteps
    PROVE  /\ Logs[step] \in Seq(EventIds) /\ Len(Logs[step]) \in Nat
           /\ \A n \in 1 .. Len(Logs[step]) :
                  Logs[step][n] \in EventIds /\ Ev(Logs[step][n]).type \in Names(step)
           /\ \A e \in Of(Names(step)) : \E n \in 1 .. Len(Logs[step]) : Logs[step][n] = e
           /\ \A k, l \in 1 .. Len(Logs[step]) :
                  k < l => InOrder(step, Logs[step][k], Logs[step][l])
<1>1. /\ Logs[step] \in Seq(EventIds)
      /\ {Logs[step][k] : k \in DOMAIN Logs[step]} = Of(Names(step))
      /\ \A k, l \in DOMAIN Logs[step] : k < l => InOrder(step, Logs[step][k], Logs[step][l])
    BY LogsAssumption
<1>2. DOMAIN Logs[step] = 1 .. Len(Logs[step]) /\ Len(Logs[step]) \in Nat
    BY <1>1
<1> QED BY <1>1, <1>2, OfTypes

(***************************************************************************)
(* The recursive function of Processed exists, and is what it says.        *)
(***************************************************************************)
Next1(d, step, events, readable, n) ==
    IF Logs[step][n] \in events THEN Process(step, d, Logs[step][n], readable) ELSE d

LEMMA OntoIs ==
    ASSUME NEW step, NEW d, NEW e, NEW readable
    PROVE  Onto(step, d, e, readable) = Process(step, d, e, readable)
<1>1. {Process(step, y, e, readable) : y \in {d}} = {Process(step, d, e, readable)}
    OBVIOUS
<1> QED BY <1>1 DEF Onto

LEMMA FoldSteps ==
    ASSUME NEW step \in CoreSteps, NEW d, NEW events, NEW readable
    PROVE  \E after :
               /\ after[0] = d
               /\ after[Len(Logs[step])] = Processed(d, step, events, readable)
               /\ \A n \in 1 .. Len(Logs[step]) :
                      after[n] = Next1(after[n - 1], step, events, readable, n)
<1> DEFINE N == Len(Logs[step])
           Follows(m, f) == f = [n \in 0 .. m |->
                                    IF n = 0 THEN d
                                    ELSE IF Logs[step][n] \in events
                                         THEN Onto(step, f[n - 1], Logs[step][n], readable)
                                         ELSE f[n - 1]]
           G == {m \in Nat : \E f : Follows(m, f)}
<1>1. N \in Nat
    BY LogFacts
<1>2. 0 \in G
    <2>1. Follows(0, [n \in 0 .. 0 |-> d])
        OBVIOUS
    <2> QED BY <2>1
<1>3. ASSUME NEW m \in 1 .. N, m - 1 \in G
      PROVE  m \in G
    <2>1. PICK f : Follows(m - 1, f)
        BY <1>3
    <2> DEFINE g == [n \in 0 .. m |->
                        IF n < m THEN f[n]
                        ELSE IF Logs[step][m] \in events
                             THEN Onto(step, f[m - 1], Logs[step][m], readable) ELSE f[m - 1]]
    <2>2. \A n \in 0 .. m :
              g[n] = IF n = 0 THEN d
                     ELSE IF Logs[step][n] \in events
                          THEN Onto(step, g[n - 1], Logs[step][n], readable) ELSE g[n - 1]
        <3> TAKE n \in 0 .. m
        <3>1. CASE n < m
            <4>1. n \in 0 .. m - 1 /\ g[n] = f[n] /\ (n # 0 => g[n - 1] = f[n - 1])
                BY <3>1
            <4> QED BY <4>1, <2>1
        <3>2. CASE n = m
            <4>1. g[m - 1] = f[m - 1]
                OBVIOUS
            <4> QED BY <3>2, <4>1
        <3> QED BY <3>1, <3>2
    <2>3. Follows(m, g)
        <3>1. g = [n \in 0 .. m |-> g[n]]
            OBVIOUS
        <3> HIDE DEF g
        <3> QED BY <2>2, <3>1
    <2>4. m \in Nat
        BY <1>1
    <2> HIDE DEF Follows, g
    <2> QED BY <2>3, <2>4
<1>4. \E f : Follows(N, f)
    <2> HIDE DEF G
    <2>1. N \in G
        BY <1>1, <1>2, <1>3, Reaches
    <2> QED BY <2>1 DEF G
<1> DEFINE after == CHOOSE f : Follows(N, f)
<1>5. Follows(N, after)
    BY <1>4, Zenon
<1>6. after[N] = Processed(d, step, events, readable)
    BY Zenon DEF Processed
<1> HIDE DEF after
<1>7. \A n \in 0 .. N : after[n] = IF n = 0 THEN d
                                   ELSE IF Logs[step][n] \in events
                                        THEN Onto(step, after[n - 1], Logs[step][n], readable)
                                        ELSE after[n - 1]
    BY <1>5
<1>8. after[0] = d
    BY <1>1, <1>7
<1>9. \A n \in 1 .. N : after[n] = Next1(after[n - 1], step, events, readable, n)
    BY <1>1, <1>7, OntoIs DEF Next1
<1> QED BY <1>6, <1>8, <1>9

-----------------------------------------------------------------------------
(***************************************************************************)
(* What a database may contain, and what a write keeps of it.              *)
(***************************************************************************)
Ids == {NULL} \cup {Ev(e).id : e \in Of({"ProviderRegistered"})}

ProviderRow ==
    [id : Ids,
     owner : {Ev(e).recipient : e \in Of({"ProviderDeployed"})}
                \cup {Ev(e).owner : e \in Of({"ProviderRegistered"})},
     share : {Ev(e).share : e \in Of({"ProviderDeployed"})},
     tx : {Ev(e).tx : e \in Of({"ProviderDeployed"})}]

Record(d) ==
    d = [providers |-> d.providers, endpoints |-> d.endpoints, challenges |-> d.challenges,
         rows |-> d.rows, sync_state |-> d.sync_state]

IsDb(d) ==
    /\ Record(d)
    /\ d.providers \in Seq(ProviderRow)
    /\ d.rows \in [Appended -> Seq(Ids)]
    /\ \A id \in DOMAIN d.challenges : {"status", "resolved"} \subseteq DOMAIN d.challenges[id]

Registered(id, owner) ==
    id # NULL => \E e \in Of({"ProviderRegistered"}) : Ev(e).id = id /\ Ev(e).owner = owner

SettledAs(id, status) ==
    status # 0 => \E e \in Of({"ChallengeResolved"}) : Ev(e).id = id /\ Ev(e).result = status

Deployed(row) ==
    \E e \in Of({"ProviderDeployed"}) : Ev(e).tx = row.tx /\ Ev(e).share = row.share

\* Nothing is in it that no event says.
Caused(d) ==
    /\ \A i \in DOMAIN d.providers : Deployed(d.providers[i])
    /\ \A i \in DOMAIN d.providers : Registered(d.providers[i].id, d.providers[i].owner)
    /\ \A ep \in DOMAIN d.endpoints :
           Registered(d.endpoints[ep].provider_id, d.endpoints[ep].owner)
    /\ \A id \in DOMAIN d.challenges : SettledAs(id, d.challenges[id].status)

\* Indexed, a provider in the row of its own transaction.
Held(d, e) ==
    LET ev == Ev(e)
    IN  /\ ev.type = "ProviderDeployed" =>
              \E i \in DOMAIN d.providers : d.providers[i].tx = ev.tx /\ d.providers[i].share = ev.share
        /\ ev.type = "ProviderRegistered" =>
              \E i \in DOMAIN d.providers : /\ d.providers[i].tx = ev.tx
                                            /\ d.providers[i].id = ev.id /\ d.providers[i].owner = ev.owner
        /\ ev.type = "EndpointRegistered" => ev.endpoint \in DOMAIN d.endpoints
        /\ ev.type = "ChallengeOpened" => ev.id \in DOMAIN d.challenges
        /\ ev.type = "ChallengeResolved" =>
              ev.id \in DOMAIN d.challenges /\ d.challenges[ev.id].status = ev.result
        /\ e \in Appended => Len(d.rows[e]) # 0

\* Later a database has all that it had, and the verdicts it had.
Keeps(c, d) ==
    /\ \A e \in EventIds \ WithoutRow : Held(c, e) => Held(d, e)
    /\ \A id \in DOMAIN c.challenges :
           /\ id \in DOMAIN d.challenges
           /\ c.challenges[id].status # 0 => d.challenges[id].status = c.challenges[id].status
    /\ \A e \in Appended : Len(c.rows[e]) <= Len(d.rows[e])

Good(d) == IsDb(d) /\ Caused(d)

LEMMA Changes ==
    ASSUME NEW d, Record(d), NEW v
    PROVE  /\ [d EXCEPT !.providers = v] =
                  [providers |-> v, endpoints |-> d.endpoints, challenges |-> d.challenges,
                   rows |-> d.rows, sync_state |-> d.sync_state]
           /\ [d EXCEPT !.endpoints = v] =
                  [providers |-> d.providers, endpoints |-> v, challenges |-> d.challenges,
                   rows |-> d.rows, sync_state |-> d.sync_state]
           /\ [d EXCEPT !.challenges = v] =
                  [providers |-> d.providers, endpoints |-> d.endpoints, challenges |-> v,
                   rows |-> d.rows, sync_state |-> d.sync_state]
           /\ [d EXCEPT !.rows = v] =
                  [providers |-> d.providers, endpoints |-> d.endpoints,
                   challenges |-> d.challenges, rows |-> v, sync_state |-> d.sync_state]
           /\ [d EXCEPT !.sync_state = v] =
                  [providers |-> d.providers, endpoints |-> d.endpoints,
                   challenges |-> d.challenges, rows |-> d.rows, sync_state |-> v]
    BY DEF Record

LEMMA KeepsItself == ASSUME NEW d, IsDb(d) PROVE Keeps(d, d)
<1>1. \A e \in Appended : Len(d.rows[e]) \in Nat
    BY DEF IsDb
<1> QED BY <1>1 DEF Keeps

LEMMA KeepsOn ==
    ASSUME NEW a, NEW b, NEW c, IsDb(a), IsDb(b), IsDb(c), Keeps(a, b), Keeps(b, c)
    PROVE  Keeps(a, c)
<1>1. \A e \in Appended : /\ Len(a.rows[e]) \in Nat /\ Len(b.rows[e]) \in Nat
                          /\ Len(c.rows[e]) \in Nat
    BY DEF IsDb
<1>2. \A e \in EventIds \ WithoutRow : Held(a, e) => Held(c, e)
    BY DEF Keeps
<1>3. ASSUME NEW id \in DOMAIN a.challenges
      PROVE  /\ id \in DOMAIN c.challenges
             /\ a.challenges[id].status # 0 => c.challenges[id].status = a.challenges[id].status
    BY Zenon DEF Keeps
<1>4. \A e \in Appended : Len(a.rows[e]) <= Len(b.rows[e]) /\ Len(b.rows[e]) <= Len(c.rows[e])
    BY Zenon DEF Keeps
<1>5. \A e \in Appended : Len(a.rows[e]) <= Len(c.rows[e])
    BY <1>1, <1>4
<1> QED BY <1>2, <1>3, <1>5, Zenon DEF Keeps

LEMMA InsertProviderGood ==
    ASSUME NEW d, Good(d), NEW e \in Of({"ProviderDeployed"})
    PROVE  Good(InsertProvider(d, e)) /\ Keeps(d, InsertProvider(d, e))
<1> DEFINE row == [id |-> NULL, owner |-> Ev(e).recipient, share |-> Ev(e).share, tx |-> Ev(e).tx]
           rows == Append(d.providers, row)
           x == [d EXCEPT !.providers = rows]
<1>1. CASE InsertProvider(d, e) = d
    BY <1>1, KeepsItself DEF Good
<1>2. CASE InsertProvider(d, e) = x
    <2>1. Record(d) /\ d.providers \in Seq(ProviderRow)
        BY DEF Good, IsDb
    <2>2. row \in ProviderRow
        BY DEF ProviderRow, Ids
    <2> HIDE DEF row
    <2>3. /\ rows \in Seq(ProviderRow) /\ Len(rows) = Len(d.providers) + 1
          /\ DOMAIN rows = 1 .. Len(d.providers) + 1 /\ DOMAIN d.providers = 1 .. Len(d.providers)
          /\ \A i \in 1 .. Len(d.providers) : rows[i] = d.providers[i]
          /\ rows[Len(d.providers) + 1] = row
        BY <2>1, <2>2
    <2> HIDE DEF rows
    <2>4. /\ x.providers = rows /\ x.endpoints = d.endpoints /\ x.challenges = d.challenges
          /\ x.rows = d.rows /\ Record(x)
        BY <2>1, Changes DEF Record
    <2> HIDE DEF x
    <2>5. IsDb(x)
        BY <2>3, <2>4 DEF Good, IsDb
    <2>6. Caused(x)
        <3>1. ASSUME NEW i \in DOMAIN rows
              PROVE  Registered(rows[i].id, rows[i].owner)
            <4>1. i \in DOMAIN d.providers \/ rows[i] = row
                BY <2>1, <2>3
            <4>2. row.id = NULL
                BY DEF row
            <4> QED BY <2>3, <4>1, <4>2 DEF Good, Caused, Registered
        <3>2. Deployed(row)
            BY DEF row, Deployed
        <3>3. \A i \in DOMAIN rows : Deployed(rows[i])
            <4> TAKE i \in DOMAIN rows
            <4>1. rows[i] = row \/ (i \in DOMAIN d.providers /\ rows[i] = d.providers[i])
                BY <2>1, <2>3
            <4> QED BY <3>2, <4>1 DEF Good, Caused
        <3> QED BY <2>4, <3>1, <3>3 DEF Good, Caused
    <2>7. Keeps(d, x)
        <3>1. ASSUME NEW f \in EventIds, Held(d, f) PROVE Held(x, f)
            <4>1. \A i \in DOMAIN d.providers : i \in DOMAIN rows /\ rows[i] = d.providers[i]
                BY <2>1, <2>3
            <4> QED BY <2>4, <3>1, <4>1 DEF Held
        <3> QED BY <2>4, <3>1, KeepsItself DEF Keeps, Good
    <2> QED BY <1>2, <2>5, <2>6, <2>7 DEF Good
<1> QED BY <1>1, <1>2 DEF InsertProvider

LEMMA UpdateProviderGood ==
    ASSUME NEW d, Good(d), NEW e \in Of({"ProviderRegistered"})
    PROVE  Good(UpdateProvider(d, e)) /\ Keeps(d, UpdateProvider(d, e))
<1> DEFINE rows == [i \in DOMAIN d.providers |->
                       IF d.providers[i].tx = Ev(e).tx
                       THEN [d.providers[i] EXCEPT !.id = Ev(e).id, !.owner = Ev(e).owner]
                       ELSE d.providers[i]]
           x == [d EXCEPT !.providers = rows]
<1>1. UpdateProvider(d, e) = x
    BY DEF UpdateProvider
<1>2. Record(d) /\ d.providers \in Seq(ProviderRow)
    BY DEF Good, IsDb
<1>3. ASSUME NEW i \in DOMAIN d.providers
      PROVE  /\ rows[i] \in ProviderRow
             /\ rows[i].tx = d.providers[i].tx /\ rows[i].share = d.providers[i].share
             /\ rows[i] = d.providers[i]
                   \/ /\ rows[i].id = Ev(e).id /\ rows[i].owner = Ev(e).owner
                      /\ rows[i].tx = Ev(e).tx
             /\ d.providers[i].tx = Ev(e).tx => rows[i].id = Ev(e).id /\ rows[i].owner = Ev(e).owner
    <2>1. d.providers[i] \in ProviderRow
        BY <1>2
    <2>2. Ev(e).id \in Ids
        BY DEF Ids
    <2> QED BY <2>1, <2>2 DEF ProviderRow
<1>4. rows \in Seq(ProviderRow) /\ DOMAIN rows = DOMAIN d.providers
    <2>1. DOMAIN d.providers = 1 .. Len(d.providers) /\ Len(d.providers) \in Nat
        BY <1>2
    <2>2. rows \in [1 .. Len(d.providers) -> ProviderRow]
        BY <1>3, <2>1
    <2> HIDE DEF rows
    <2> QED BY <2>1, <2>2, SeqDef
<1> HIDE DEF rows
<1>5. /\ x.providers = rows /\ x.endpoints = d.endpoints /\ x.challenges = d.challenges
      /\ x.rows = d.rows /\ Record(x)
    BY <1>2, Changes DEF Record
<1> HIDE DEF x
<1>6. IsDb(x)
    BY <1>4, <1>5 DEF Good, IsDb
<1>7. Caused(x)
    <2>1. Registered(Ev(e).id, Ev(e).owner)
        BY DEF Registered
    <2>2. \A i \in DOMAIN rows : Registered(rows[i].id, rows[i].owner)
        BY <1>3, <1>4, <2>1 DEF Good, Caused
    <2>3. \A i \in DOMAIN rows : Deployed(rows[i])
        BY <1>3, <1>4 DEF Good, Caused, Deployed
    <2> QED BY <1>5, <2>2, <2>3 DEF Good, Caused
<1>8. Keeps(d, x)
    <2>1. ASSUME NEW f \in EventIds \ WithoutRow, Held(d, f) PROVE Held(x, f)
        <3>1. CASE Ev(f).type = "ProviderDeployed"
            BY <1>3, <1>4, <1>5, <2>1, <3>1, OfTypes DEF Held
        <3>2. CASE Ev(f).type = "ProviderRegistered"
            <4>1. PICK i \in DOMAIN d.providers :
                      /\ d.providers[i].tx = Ev(f).tx
                      /\ d.providers[i].id = Ev(f).id /\ d.providers[i].owner = Ev(f).owner
                BY <2>1, <3>2 DEF Held
            <4>2. CASE rows[i] = d.providers[i]
                BY <1>4, <1>5, <2>1, <3>2, <4>1, <4>2 DEF Held
            <4>3. CASE rows[i] # d.providers[i]
                <5>1. Ev(f).tx = Ev(e).tx
                    BY <1>3, <4>1, <4>3
                <5>2. f = e
                    BY <3>2, <5>1, OfTypes DEF WithoutRow
                <5>3. rows[i].id = Ev(f).id /\ rows[i].owner = Ev(f).owner /\ rows[i].tx = Ev(f).tx
                    BY <1>3, <4>1, <4>3, <5>2
                <5> QED BY <1>4, <1>5, <2>1, <3>2, <5>3 DEF Held
            <4> QED BY <4>2, <4>3
        <3> QED BY <1>5, <2>1, <3>1, <3>2 DEF Held
    <2> QED BY <1>5, <2>1, KeepsItself DEF Keeps, Good
<1> QED BY <1>1, <1>6, <1>7, <1>8 DEF Good

LEMMA ReplaceEndpointGood ==
    ASSUME NEW d, Good(d), NEW e \in Of({"EndpointRegistered"}), NEW readable
    PROVE  Good(ReplaceEndpoint(d, e, readable)) /\ Keeps(d, ReplaceEndpoint(d, e, readable))
<1> DEFINE pid == ProviderIdOf(d, Ev(e).provider)
           row == [provider_id |-> pid, owner |-> Ev(e).provider,
                   hash |-> IF readable THEN HashNow(Ev(e).endpoint) ELSE 0, block |-> e[1]]
           table == Put(d.endpoints, Ev(e).endpoint, row)
           x == [d EXCEPT !.endpoints = table]
<1>1. ReplaceEndpoint(d, e, readable) = x
    BY DEF ReplaceEndpoint
<1>2. Record(d) /\ d.providers \in Seq(ProviderRow)
    BY DEF Good, IsDb
<1>3. Registered(pid, Ev(e).provider)
    <2> DEFINE its == {i \in DOMAIN d.providers : d.providers[i].owner = Ev(e).provider}
               First(i) == /\ d.providers[i].owner = Ev(e).provider
                           /\ \A j \in 1 .. (i - 1) : d.providers[j].owner # Ev(e).provider
               first == CHOOSE i \in DOMAIN d.providers : First(i)
    <2>1. pid = IF its = {} THEN NULL ELSE d.providers[first].id
        BY DEF ProviderIdOf
    <2>2. CASE its = {}
        BY <2>1, <2>2 DEF Registered
    <2>3. CASE its # {}
        <3>1. its \subseteq Nat
            BY <1>2
        <3>2. PICK i \in its : \A j \in its : i <= j
            <4> HIDE DEF its
            <4> QED BY <2>3, <3>1, LeastNumber
        <3>3. i \in DOMAIN d.providers /\ First(i)
            <4>1. \A j \in 1 .. (i - 1) : j \in DOMAIN d.providers /\ ~(i <= j)
                BY <1>2, <3>1, <3>2
            <4> QED BY <3>2, <4>1
        <3>4. first \in DOMAIN d.providers /\ First(first)
            <4> HIDE DEF First
            <4> QED BY <3>3, Zenon
        <3>5. first \in its
            BY <3>4
        <3> HIDE DEF first
        <3> QED BY <2>1, <2>3, <3>5 DEF Good, Caused
    <2> QED BY <2>2, <2>3
<1> HIDE DEF pid
<1>4. row.provider_id = pid /\ row.owner = Ev(e).provider
    OBVIOUS
<1> HIDE DEF row
<1>5. /\ DOMAIN table = DOMAIN d.endpoints \cup {Ev(e).endpoint}
      /\ \A ep \in DOMAIN table : table[ep] = row \/ (ep \in DOMAIN d.endpoints /\ table[ep] = d.endpoints[ep])
    BY DEF Put
<1> HIDE DEF table
<1>6. /\ x.providers = d.providers /\ x.endpoints = table /\ x.challenges = d.challenges
      /\ x.rows = d.rows /\ Record(x)
    BY <1>2, Changes DEF Record
<1> HIDE DEF x
<1>7. IsDb(x)
    BY <1>6 DEF Good, IsDb
<1>8. Caused(x)
    <2>1. \A ep \in DOMAIN table : Registered(table[ep].provider_id, table[ep].owner)
        BY <1>3, <1>4, <1>5 DEF Good, Caused
    <2> QED BY <1>6, <2>1 DEF Good, Caused
<1>9. Keeps(d, x)
    <2>1. \A f \in EventIds : Held(d, f) => Held(x, f)
        BY <1>5, <1>6 DEF Held
    <2> QED BY <1>6, <2>1, KeepsItself DEF Keeps, Good
<1> QED BY <1>1, <1>7, <1>8, <1>9 DEF Good

LEMMA InsertChallengeGood ==
    ASSUME NEW d, Good(d), NEW e \in Of({"ChallengeOpened"}), NEW readable
    PROVE  Good(InsertChallenge(d, e, readable)) /\ Keeps(d, InsertChallenge(d, e, readable))
<1> DEFINE row == NewChallenge(e, readable)
           table == Put(d.challenges, Ev(e).id, row)
           x == [d EXCEPT !.challenges = table]
<1>1. CASE Ev(e).id \in DOMAIN d.challenges
    BY <1>1, KeepsItself DEF Good, InsertChallenge
<1>2. CASE Ev(e).id \notin DOMAIN d.challenges
    <2>1. InsertChallenge(d, e, readable) = x
        BY <1>2 DEF InsertChallenge
    <2>2. Record(d)
        BY DEF Good, IsDb
    <2>3. row.status = 0 /\ {"status", "resolved"} \subseteq DOMAIN row
        BY DEF NewChallenge
    <2> HIDE DEF row
    <2>4. /\ DOMAIN table = DOMAIN d.challenges \cup {Ev(e).id}
          /\ table[Ev(e).id] = row
          /\ \A id \in DOMAIN d.challenges : table[id] = d.challenges[id]
        BY <1>2 DEF Put
    <2> HIDE DEF table
    <2>5. /\ x.providers = d.providers /\ x.endpoints = d.endpoints /\ x.challenges = table
          /\ x.rows = d.rows /\ Record(x)
        BY <2>2, Changes DEF Record
    <2> HIDE DEF x
    <2>6. IsDb(x)
        BY <2>3, <2>4, <2>5 DEF Good, IsDb
    <2>7. Caused(x)
        BY <2>3, <2>4, <2>5 DEF Good, Caused, SettledAs
    <2>8. Keeps(d, x)
        <3>1. \A f \in EventIds : Held(d, f) => Held(x, f)
            BY <2>4, <2>5 DEF Held
        <3> QED BY <2>4, <2>5, <3>1, KeepsItself DEF Keeps, Good
    <2> QED BY <2>1, <2>6, <2>7, <2>8 DEF Good
<1> QED BY <1>1, <1>2

(***************************************************************************)
(* A verdict written before is the verdict of the same event.              *)
(***************************************************************************)
LEMMA ResolveChallengeGood ==
    ASSUME NEW d, Good(d), NEW e \in Of({"ChallengeResolved"})
    PROVE  Good(ResolveChallenge(d, e)) /\ Keeps(d, ResolveChallenge(d, e))
<1> DEFINE key == Ev(e).id
           row == [d.challenges[key] EXCEPT !.status = Ev(e).result, !.resolved = e[1]]
           table == [d.challenges EXCEPT ![key] = row]
           x == [d EXCEPT !.challenges = table]
<1>1. CASE key \notin DOMAIN d.challenges
    BY <1>1, KeepsItself DEF Good, ResolveChallenge
<1>2. CASE key \in DOMAIN d.challenges
    <2>1. ResolveChallenge(d, e) = x
        BY <1>2 DEF ResolveChallenge
    <2>2. Record(d) /\ {"status", "resolved"} \subseteq DOMAIN d.challenges[key]
        BY <1>2 DEF Good, IsDb
    <2>3. row.status = Ev(e).result /\ {"status", "resolved"} \subseteq DOMAIN row
        BY <2>2
    <2> HIDE DEF row
    <2>4. /\ DOMAIN table = DOMAIN d.challenges /\ table[key] = row
          /\ \A id \in DOMAIN d.challenges \ {key} : table[id] = d.challenges[id]
        BY <1>2
    <2> HIDE DEF table
    <2>5. /\ x.providers = d.providers /\ x.endpoints = d.endpoints /\ x.challenges = table
          /\ x.rows = d.rows /\ Record(x)
        BY <2>2, Changes DEF Record
    <2> HIDE DEF x
    <2>6. IsDb(x)
        BY <2>3, <2>4, <2>5 DEF Good, IsDb
    <2>7. SettledAs(key, Ev(e).result)
        BY DEF SettledAs
    <2>8. Caused(x)
        BY <2>3, <2>4, <2>5, <2>7 DEF Good, Caused
    <2>9. d.challenges[key].status # 0 => d.challenges[key].status = Ev(e).result
        <3>1. SettledAs(key, d.challenges[key].status)
            BY <1>2 DEF Good, Caused
        <3> QED BY <3>1, HistoryAssumption DEF SettledAs
    <2>10. Keeps(d, x)
        <3>1. ASSUME NEW f \in EventIds, Held(d, f) PROVE Held(x, f)
            <4>1. CASE Ev(f).type = "ChallengeResolved" /\ Ev(f).id = key
                <5>1. f = e
                    BY <4>1, OfTypes, HistoryAssumption
                <5> QED BY <1>2, <2>3, <2>4, <2>5, <3>1, <4>1, <5>1 DEF Held
            <4>2. CASE ~(Ev(f).type = "ChallengeResolved" /\ Ev(f).id = key)
                BY <2>4, <2>5, <3>1, <4>2 DEF Held
            <4> QED BY <4>1, <4>2
        <3> QED BY <2>3, <2>4, <2>5, <2>9, <3>1, KeepsItself DEF Keeps, Good
    <2> QED BY <2>1, <2>6, <2>8, <2>10 DEF Good
<1> QED BY <1>1, <1>2

(***************************************************************************)
(* Rows written to the tables without a key.                               *)
(***************************************************************************)
LEMMA RowsGood ==
    ASSUME NEW d, Good(d), NEW rows \in [Appended -> Seq(Ids)],
           \A e \in Appended : Len(d.rows[e]) <= Len(rows[e])
    PROVE  Good([d EXCEPT !.rows = rows]) /\ Keeps(d, [d EXCEPT !.rows = rows])
<1> DEFINE x == [d EXCEPT !.rows = rows]
<1>1. /\ x.providers = d.providers /\ x.endpoints = d.endpoints /\ x.challenges = d.challenges
      /\ x.rows = rows /\ Record(x)
    BY Changes DEF Record, Good, IsDb
<1> HIDE DEF x
<1>2. IsDb(x) /\ Caused(x)
    BY <1>1 DEF Good, IsDb, Caused
<1>3. Keeps(d, x)
    <2>1. \A f \in Appended : Len(d.rows[f]) # 0 => Len(rows[f]) # 0
        BY DEF Good, IsDb
    <2>2. \A f \in EventIds : Held(d, f) => Held(x, f)
        BY <1>1, <2>1 DEF Held
    <2> QED BY <1>1, <2>2, KeepsItself DEF Keeps, Good
<1> QED BY <1>2, <1>3 DEF Good, x

LEMMA AppendRowGood ==
    ASSUME NEW d, Good(d), NEW e \in Appended, NEW pid \in Ids
    PROVE  /\ Good(AppendRow(d, e, pid)) /\ Keeps(d, AppendRow(d, e, pid))
           /\ \A f \in Appended : Len(AppendRow(d, e, pid).rows[f]) =
                                      Len(d.rows[f]) + (IF f = e THEN 1 ELSE 0)
<1> DEFINE rows == [d.rows EXCEPT ![e] = Append(@, pid)]
<1>1. AppendRow(d, e, pid) = [d EXCEPT !.rows = rows]
    BY DEF AppendRow
<1>2. d.rows \in [Appended -> Seq(Ids)] /\ Record(d)
    BY DEF Good, IsDb
<1>3. /\ rows \in [Appended -> Seq(Ids)]
      /\ \A f \in Appended : /\ Len(d.rows[f]) \in Nat
                             /\ Len(rows[f]) = Len(d.rows[f]) + (IF f = e THEN 1 ELSE 0)
    <2> DEFINE r == d.rows
    <2>1. r \in [Appended -> Seq(Ids)] /\ rows = [r EXCEPT ![e] = Append(@, pid)]
        BY <1>2
    <2> HIDE DEF r, rows
    <2>2. /\ \A f \in Appended \ {e} : rows[f] = r[f]
          /\ rows[e] = Append(r[e], pid) /\ \A f \in Appended : r[f] \in Seq(Ids)
          /\ DOMAIN rows = Appended /\ rows = [f \in Appended |-> rows[f]]
        BY <2>1
    <2>3. rows[e] \in Seq(Ids) /\ Len(rows[e]) = Len(r[e]) + 1
        BY <2>2
    <2>4. rows \in [Appended -> Seq(Ids)]
        BY <2>2, <2>3
    <2>5. ASSUME NEW f \in Appended
          PROVE  Len(r[f]) \in Nat /\ Len(rows[f]) = Len(r[f]) + (IF f = e THEN 1 ELSE 0)
        <3>1. Len(r[f]) \in Nat
            BY <2>2
        <3>2. CASE f = e
            BY <2>3, <3>1, <3>2
        <3>3. CASE f # e
            BY <2>2, <3>1, <3>3
        <3> QED BY <3>2, <3>3
    <2> QED BY <2>4, <2>5 DEF r
<1> HIDE DEF rows
<1>4. ASSUME NEW f \in Appended
      PROVE  Len(d.rows[f]) <= Len(rows[f])
    <2>1. Len(d.rows[f]) \in Nat /\ Len(rows[f]) = Len(d.rows[f]) + (IF f = e THEN 1 ELSE 0)
        BY <1>3
    <2> DEFINE m == Len(d.rows[f])
               n == Len(rows[f])
    <2>2. CASE f = e
        <3>1. m \in Nat /\ n = m + 1
            BY <2>1, <2>2
        <3> HIDE DEF m, n
        <3>2. m <= n
            BY <3>1
        <3> QED BY <3>2 DEF m, n
    <2>3. CASE f # e
        <3>1. m \in Nat /\ n = m + 0
            BY <2>1, <2>3
        <3> HIDE DEF m, n
        <3>2. m <= n
            BY <3>1
        <3> QED BY <3>2 DEF m, n
    <2> QED BY <2>2, <2>3
<1>5. [d EXCEPT !.rows = rows].rows = rows
    BY <1>2, Changes
<1>6. Good([d EXCEPT !.rows = rows]) /\ Keeps(d, [d EXCEPT !.rows = rows])
    <2>1. rows \in [Appended -> Seq(Ids)]
        BY <1>3
    <2> QED BY <2>1, <1>4, RowsGood
<1> QED BY <1>1, <1>3, <1>5, <1>6

-----------------------------------------------------------------------------
(***************************************************************************)
(* One event, and all the events of a step.                                *)
(***************************************************************************)
LEMMA StakingAppends == Of(Names("staking")) \subseteq Appended
    BY StepsAndNames, OfTypes DEF Appended, AppendedTypes

LEMMA ProcessGood ==
    ASSUME NEW step \in CoreSteps, NEW d, Good(d), NEW e \in Of(Names(step)), NEW readable
    PROVE  Good(Process(step, d, e, readable)) /\ Keeps(d, Process(step, d, e, readable))
<1>1. e \in EventIds /\ Ev(e).type \in Names(step)
    BY OfTypes
<1>2. CASE step = "factory"
    <2>1. e \in Of({"ProviderDeployed"}) /\ Process(step, d, e, readable) = InsertProvider(d, e)
        BY <1>2, StepsAndNames DEF Process
    <2> QED BY <2>1, InsertProviderGood
<1>3. CASE step = "registry"
    <2>1. Process(step, d, e, readable) = ProcessRegistry(d, e, readable)
        BY <1>3 DEF Process
    <2>2. CASE Ev(e).type = "ProviderRegistered"
        <3>1. e \in Of({"ProviderRegistered"})
            BY <1>1, <2>2, OfTypes
        <3> QED BY <2>1, <2>2, <3>1, UpdateProviderGood DEF ProcessRegistry
    <2>3. CASE Ev(e).type # "ProviderRegistered"
        <3>1. e \in Of({"EndpointRegistered"})
            BY <1>1, <1>3, <2>3, StepsAndNames, OfTypes
        <3> QED BY <2>1, <2>3, <3>1, ReplaceEndpointGood DEF ProcessRegistry
    <2> QED BY <2>2, <2>3
<1>4. CASE step = "staking"
    <2>1. e \in Appended /\ Process(step, d, e, readable) = AppendRow(d, e, NULL) /\ NULL \in Ids
        BY <1>4, StakingAppends DEF Process, Ids
    <2> QED BY <2>1, AppendRowGood
<1>5. CASE step = "challenges"
    <2>1. Process(step, d, e, readable) = ProcessChallenges(d, e, readable)
        BY <1>5 DEF Process
    <2>2. CASE Ev(e).type = "ChallengeOpened"
        <3>1. e \in Of({"ChallengeOpened"})
            BY <1>1, <2>2, OfTypes
        <3> QED BY <2>1, <2>2, <3>1, InsertChallengeGood DEF ProcessChallenges
    <2>3. CASE Ev(e).type # "ChallengeOpened"
        <3>1. e \in Of({"ChallengeResolved"})
            BY <1>1, <1>5, <2>3, StepsAndNames, OfTypes
        <3> QED BY <2>1, <2>3, <3>1, ResolveChallengeGood DEF ProcessChallenges
    <2> QED BY <2>2, <2>3
<1> QED BY <1>2, <1>3, <1>4, <1>5, StepsAndNames

LEMMA ProcessedGood ==
    ASSUME NEW step \in CoreSteps, NEW d, Good(d), NEW events, NEW readable
    PROVE  /\ Good(Processed(d, step, events, readable))
           /\ Keeps(d, Processed(d, step, events, readable))
<1> DEFINE N == Len(Logs[step])
<1>1. PICK after : /\ after[0] = d /\ after[N] = Processed(d, step, events, readable)
                   /\ \A n \in 1 .. N : after[n] = Next1(after[n - 1], step, events, readable, n)
    BY FoldSteps
<1>2. /\ N \in Nat
      /\ \A n \in 1 .. N : Logs[step][n] \in Of(Names(step))
    BY LogFacts, OfTypes
<1> DEFINE G == {n \in 0 .. N : Good(after[n]) /\ Keeps(d, after[n])}
<1>3. 0 \in G
    BY <1>1, <1>2, KeepsItself DEF Good
<1>4. ASSUME NEW n \in 1 .. N, n - 1 \in G
      PROVE  n \in G
    <2> DEFINE c == after[n - 1]
    <2>1. Good(c) /\ Keeps(d, c) /\ after[n] = Next1(c, step, events, readable, n)
        BY <1>1, <1>4
    <2>2. CASE Logs[step][n] \in events
        <3>1. after[n] = Process(step, c, Logs[step][n], readable)
            BY <2>1, <2>2 DEF Next1
        <3> HIDE DEF c
        <3>2. Good(after[n]) /\ Keeps(c, after[n])
            BY <1>2, <2>1, <3>1, ProcessGood
        <3>3. Keeps(d, after[n])
            BY <2>1, <3>2, KeepsOn DEF Good
        <3> QED BY <1>2, <3>2, <3>3
    <2>3. CASE Logs[step][n] \notin events
        <3>1. after[n] = c
            BY <2>1, <2>3 DEF Next1
        <3> QED BY <1>2, <2>1, <3>1
    <2> QED BY <2>2, <2>3
<1>5. N \in G
    <2> HIDE DEF G, N
    <2> QED BY <1>2, <1>3, <1>4, Reaches
<1> QED BY <1>1, <1>5

-----------------------------------------------------------------------------
(***************************************************************************)
(* The database through the steps of the processes: whatever is in it, or  *)
(* in the transaction that is open, an event has caused, and a transaction *)
(* only adds to what is committed.                                         *)
(***************************************************************************)
DatabaseInv ==
    /\ Good(db) /\ Good(view) /\ Keeps(db, view)
    /\ writer = NULL => view = db

LEMMA SyncStateGood ==
    ASSUME NEW d, Good(d), NEW table, NEW block
    PROVE  /\ Good([d EXCEPT !.sync_state[table] = block])
           /\ Keeps(d, [d EXCEPT !.sync_state[table] = block])
<1> DEFINE x == [d EXCEPT !.sync_state = [d.sync_state EXCEPT ![table] = block]]
<1>1. [d EXCEPT !.sync_state[table] = block] = x
    OBVIOUS
<1>2. /\ x.providers = d.providers /\ x.endpoints = d.endpoints /\ x.challenges = d.challenges
      /\ x.rows = d.rows /\ Record(x)
    BY Changes DEF Record, Good, IsDb
<1> HIDE DEF x
<1>3. IsDb(x) /\ Caused(x) /\ Keeps(d, x)
    <2>1. \A f \in EventIds : Held(d, f) => Held(x, f)
        BY <1>2 DEF Held
    <2> QED BY <1>2, <2>1, KeepsItself DEF Good, IsDb, Caused, Keeps
<1> QED BY <1>1, <1>3 DEF Good

\* x has one row more than d for each of the events.
OneMoreOf(d, x, events) ==
    \A e \in Appended : Len(x.rows[e]) = Len(d.rows[e]) + (IF e \in events THEN 1 ELSE 0)

LEMMA RowsAppendedGood ==
    ASSUME NEW d, Good(d), NEW events, \A e \in events : RowsOf(d, e) # {}
    PROVE  /\ Good(RowsAppended(d, events)) /\ Keeps(d, RowsAppended(d, events))
           /\ OneMoreOf(d, RowsAppended(d, events), events)
<1> DEFINE pid(e) == d.providers[CHOOSE i \in RowsOf(d, e) : TRUE].id
           rows == [e \in Appended |->
                       IF e \in events THEN Append(d.rows[e], pid(e)) ELSE d.rows[e]]
<1>1. RowsAppended(d, events) = [d EXCEPT !.rows = rows]
    BY DEF RowsAppended
<1>2. Record(d) /\ d.rows \in [Appended -> Seq(Ids)] /\ d.providers \in Seq(ProviderRow)
    BY DEF Good, IsDb
<1>3. ASSUME NEW e \in events PROVE pid(e) \in Ids
    <2> DEFINE i == CHOOSE i \in RowsOf(d, e) : TRUE
    <2>1. i \in RowsOf(d, e)
        OBVIOUS
    <2> HIDE DEF i
    <2>2. d.providers[i] \in ProviderRow
        BY <1>2, <2>1 DEF RowsOf
    <2>3. d.providers[i].id \in Ids
        BY <2>2 DEF ProviderRow
    <2> QED BY <2>3 DEF i
<1> HIDE DEF pid
<1>4. ASSUME NEW e \in Appended
      PROVE  /\ rows[e] \in Seq(Ids) /\ Len(d.rows[e]) \in Nat
             /\ Len(rows[e]) = Len(d.rows[e]) + (IF e \in events THEN 1 ELSE 0)
    <2> DEFINE r == d.rows[e]
    <2>1. r \in Seq(Ids) /\ rows[e] = IF e \in events THEN Append(r, pid(e)) ELSE r
        BY <1>2
    <2> HIDE DEF r, rows
    <2>2. CASE e \in events
        <3>1. pid(e) \in Ids
            BY <1>3, <2>2
        <3>2. rows[e] \in Seq(Ids) /\ Len(r) \in Nat /\ Len(rows[e]) = Len(r) + 1
            BY <2>1, <2>2, <3>1
        <3> QED BY <2>2, <3>2 DEF r
    <2>3. CASE e \notin events
        <3>1. rows[e] \in Seq(Ids) /\ Len(r) \in Nat /\ Len(rows[e]) = Len(r) + 0
            BY <2>1, <2>3
        <3> QED BY <2>3, <3>1 DEF r
    <2> QED BY <2>2, <2>3
<1>5. rows \in [Appended -> Seq(Ids)]
    <2>1. rows = [e \in Appended |-> rows[e]]
        OBVIOUS
    <2> HIDE DEF rows
    <2> QED BY <1>4, <2>1
<1> HIDE DEF rows
<1>6. ASSUME NEW e \in Appended PROVE Len(d.rows[e]) <= Len(rows[e])
    <2> DEFINE m == Len(d.rows[e])
    <2>1. m \in Nat /\ (Len(rows[e]) = m + 1 \/ Len(rows[e]) = m + 0)
        BY <1>4
    <2> HIDE DEF m
    <2>2. m <= Len(rows[e])
        BY <2>1
    <2> QED BY <2>2 DEF m
<1>7. [d EXCEPT !.rows = rows].rows = rows
    BY <1>2, Changes
<1> DEFINE x == [d EXCEPT !.rows = rows]
<1>8. Good(x) /\ Keeps(d, x)
    BY <1>5, <1>6, RowsGood
<1>9. OneMoreOf(d, x, events)
    BY <1>4, <1>7 DEF OneMoreOf
<1> HIDE DEF x
<1> QED BY <1>1, <1>8, <1>9 DEF x

LEMMA ConnGood ==
    ASSUME DatabaseInv, NEW p
    PROVE  Good(Conn(p))
    BY DEF Conn, DatabaseInv

LEMMA WriteKeeps ==
    ASSUME DatabaseInv, NEW p \in Processes, NEW events, NEW d, Write(p, events, d),
           Good(d), Keeps(Conn(p), d)
    PROVE  DatabaseInv' /\ Keeps(db, db')
<1>1. CASE events = {}
    BY <1>1, KeepsItself DEF Write, DatabaseInv, database, Good
<1>2. CASE events # {}
    <2>1. writer \in {NULL, p} /\ writer' = p /\ view' = d /\ db' = db
        BY <1>2 DEF Write, Locked
    <2>2. p # NULL
        BY IndexerAssumption
    <2>3. Conn(p) = view
        BY <2>1 DEF Conn, DatabaseInv
    <2>4. Keeps(db, d) /\ Keeps(db, db)
        BY <2>3, KeepsOn, KeepsItself DEF DatabaseInv, Good
    <2> QED BY <2>1, <2>2, <2>4 DEF DatabaseInv
<1> QED BY <1>1, <1>2

LEMMA RollbackKeeps ==
    ASSUME DatabaseInv, NEW p, Rollback(p)
    PROVE  DatabaseInv' /\ Keeps(db, db')
    BY KeepsItself DEF DatabaseInv, Rollback, Good

LEMMA UnchangedKeeps ==
    ASSUME DatabaseInv, UNCHANGED database
    PROVE  DatabaseInv' /\ Keeps(db, db')
    BY KeepsItself DEF DatabaseInv, database, Good

LEMMA InitDatabase == IndexerInit => DatabaseInv
<1> SUFFICES ASSUME IndexerInit PROVE DatabaseInv
    OBVIOUS
<1>1. /\ EmptyDb.providers = <<>> /\ EmptyDb.endpoints = [ep \in {} |-> NULL]
      /\ EmptyDb.challenges = [id \in {} |-> NULL]
      /\ EmptyDb.rows = [e \in Appended |-> <<>>] /\ Record(EmptyDb)
    BY DEF EmptyDb, Record
<1>2. IsDb(EmptyDb)
    BY <1>1 DEF IsDb
<1>3. Caused(EmptyDb)
    BY <1>1 DEF Caused
<1> QED BY <1>2, <1>3, KeepsItself DEF IndexerInit, DatabaseInv, Good

LEMMA StepDatabase ==
    ASSUME DatabaseInv, [IndexerNext]_indexerVars
    PROVE  DatabaseInv' /\ Keeps(db, db')
<1>1. CASE UNCHANGED indexerVars
    BY <1>1, UnchangedKeeps DEF indexerVars
<1>2. CASE Mine
    BY <1>2, UnchangedKeeps DEF Mine
<1>3. ASSUME NEW p \in Processes, Launch(p) \/ Work(p) \/ Trouble(p)
      PROVE  DatabaseInv' /\ Keeps(db, db')
    <2>1. CASE Launch(p)
        BY <2>1, UnchangedKeeps DEF Launch
    <2>2. CASE Begin(p)
        BY <2>2, UnchangedKeeps DEF Begin
    <2>3. CASE BeginFails(p)
        BY <2>3, RollbackKeeps DEF BeginFails
    <2>4. ASSUME NEW step \in CoreSteps, ExecuteCore(p, step)
          PROVE  DatabaseInv' /\ Keeps(db, db')
        <3>1. PICK readable \in BOOLEAN, lost \in {{}} \cup Lost(p, step) :
                  LET events == Fetched(p, step, lost)
                  IN  Write(p, events, Processed(Conn(p), step, events, readable))
            BY <2>4 DEF ExecuteCore
        <3> DEFINE events == Fetched(p, step, lost)
                   d == Processed(Conn(p), step, events, readable)
        <3>2. Write(p, events, d)
            BY <3>1
        <3>3. Good(d) /\ Keeps(Conn(p), d)
            BY ConnGood, ProcessedGood
        <3> HIDE DEF events, d
        <3> QED BY <3>2, <3>3, WriteKeeps
    <2>5. ASSUME NEW step, NEW table, ExecuteState(p, step, table)
          PROVE  DatabaseInv' /\ Keeps(db, db')
        <3> DEFINE d == [Conn(p) EXCEPT !.sync_state[table] = current_block[p]]
        <3>1. Write(p, {step}, d)
            BY <2>5 DEF ExecuteState
        <3>2. Good(d) /\ Keeps(Conn(p), d)
            BY ConnGood, SyncStateGood
        <3> HIDE DEF d
        <3> QED BY <3>1, <3>2, WriteKeeps
    <2>6. CASE ExecutePerProvider(p)
        <3>1. PICK lost :
                  LET due == InRange(p, Of({"Distributed", "Claimed"}))
                      found == {e \in due \ lost : RowsOf(Conn(p), e) # {}}
                  IN  Write(p, found, RowsAppended(Conn(p), found))
            BY <2>6 DEF ExecutePerProvider
        <3> DEFINE due == InRange(p, Of({"Distributed", "Claimed"}))
                   found == {e \in due \ lost : RowsOf(Conn(p), e) # {}}
                   d == RowsAppended(Conn(p), found)
        <3>2. Write(p, found, d) /\ \A e \in found : RowsOf(Conn(p), e) # {}
            BY <3>1
        <3> HIDE DEF found
        <3>3. Good(d) /\ Keeps(Conn(p), d)
            BY <3>2, ConnGood, RowsAppendedGood
        <3> HIDE DEF d
        <3> QED BY <3>2, <3>3, WriteKeeps
    <2>7. CASE Commit(p)
        <3>1. db' = view /\ view' = view /\ writer' = NULL
            BY <2>7 DEF Commit
        <3> QED BY <3>1, KeepsItself DEF DatabaseInv, Good
    <2>8. CASE BeginSave(p)
        BY <2>8, UnchangedKeeps DEF BeginSave
    <2>9. CASE FinishSave(p)
        BY <2>9, UnchangedKeeps, RollbackKeeps DEF FinishSave
    <2>10. ASSUME NEW step \in CoreSteps, RaiseInCore(p, step)
           PROVE  DatabaseInv' /\ Keeps(db, db')
        <3>1. CASE p \in OneShots
            BY <2>10, <3>1, RollbackKeeps DEF RaiseInCore
        <3>2. CASE p \notin OneShots
            <4>1. PICK written : Write(p, written, Processed(Conn(p), step, written, TRUE))
                BY <2>10, <3>2 DEF RaiseInCore
            <4> DEFINE d == Processed(Conn(p), step, written, TRUE)
            <4>2. Good(d) /\ Keeps(Conn(p), d)
                BY ConnGood, ProcessedGood
            <4> HIDE DEF d
            <4> QED BY <4>1, <4>2, WriteKeeps DEF d
        <3> QED BY <3>1, <3>2
    <2>11. CASE DatabaseLocked(p)
        BY <2>11, UnchangedKeeps DEF DatabaseLocked
    <2>12. CASE Crash(p)
        BY <2>12, RollbackKeeps DEF Crash
    <2> QED BY <1>3, <2>1, <2>2, <2>3, <2>4, <2>5, <2>6, <2>7, <2>8, <2>9, <2>10, <2>11, <2>12
            DEF Work, Trouble
<1> QED BY <1>1, <1>2, <1>3 DEF IndexerNext

LEMMA DatabaseHolds == IndexerSpec => []DatabaseInv
<1>1. DatabaseInv /\ [IndexerNext]_indexerVars => DatabaseInv'
    BY StepDatabase
<1> QED BY <1>1, InitDatabase, PTL DEF IndexerSpec

(***************************************************************************)
(* No process shows an endpoint under a provider that is not its owner's.  *)
(***************************************************************************)
THEOREM EndpointsKeepTheirProvider == IndexerSpec => []EndpointsAttributed
<1>1. DatabaseInv => EndpointsAttributed
    BY DEF DatabaseInv, Good, Caused, Registered, EndpointsAttributed
<1> QED BY <1>1, DatabaseHolds, PTL

(***************************************************************************)
(* No step of any process turns a verdict that is shown into another.      *)
(***************************************************************************)
THEOREM VerdictsStay == IndexerSpec => VerdictStays
<1>1. DatabaseInv /\ [IndexerNext]_indexerVars =>
          [\A id \in DOMAIN db.challenges :
              db.challenges[id].status # 0 =>
                 id \in DOMAIN db'.challenges /\ db'.challenges[id].status = db.challenges[id].status]_db
    BY StepDatabase DEF Keeps
<1> QED BY <1>1, DatabaseHolds, PTL DEF IndexerSpec, VerdictStays

-----------------------------------------------------------------------------
(***************************************************************************)
(* Where the processes are, and what their cursors say of the steps that   *)
(* lie behind them.                                                        *)
(***************************************************************************)
Steps == CoreSteps \cup {"core_state", "per_provider", "per_provider_state"}

Cursors == [core : Int, per_provider : Int]

Typed ==
    /\ head \in Nat /\ faults \in Nat /\ overlaps \in Nat /\ file \in Cursors
    /\ pc \in [Processes -> Steps \cup {"off", "idle", "save", "saving"}]
    /\ executed \in [Processes -> BOOLEAN]
    /\ state \in [Processes -> Cursors]
    /\ current_block \in [Processes -> Nat]

\* What p has behind it is covered by its cursors, up to its last block.
OnCourse(p) ==
    /\ executed[p] => pc[p] \in Steps /\ writer = p
    /\ current_block[p] <= head
    /\ Syncing(p) => /\ state[p].core <= current_block[p]
                     /\ state[p].per_provider <= current_block[p]
    /\ pc[p] \in {"per_provider", "per_provider_state", "save", "saving"} =>
           core_from(state[p]) > current_block[p]
    /\ pc[p] \in {"save", "saving"} => pp_from(state[p]) > current_block[p]

Control ==
    /\ Typed
    /\ file.core <= head /\ file.per_provider <= head
    /\ \A p \in Processes : OnCourse(p)

\* A step of p that leaves every other process where it is.
Alone(p) ==
    /\ head' = head
    /\ \A q \in Processes \ {p} :
           /\ pc'[q] = pc[q] /\ executed'[q] = executed[q] /\ state'[q] = state[q]
           /\ current_block'[q] = current_block[q]
           /\ writer = q => writer' = q

LEMMA OthersOnCourse ==
    ASSUME Control, NEW p \in Processes, Alone(p), Typed', OnCourse(p)',
           file' \in {file, Torn, state[p]}, file' = state[p] => Syncing(p) \/ file' = file
    PROVE  Control'
<1>1. ASSUME NEW q \in Processes PROVE OnCourse(q)'
    <2>1. CASE q = p
        BY <2>1
    <2>2. CASE q # p
        <3>1. OnCourse(q)
            BY DEF Control
        <3> QED BY <2>2, <3>1 DEF Alone, OnCourse, Syncing, core_from, pp_from, Later
    <2> QED BY <2>1, <2>2
<1>2. file'.core <= head' /\ file'.per_provider <= head'
    <2>1. CASE file' = file
        BY <2>1 DEF Control, Alone
    <2>2. CASE file' = Torn
        BY <2>2 DEF Control, Alone, Torn, Typed
    <2>3. CASE file' = state[p] /\ Syncing(p)
        <3>1. /\ state[p].core <= current_block[p] /\ state[p].per_provider <= current_block[p]
              /\ current_block[p] <= head
            BY <2>3 DEF Control, OnCourse
        <3>2. state[p].core \in Int /\ state[p].per_provider \in Int /\ current_block[p] \in Nat /\ head \in Nat
            BY DEF Control, Typed, Cursors
        <3> QED BY <2>3, <3>1, <3>2 DEF Alone
    <2> QED BY <2>1, <2>2, <2>3
<1> QED BY <1>1, <1>2 DEF Control

LEMMA WriteAlone ==
    ASSUME NEW p \in Processes, NEW events, NEW d, Write(p, events, d)
    PROVE  /\ \A q \in Processes \ {p} : writer = q => writer' = q
           /\ writer = p => writer' = p
           /\ events # {} => writer' = p
    BY IndexerAssumption DEF Write, Locked, database

LEMMA RollbackAlone ==
    ASSUME NEW p \in Processes, Rollback(p)
    PROVE  \A q \in Processes \ {p} : writer = q => writer' = q
    BY DEF Rollback

(***************************************************************************)
(* A process that goes on to its next step.                                *)
(***************************************************************************)
LEMMA GoesOn ==
    ASSUME Control, NEW p \in Processes, pc[p] \in Steps, NextStep(p),
           current_block' = current_block, head' = head
    PROVE  /\ pc' \in [Processes -> Steps \cup {"off", "idle", "save", "saving"}]
           /\ executed' \in [Processes -> BOOLEAN] /\ state' \in [Processes -> Cursors]
           /\ \A q \in Processes \ {p} : /\ pc'[q] = pc[q] /\ executed'[q] = executed[q]
                                         /\ state'[q] = state[q]
           /\ pc'[p] = StepAfter(p) /\ state'[p] = CursorsAfter(p) /\ executed'[p] = FALSE
           /\ pc'[p] \in Steps \cup {"save"} /\ OnCourse(p)'
<1>1. Typed /\ OnCourse(p) /\ Syncing(p)
    BY StepsAndNames DEF Control, Syncing, Steps
<1>2. /\ state[p] \in Cursors /\ current_block[p] \in Nat /\ head \in Nat /\ DeployBlock \in Nat
      /\ state[p].core \in Int /\ state[p].per_provider \in Int
    BY <1>1, IndexerAssumption DEF Typed, Cursors
<1>3. StepAfter(p) \in Steps \cup {"save"}
    BY StepsAndNames DEF StepAfter, Steps
<1>4. /\ CursorsAfter(p) \in Cursors
      /\ CursorsAfter(p).core = IF pc[p] = "core_state" THEN current_block[p] ELSE state[p].core
      /\ CursorsAfter(p).per_provider = IF pc[p] = "per_provider_state" THEN current_block[p]
                                        ELSE state[p].per_provider
    BY <1>2 DEF CursorsAfter, Cursors
<1>5. /\ pc' = [pc EXCEPT ![p] = StepAfter(p)] /\ executed' = [executed EXCEPT ![p] = FALSE]
      /\ state' = [state EXCEPT ![p] = CursorsAfter(p)]
    BY DEF NextStep
<1>6. pc'[p] = StepAfter(p) /\ state'[p] = CursorsAfter(p) /\ executed'[p] = FALSE
    BY <1>1, <1>5 DEF Typed
<1>7. OnCourse(p)'
    <2>1. state'[p].core <= current_block[p] /\ state'[p].per_provider <= current_block[p]
        BY <1>1, <1>2, <1>4, <1>6 DEF OnCourse
    <2>2. pc'[p] \in {"per_provider", "per_provider_state", "save", "saving"} =>
              core_from(state'[p]) > current_block[p]
        <3>1. CASE pc[p] = "core_state"
            BY <1>2, <1>4, <1>6, <3>1 DEF core_from, Later
        <3>2. CASE pc[p] \in CoreSteps
            BY <1>6, <3>2, StepsAndNames DEF StepAfter
        <3>3. CASE pc[p] \in {"per_provider", "per_provider_state"}
            BY <1>1, <1>2, <1>4, <1>6, <3>3 DEF core_from, Later, OnCourse
        <3> QED BY <3>1, <3>2, <3>3, StepsAndNames DEF Steps
    <2>3. pc'[p] \in {"save", "saving"} => pp_from(state'[p]) > current_block[p]
        <3>1. CASE pc[p] = "core_state"
            <4>1. pc'[p] = "save" => ~(pp_from(state[p]) <= current_block[p])
                BY <1>6, <3>1 DEF StepAfter
            <4>2. pc'[p] # "saving"
                BY <1>3, <1>6, StepsAndNames DEF Steps
            <4> QED BY <1>2, <1>4, <1>6, <3>1, <4>1, <4>2 DEF pp_from, Later
        <3>2. CASE pc[p] = "per_provider_state"
            BY <1>2, <1>4, <1>6, <3>2 DEF pp_from, Later
        <3>3. CASE pc[p] \in CoreSteps \cup {"per_provider"}
            BY <1>6, <3>3, StepsAndNames DEF StepAfter
        <3> QED BY <3>1, <3>2, <3>3, StepsAndNames DEF Steps
    <2> QED BY <1>1, <1>6, <2>1, <2>2, <2>3 DEF OnCourse
<1> QED BY <1>1, <1>3, <1>4, <1>5, <1>6, <1>7 DEF Typed

(***************************************************************************)
(* A process that stops syncing.                                           *)
(***************************************************************************)
LEMMA Stops ==
    ASSUME Control, NEW p \in Processes, Forget(p), head' = head,
           NEW next \in {"off", "idle"}, pc' = [pc EXCEPT ![p] = next]
    PROVE  /\ pc' \in [Processes -> Steps \cup {"off", "idle", "save", "saving"}]
           /\ executed' \in [Processes -> BOOLEAN] /\ state' \in [Processes -> Cursors]
           /\ current_block' \in [Processes -> Nat]
           /\ \A q \in Processes \ {p} :
                  /\ pc'[q] = pc[q] /\ executed'[q] = executed[q] /\ state'[q] = state[q]
                  /\ current_block'[q] = current_block[q]
           /\ pc'[p] = next /\ OnCourse(p)'
<1>1. Typed /\ NoState \in Cursors
    BY DEF Control, NoState, Cursors
<1>2. pc'[p] = next /\ executed'[p] = FALSE /\ current_block'[p] = 0
    BY <1>1 DEF Typed, Forget
<1>3. OnCourse(p)'
    BY <1>1, <1>2 DEF OnCourse, Syncing, Typed
<1> QED BY <1>1, <1>2, <1>3 DEF Typed, Forget

(***************************************************************************)
(* A step whose writes are done.                                           *)
(***************************************************************************)
LEMMA Writes ==
    ASSUME Control, NEW p \in Processes, pc[p] \in Steps, Executed(p), head' = head,
           writer = p => writer' = p
    PROVE  /\ pc' \in [Processes -> Steps \cup {"off", "idle", "save", "saving"}]
           /\ executed' \in [Processes -> BOOLEAN] /\ state' \in [Processes -> Cursors]
           /\ current_block' = current_block
           /\ \A q \in Processes \ {p} : /\ pc'[q] = pc[q] /\ executed'[q] = executed[q]
                                         /\ state'[q] = state[q]
           /\ \/ pc' = pc /\ state' = state /\ executed'[p] = TRUE /\ writer' = p
              \/ /\ pc'[p] = StepAfter(p) /\ state'[p] = CursorsAfter(p) /\ executed'[p] = FALSE
                 /\ writer' # p
           /\ pc'[p] \in Steps \cup {"save"} /\ OnCourse(p)'
<1>1. Typed /\ OnCourse(p) /\ current_block' = current_block
    BY DEF Control, Executed
<1>2. CASE writer' = p
    <2>1. executed' = [executed EXCEPT ![p] = TRUE] /\ pc' = pc /\ state' = state
        BY <1>2 DEF Executed
    <2>2. executed'[p] = TRUE
        BY <1>1, <2>1 DEF Typed
    <2>3. OnCourse(p)'
        BY <1>1, <1>2, <2>1, <2>2 DEF OnCourse, Syncing, core_from, pp_from, Later
    <2> QED BY <1>1, <1>2, <2>1, <2>2, <2>3 DEF Typed
<1>3. CASE writer' # p
    <2>1. NextStep(p)
        BY <1>3 DEF Executed
    <2> QED BY <1>1, <1>3, <2>1, GoesOn
<1> QED BY <1>2, <1>3

LEMMA CostsCount ==
    ASSUME Control, NEW n \in Nat, Costs(n)
    PROVE  faults' \in Nat /\ faults' = faults + n
    BY DEF Control, Typed, Costs

LEMMA MoveControl ==
    ASSUME Control, NEW p \in Processes, Launch(p) \/ Work(p) \/ Trouble(p)
    PROVE  /\ Control' /\ Alone(p)
           /\ faults' \in Nat /\ overlaps' \in Nat /\ faults <= faults' /\ overlaps <= overlaps'
<1> DEFINE Goal == /\ Control' /\ Alone(p)
                   /\ faults' \in Nat /\ overlaps' \in Nat /\ faults <= faults' /\ overlaps <= overlaps'
<1>1. Typed /\ OnCourse(p)
    BY DEF Control
<1>2. Steps = {"factory", "registry", "staking", "challenges", "core_state", "per_provider",
               "per_provider_state"}
    BY StepsAndNames DEF Steps
<1>3. CASE Launch(p)
    <2>1. /\ pc[p] = "off" /\ pc' = [pc EXCEPT ![p] = "idle"] /\ head' = head /\ file' = file
          /\ executed' = executed /\ state' = state /\ current_block' = current_block
          /\ faults' = faults /\ overlaps' = overlaps /\ writer' = writer
        BY <1>3 DEF Launch, database, locals
    <2>2. Typed' /\ Alone(p) /\ OnCourse(p)'
        BY <1>1, <1>2, <2>1 DEF Typed, Alone, OnCourse, Syncing
    <2>3. Control'
        BY <2>1, <2>2, OthersOnCourse
    <2> QED BY <1>1, <2>1, <2>2, <2>3 DEF Typed
<1>4. CASE Begin(p)
    <2>1. /\ pc[p] = "idle" /\ pc' = [pc EXCEPT ![p] = FirstStep(file, head)]
          /\ state' = [state EXCEPT ![p] = file]
          /\ current_block' = [current_block EXCEPT ![p] = head]
          /\ head' = head /\ file' = file /\ executed' = executed
          /\ faults' = faults /\ overlaps' \in {overlaps, overlaps + 1} /\ writer' = writer
        BY <1>4 DEF Begin, database
    <2>2. FirstStep(file, head) \in {"factory", "per_provider", "save"}
        BY DEF FirstStep
    <2>3. /\ pc'[p] = FirstStep(file, head) /\ state'[p] = file /\ current_block'[p] = head
          /\ executed'[p] = executed[p] /\ head \in Nat
          /\ file.core \in Int /\ file.per_provider \in Int /\ DeployBlock \in Nat
        BY <1>1, <2>1, IndexerAssumption DEF Typed, Cursors
    <2>4. Typed'
        BY <1>1, <1>2, <2>1, <2>2, <2>3 DEF Typed
    <2>5. Alone(p)
        BY <1>1, <2>1 DEF Typed, Alone
    <2>6. /\ FirstStep(file, head) # "factory" => core_from(file) > head
          /\ FirstStep(file, head) = "save" => pp_from(file) > head
        <3>1. /\ FirstStep(file, head) # "factory" => ~(core_from(file) <= head)
              /\ FirstStep(file, head) = "save" => ~(pp_from(file) <= head)
            BY DEF FirstStep
        <3>2. core_from(file) \in Int /\ pp_from(file) \in Int
            BY <2>3 DEF core_from, pp_from, Later
        <3> QED BY <2>3, <3>1, <3>2
    <2>7. ~executed[p]
        BY <1>1, <1>2, <2>1 DEF OnCourse
    <2>8. OnCourse(p)'
        <3>1. ~executed'[p] /\ current_block'[p] <= head' /\ state'[p] = file /\ head' = head
            BY <2>1, <2>3, <2>7
        <3>2. state'[p].core <= current_block'[p] /\ state'[p].per_provider <= current_block'[p]
            BY <2>3 DEF Control
        <3>3. pc'[p] # "factory" => core_from(state'[p]) > current_block'[p]
            BY <2>3, <2>6
        <3>4. pc'[p] \in {"save", "saving"} => pp_from(state'[p]) > current_block'[p]
            BY <2>2, <2>3, <2>6
        <3> QED BY <2>2, <2>3, <3>1, <3>2, <3>3, <3>4 DEF OnCourse
    <2>9. Control'
        BY <2>1, <2>4, <2>5, <2>8, OthersOnCourse
    <2> QED BY <1>1, <2>1, <2>5, <2>9 DEF Typed
<1> DEFINE Stopped == /\ Forget(p) /\ head' = head
                      /\ \E next \in {"off", "idle"} : pc' = [pc EXCEPT ![p] = next]
                      /\ \A q \in Processes \ {p} : writer = q => writer' = q
                      /\ faults' \in Nat /\ faults <= faults' /\ overlaps' = overlaps
                      /\ file' \in {file, Torn, state[p]} /\ (file' = state[p] => Syncing(p) \/ file' = file)
<1>5. ASSUME Stopped PROVE Goal
    <2>1. PICK next \in {"off", "idle"} : pc' = [pc EXCEPT ![p] = next]
        BY <1>5
    <2>2. /\ pc' \in [Processes -> Steps \cup {"off", "idle", "save", "saving"}]
          /\ executed' \in [Processes -> BOOLEAN] /\ state' \in [Processes -> Cursors]
          /\ current_block' \in [Processes -> Nat]
          /\ \A q \in Processes \ {p} :
                 /\ pc'[q] = pc[q] /\ executed'[q] = executed[q] /\ state'[q] = state[q]
                 /\ current_block'[q] = current_block[q]
          /\ OnCourse(p)'
        <3>1. Forget(p) /\ head' = head
            BY <1>5
        <3> QED BY <2>1, <3>1, Stops
    <2>3. Alone(p)
        BY <1>5, <2>2 DEF Alone
    <2>4. Torn \in Cursors /\ state[p] \in Cursors
        BY <1>1 DEF Torn, Cursors, Typed
    <2>5. Typed'
        BY <1>1, <1>5, <2>2, <2>4 DEF Typed
    <2>6. Control'
        BY <1>5, <2>2, <2>3, <2>5, OthersOnCourse
    <2> QED BY <1>1, <1>5, <2>3, <2>6 DEF Typed
<1>6. AfterSync(p) => Forget(p) /\ \E next \in {"off", "idle"} : pc' = [pc EXCEPT ![p] = next]
    BY DEF AfterSync
<1>7. faults \in Nat /\ overlaps \in Nat
    BY <1>1 DEF Typed
<1>8. CASE BeginFails(p)
    <2>1. Stopped
        BY <1>6, <1>7, <1>8, RollbackAlone DEF BeginFails, history
    <2> HIDE DEF Stopped, Goal
    <2> QED BY <1>5, <2>1 DEF Goal
<1>9. CASE FinishSave(p)
    <2>1. \A q \in Processes \ {p} : writer = q => writer' = q
        BY <1>9, RollbackAlone DEF FinishSave, database
    <2>2. Syncing(p) /\ file' = state[p] /\ AfterSync(p) /\ head' = head /\ faults' = faults /\ overlaps' = overlaps
        BY <1>9 DEF FinishSave, Syncing, history
    <2>3. Stopped
        BY <1>6, <1>7, <2>1, <2>2
    <2> HIDE DEF Stopped, Goal
    <2> QED BY <1>5, <2>3 DEF Goal
<1>10. ASSUME NEW step \in CoreSteps, RaiseInCore(p, step) PROVE Goal
    <2>1. \A q \in Processes \ {p} : writer = q => writer' = q
        <3>1. CASE p \in OneShots
            BY <1>10, <3>1, RollbackAlone DEF RaiseInCore
        <3>2. CASE p \notin OneShots
            <4>1. PICK written : Write(p, written, Processed(Conn(p), step, written, TRUE))
                BY <1>10, <3>2 DEF RaiseInCore
            <4> QED BY <4>1, WriteAlone
        <3> QED BY <3>1, <3>2
    <2>2. /\ Costs(1) /\ AfterSync(p) /\ head' = head /\ file' = file /\ overlaps' = overlaps
        BY <1>10 DEF RaiseInCore
    <2>3. faults' \in Nat /\ faults <= faults'
        BY <1>7, <2>2, CostsCount
    <2>4. Stopped
        BY <1>6, <2>1, <2>2, <2>3
    <2> HIDE DEF Stopped, Goal
    <2> QED BY <1>5, <2>4
<1>11. CASE DatabaseLocked(p)
    <2>1. /\ Costs(1) /\ AfterSync(p) /\ head' = head /\ file' = file /\ overlaps' = overlaps
          /\ writer' = writer
        BY <1>11 DEF DatabaseLocked, database
    <2>2. faults' \in Nat /\ faults <= faults'
        BY <1>7, <2>1, CostsCount
    <2>3. Stopped
        BY <1>6, <2>1, <2>2
    <2> HIDE DEF Stopped, Goal
    <2> QED BY <1>5, <2>3 DEF Goal
<1>12. CASE Crash(p)
    <2>1. /\ Costs(1) /\ Forget(p) /\ head' = head /\ file' = file /\ overlaps' = overlaps
          /\ Rollback(p) /\ pc' = [pc EXCEPT ![p] = "off"]
        BY <1>12 DEF Crash
    <2>2. faults' \in Nat /\ faults <= faults'
        BY <1>7, <2>1, CostsCount
    <2>3. Stopped
        BY <2>1, <2>2, RollbackAlone
    <2> HIDE DEF Stopped, Goal
    <2> QED BY <1>5, <2>3 DEF Goal
<1> DEFINE Wrote == /\ pc[p] \in Steps /\ Executed(p) /\ head' = head /\ file' = file
                    /\ \A q \in Processes \ {p} : writer = q => writer' = q
                    /\ writer = p => writer' = p
                    /\ faults' \in Nat /\ faults <= faults' /\ overlaps' = overlaps
<1>13. ASSUME Wrote PROVE Goal
    <2>1. /\ pc' \in [Processes -> Steps \cup {"off", "idle", "save", "saving"}]
          /\ executed' \in [Processes -> BOOLEAN] /\ state' \in [Processes -> Cursors]
          /\ current_block' = current_block
          /\ \A q \in Processes \ {p} : /\ pc'[q] = pc[q] /\ executed'[q] = executed[q]
                                        /\ state'[q] = state[q]
          /\ OnCourse(p)'
        <3>1. pc[p] \in Steps /\ Executed(p) /\ head' = head /\ (writer = p => writer' = p)
            BY <1>13
        <3> QED BY <3>1, Writes
    <2>2. Alone(p) /\ Typed'
        BY <1>1, <1>13, <2>1 DEF Alone, Typed
    <2>3. Control'
        BY <1>13, <2>1, <2>2, OthersOnCourse
    <2> QED BY <1>7, <1>13, <2>2, <2>3
<1>14. ASSUME NEW step \in CoreSteps, ExecuteCore(p, step) PROVE Goal
    <2>1. PICK readable \in BOOLEAN, lost \in {{}} \cup Lost(p, step) :
              LET events == Fetched(p, step, lost)
              IN  /\ Costs((IF readable THEN 0 ELSE 1) + (IF lost = {} THEN 0 ELSE 1))
                  /\ Write(p, events, Processed(Conn(p), step, events, readable))
        BY <1>14 DEF ExecuteCore
    <2> DEFINE n == (IF readable THEN 0 ELSE 1) + (IF lost = {} THEN 0 ELSE 1)
    <2>2. Costs(n) /\ n \in Nat
        BY <2>1
    <2> HIDE DEF n
    <2>3. faults' \in Nat /\ faults <= faults'
        BY <1>7, <2>2, CostsCount
    <2>4. /\ \A q \in Processes \ {p} : writer = q => writer' = q
          /\ writer = p => writer' = p
        BY <2>1, WriteAlone
    <2>5. pc[p] \in Steps /\ Executed(p) /\ head' = head /\ file' = file /\ overlaps' = overlaps
        BY <1>14 DEF ExecuteCore, Steps
    <2>6. Wrote
        BY <2>3, <2>4, <2>5
    <2> HIDE DEF Wrote, Goal
    <2> QED BY <1>13, <2>6
<1>15. ASSUME NEW step \in {"core_state", "per_provider_state"}, NEW table, ExecuteState(p, step, table)
       PROVE  Goal
    <2>1. /\ \A q \in Processes \ {p} : writer = q => writer' = q
          /\ writer = p => writer' = p
        BY <1>15, WriteAlone DEF ExecuteState
    <2>2. /\ pc[p] \in Steps /\ Executed(p) /\ head' = head /\ file' = file /\ overlaps' = overlaps
          /\ faults' = faults
        BY <1>2, <1>15 DEF ExecuteState, history
    <2>3. Wrote
        BY <1>7, <2>1, <2>2
    <2> HIDE DEF Wrote, Goal
    <2> QED BY <1>13, <2>3
<1>16. CASE ExecutePerProvider(p)
    <2>1. PICK lost, found :
              /\ Costs(IF lost = {} THEN 0 ELSE 1)
              /\ Write(p, found, RowsAppended(Conn(p), found))
        BY <1>16 DEF ExecutePerProvider
    <2> DEFINE n == IF lost = {} THEN 0 ELSE 1
    <2>2. Costs(n) /\ n \in Nat
        BY <2>1
    <2> HIDE DEF n
    <2>3. faults' \in Nat /\ faults <= faults'
        BY <1>7, <2>2, CostsCount
    <2>4. /\ \A q \in Processes \ {p} : writer = q => writer' = q
          /\ writer = p => writer' = p
        BY <2>1, WriteAlone
    <2>5. pc[p] \in Steps /\ Executed(p) /\ head' = head /\ file' = file /\ overlaps' = overlaps
        BY <1>2, <1>16 DEF ExecutePerProvider
    <2>6. Wrote
        BY <2>3, <2>4, <2>5
    <2> HIDE DEF Wrote, Goal
    <2> QED BY <1>13, <2>6 DEF Goal
<1>17. CASE Commit(p)
    <2>1. /\ executed[p] /\ NextStep(p) /\ head' = head /\ file' = file /\ current_block' = current_block
          /\ faults' = faults /\ overlaps' = overlaps
        BY <1>17 DEF Commit, history
    <2>2. pc[p] \in Steps /\ writer = p
        BY <1>1, <2>1 DEF OnCourse
    <2>3. \A q \in Processes \ {p} : writer = q => writer' = q
        BY <2>2
    <2>4. /\ pc' \in [Processes -> Steps \cup {"off", "idle", "save", "saving"}]
          /\ executed' \in [Processes -> BOOLEAN] /\ state' \in [Processes -> Cursors]
          /\ \A q \in Processes \ {p} : /\ pc'[q] = pc[q] /\ executed'[q] = executed[q]
                                        /\ state'[q] = state[q]
          /\ OnCourse(p)'
        BY <2>1, <2>2, GoesOn
    <2>5. Alone(p) /\ Typed'
        BY <1>1, <2>1, <2>3, <2>4 DEF Alone, Typed
    <2>6. Control'
        BY <2>1, <2>4, <2>5, OthersOnCourse
    <2> QED BY <1>7, <2>1, <2>5, <2>6
<1>18. CASE BeginSave(p)
    <2>1. /\ pc[p] = "save" /\ pc' = [pc EXCEPT ![p] = "saving"] /\ head' = head /\ file' = Torn
          /\ executed' = executed /\ state' = state /\ current_block' = current_block
          /\ faults' = faults /\ overlaps' = overlaps /\ writer' = writer
        BY <1>18 DEF BeginSave, database, locals, history
    <2>2. Typed' /\ Alone(p)
        BY <1>1, <2>1 DEF Typed, Alone, Torn, Cursors
    <2>3. pc'[p] = "saving" /\ ~executed[p]
        BY <1>1, <1>2, <2>1 DEF Typed, OnCourse
    <2>4. OnCourse(p)'
        BY <1>1, <2>1, <2>3 DEF OnCourse, Syncing, core_from, pp_from, Later
    <2>5. Control'
        <3>1. file' \in {file, Torn, state[p]} /\ Syncing(p)
            BY <2>1 DEF Syncing
        <3> QED BY <2>2, <2>4, <3>1, OthersOnCourse
    <2> QED BY <1>7, <2>1, <2>2, <2>5
<1> HIDE DEF Goal
<1> QED BY <1>3, <1>4, <1>8, <1>9, <1>10, <1>11, <1>12, <1>14, <1>15, <1>16, <1>17, <1>18
        DEF Work, Trouble, Goal

LEMMA StepControl == Control /\ [IndexerNext]_indexerVars => Control'
<1> SUFFICES ASSUME Control, [IndexerNext]_indexerVars PROVE Control'
    OBVIOUS
<1>1. CASE UNCHANGED indexerVars
    BY <1>1 DEF indexerVars, database, locals, history, Control, Typed, OnCourse, Syncing,
                core_from, pp_from, Later
<1>2. CASE Mine
    <2>1. /\ head' = head + 1 /\ file' = file /\ pc' = pc /\ executed' = executed /\ state' = state
          /\ current_block' = current_block /\ faults' = faults /\ overlaps' = overlaps
          /\ writer' = writer
        BY <1>2 DEF Mine, database, locals, history
    <2>2. Typed /\ Typed' /\ head \in Nat
        BY <2>1 DEF Control, Typed
    <2>3. file'.core <= head' /\ file'.per_provider <= head'
        BY <2>1, <2>2 DEF Control, Typed, Cursors
    <2>4. ASSUME NEW p \in Processes PROVE OnCourse(p)'
        <3>1. OnCourse(p) /\ current_block[p] \in Nat
            BY <2>2 DEF Control, Typed
        <3> QED BY <2>1, <2>2, <3>1 DEF OnCourse, Syncing, core_from, pp_from, Later
    <2> QED BY <2>2, <2>3, <2>4 DEF Control
<1>3. CASE \E p \in Processes : Launch(p) \/ Work(p) \/ Trouble(p)
    BY <1>3, MoveControl
<1> QED BY <1>1, <1>2, <1>3 DEF IndexerNext

LEMMA InitControl == IndexerInit => Control
<1> SUFFICES ASSUME IndexerInit PROVE Control
    OBVIOUS
<1>1. NoState \in Cursors /\ NoState.core = 0 /\ NoState.per_provider = 0
    BY DEF NoState, Cursors
<1>2. Typed
    BY <1>1 DEF IndexerInit, Typed
<1>3. ASSUME NEW p \in Processes PROVE OnCourse(p)
    BY DEF IndexerInit, OnCourse, Syncing
<1> QED BY <1>1, <1>2, <1>3 DEF Control, IndexerInit

-----------------------------------------------------------------------------
(***************************************************************************)
(* How often a row without a key is written.                               *)
(***************************************************************************)
LEMMA RowsBut ==
    ASSUME NEW d, Record(d), NEW v
    PROVE  /\ [d EXCEPT !.providers = v].rows = d.rows
           /\ [d EXCEPT !.endpoints = v].rows = d.rows
           /\ [d EXCEPT !.challenges = v].rows = d.rows
           /\ [d EXCEPT !.sync_state = v].rows = d.rows
    BY Changes

LEMMA ProcessRows ==
    ASSUME NEW step \in CoreSteps, NEW d, Good(d), NEW f \in Of(Names(step)), NEW readable,
           NEW e \in Appended
    PROVE  /\ step # "staking" => Len(Process(step, d, f, readable).rows[e]) = Len(d.rows[e])
           /\ f # e => Len(Process(step, d, f, readable).rows[e]) = Len(d.rows[e])
           /\ Len(Process(step, d, f, readable).rows[e]) <= Len(d.rows[e]) + 1
<1> DEFINE x == Process(step, d, f, readable)
<1>1. Record(d) /\ Len(d.rows[e]) \in Nat
    BY DEF Good, IsDb
<1>2. CASE step = "staking"
    <2>1. f \in Appended /\ x = AppendRow(d, f, NULL) /\ NULL \in Ids
        BY <1>2, StakingAppends DEF Process, Ids
    <2>2. Len(AppendRow(d, f, NULL).rows[e]) = Len(d.rows[e]) + (IF e = f THEN 1 ELSE 0)
        BY <2>1, AppendRowGood
    <2> DEFINE m == Len(d.rows[e])
               n == Len(AppendRow(d, f, NULL).rows[e])
    <2>3. m \in Nat /\ (e = f => n = m + 1) /\ (e # f => n = m + 0)
        BY <1>1, <2>2
    <2> HIDE DEF m, n
    <2>4. n <= m + 1 /\ (f # e => n = m)
        BY <2>3
    <2> HIDE DEF x
    <2> QED BY <1>2, <2>1, <2>4 DEF m, n, x
<1>3. CASE step # "staking"
    <2>1. x.rows = d.rows
        <3>1. CASE step = "factory"
            BY <1>1, <3>1, RowsBut DEF Process, InsertProvider
        <3>2. CASE step = "registry"
            BY <1>1, <3>2, RowsBut DEF Process, ProcessRegistry, UpdateProvider, ReplaceEndpoint
        <3>3. CASE step = "challenges"
            <4>1. x \in {InsertChallenge(d, f, readable), ResolveChallenge(d, f)}
                BY <3>3 DEF Process, ProcessChallenges
            <4>2. InsertChallenge(d, f, readable).rows = d.rows
                BY <1>1, RowsBut DEF InsertChallenge
            <4>3. ResolveChallenge(d, f).rows = d.rows
                <5> DEFINE table == [d.challenges EXCEPT ![Ev(f).id] =
                                        [d.challenges[Ev(f).id] EXCEPT !.status = Ev(f).result,
                                                                       !.resolved = f[1]]]
                <5>1. ResolveChallenge(d, f) = d \/ ResolveChallenge(d, f) = [d EXCEPT !.challenges = table]
                    BY DEF ResolveChallenge
                <5> HIDE DEF table
                <5>2. [d EXCEPT !.challenges = table].rows = d.rows
                    BY <1>1, RowsBut
                <5> QED BY <5>1, <5>2
            <4> QED BY <4>1, <4>2, <4>3
        <3> QED BY <1>3, <3>1, <3>2, <3>3, StepsAndNames
    <2> HIDE DEF x
    <2>2. Len(x.rows[e]) = Len(d.rows[e])
        BY <2>1
    <2> QED BY <1>1, <1>3, <2>2 DEF x
<1> QED BY <1>2, <1>3

\* An event is once among those of a step.
LEMMA LogOnce ==
    ASSUME NEW step \in CoreSteps, NEW k \in 1 .. Len(Logs[step]), NEW l \in 1 .. Len(Logs[step]),
           Logs[step][k] = Logs[step][l]
    PROVE  k = l
<1>1. ASSUME NEW e \in EventIds PROVE ~InOrder(step, e, e)
    <2> SUFFICES ASSUME InOrder(step, e, e) PROVE FALSE
        OBVIOUS
    <2>1. PICK i \in DOMAIN Fetches[step], j \in DOMAIN Fetches[step] :
              /\ Fetches[step][i] = Fetches[step][j]
              /\ i < j \/ ChainOrder(e, e)
        BY DEF InOrder
    <2>2. ~ChainOrder(e, e)
        BY HistoryAssumption DEF ChainOrder
    <2>3. i < j
        BY <2>1, <2>2
    <2>4. CASE step = "factory"
        BY <2>1, <2>3, <2>4 DEF Fetches
    <2>5. CASE step = "registry"
        BY <2>1, <2>3, <2>5 DEF Fetches
    <2>6. CASE step = "challenges"
        BY <2>1, <2>3, <2>6 DEF Fetches
    <2>7. CASE step = "staking"
        <3> DEFINE F == <<"Staked", "UnstakeRequested", "Withdrawn", "Slashed">>
        <3>1. i \in DOMAIN F /\ j \in DOMAIN F /\ F[i] = F[j]
            BY <2>1, <2>7 DEF Fetches
        <3>2. DOMAIN F = {1, 2, 3, 4}
            OBVIOUS
        <3> QED BY <2>3, <3>1, <3>2
    <2> QED BY <2>4, <2>5, <2>6, <2>7, StepsAndNames
<1>2. Logs[step][k] \in EventIds
    BY LogFacts
<1>3. ~(k < l) /\ ~(l < k)
    BY <1>1, <1>2, LogFacts
<1>4. Len(Logs[step]) \in Nat
    BY LogFacts
<1> QED BY <1>3, <1>4

LEMMA ProcessedRows ==
    ASSUME NEW step \in CoreSteps, NEW d, Good(d), NEW events, NEW readable, NEW e \in Appended
    PROVE  LET x == Processed(d, step, events, readable)
           IN  /\ step # "staking" \/ e \notin events => Len(x.rows[e]) = Len(d.rows[e])
               /\ Len(x.rows[e]) <= Len(d.rows[e]) + 1
<1> DEFINE N == Len(Logs[step])
           base == Len(d.rows[e])
<1>1. PICK after : /\ after[0] = d /\ after[N] = Processed(d, step, events, readable)
                   /\ \A n \in 1 .. N : after[n] = Next1(after[n - 1], step, events, readable, n)
    BY FoldSteps
<1>2. /\ N \in Nat
      /\ \A n \in 1 .. N : Logs[step][n] \in Of(Names(step))
    BY LogFacts, OfTypes
<1>3. base \in Nat
    BY DEF Good, IsDb
<1> DEFINE len(n) == Len(after[n].rows[e])
           Counts(n) == step = "staking" /\ e \in events /\ Logs[step][n] = e
           G == {n \in 0 .. N : /\ Good(after[n])
                                /\ len(n) = base \/ (len(n) = base + 1 /\ \E m \in 1 .. n : Counts(m))}
<1>4. 0 \in G
    BY <1>1, <1>2
<1>5. ASSUME NEW n \in 1 .. N, n - 1 \in G
      PROVE  n \in G
    <2> DEFINE c == after[n - 1]
    <2>1. /\ Good(c) /\ after[n] = Next1(c, step, events, readable, n)
          /\ len(n - 1) = base \/ (len(n - 1) = base + 1 /\ \E m \in 1 .. n - 1 : Counts(m))
        BY <1>1, <1>5
    <2>2. CASE Logs[step][n] \in events
        <3>1. after[n] = Process(step, c, Logs[step][n], readable)
            BY <2>1, <2>2 DEF Next1
        <3>2. /\ Good(after[n])
              /\ step # "staking" => len(n) = len(n - 1)
              /\ Logs[step][n] # e => len(n) = len(n - 1)
              /\ len(n) <= len(n - 1) + 1 /\ len(n - 1) <= len(n)
              /\ len(n - 1) \in Nat /\ len(n) \in Nat
            <4> DEFINE f == Logs[step][n]
            <4>1. f \in Of(Names(step))
                BY <1>2
            <4> HIDE DEF c, f
            <4>2. /\ Good(Process(step, c, f, readable)) /\ Keeps(c, Process(step, c, f, readable))
                BY <2>1, <4>1, ProcessGood
            <4>3. /\ step # "staking" => Len(Process(step, c, f, readable).rows[e]) = Len(c.rows[e])
                  /\ f # e => Len(Process(step, c, f, readable).rows[e]) = Len(c.rows[e])
                  /\ Len(Process(step, c, f, readable).rows[e]) <= Len(c.rows[e]) + 1
                BY <2>1, <4>1, ProcessRows
            <4>4. Len(c.rows[e]) \in Nat /\ Len(Process(step, c, f, readable).rows[e]) \in Nat
                BY <2>1, <4>2 DEF Good, IsDb
            <4>5. Len(c.rows[e]) <= Len(Process(step, c, f, readable).rows[e])
                BY <4>2 DEF Keeps
            <4>6. after[n] = Process(step, c, f, readable)
                BY <3>1 DEF f
            <4> QED BY <4>2, <4>3, <4>4, <4>5, <4>6 DEF c, f
        <3> HIDE DEF len, base
        <3>3. CASE len(n) = len(n - 1)
            <4>1. len(n) = base \/ (len(n) = base + 1 /\ \E m \in 1 .. n - 1 : Counts(m))
                BY <2>1, <3>3
            <4>2. \A m \in 1 .. n - 1 : m \in 1 .. n
                BY <1>2
            <4> QED BY <1>2, <3>2, <4>1, <4>2
        <3>4. CASE len(n) # len(n - 1)
            <4>1. len(n) = len(n - 1) + 1 /\ Counts(n)
                BY <2>2, <3>2, <3>4
            <4>2. ~\E m \in 1 .. n - 1 : Counts(m)
                <5> SUFFICES ASSUME NEW m \in 1 .. n - 1, Counts(m) PROVE FALSE
                    OBVIOUS
                <5>1. m \in 1 .. N /\ n \in 1 .. N /\ m # n
                    BY <1>2
                <5> QED BY <4>1, <5>1, LogOnce
            <4>3. len(n - 1) = base
                BY <2>1, <4>2
            <4>4. n \in 1 .. n
                BY <1>2
            <4> QED BY <1>2, <3>2, <4>1, <4>3, <4>4
        <3> QED BY <3>3, <3>4
    <2>3. CASE Logs[step][n] \notin events
        <3>1. after[n] = c
            BY <2>1, <2>3 DEF Next1
        <3>2. \A m \in 1 .. n - 1 : m \in 1 .. n
            BY <1>2
        <3> QED BY <1>2, <2>1, <3>1, <3>2
    <2> QED BY <2>2, <2>3
<1>6. N \in G
    <2> HIDE DEF G, N
    <2> QED BY <1>2, <1>4, <1>5, Reaches
<1> HIDE DEF base
<1>7. /\ step # "staking" \/ e \notin events => len(N) = base
      /\ len(N) <= base + 1
    BY <1>3, <1>6
<1> QED BY <1>1, <1>7 DEF base

(***************************************************************************)
(* An account of the rows of one event.  A sync that has yet to come to    *)
(* the event will write a row, and a sync may begin that reads it, when    *)
(* the cursor it starts from, or the one it may find in the file, is       *)
(* before the event.                                                       *)
(***************************************************************************)
IsStaking(e) == Ev(e).type \in Names("staking")

StepOf(e) == IF IsStaking(e) THEN "staking" ELSE "per_provider"

CursorOf(s, e) == IF IsStaking(e) THEN s.core ELSE s.per_provider

StepsBefore(e) ==
    IF IsStaking(e) THEN {"factory", "registry"} ELSE CoreSteps \cup {"core_state"}

Pending(p, e) ==
    /\ CursorOf(state[p], e) < e[1] /\ e[1] <= current_block[p]
    /\ pc[p] \in StepsBefore(e) \/ (pc[p] = StepOf(e) /\ ~executed[p])

Unread(e) ==
    \/ \E p \in Processes : Syncing(p) /\ current_block[p] < e[1]
    \/ (\A p \in Processes : ~Syncing(p)) /\ CursorOf(file, e) < e[1]

Written(e) == Len(view.rows[e])

ToWrite(e) == Cardinality({p \in Processes : Pending(p, e)})

ToBegin(e) == IF Unread(e) THEN 1 ELSE 0

InAccount(e) ==
    /\ e[1] > head => Written(e) = 0
    /\ Written(e) + ToWrite(e) + ToBegin(e) <= 1 + faults + overlaps

Account == \A e \in Appended : InAccount(e)

LEMMA OneMoves ==
    ASSUME NEW S, NEW T, NEW p, IsFiniteSet(S), T \ {p} = S \ {p}
    PROVE  /\ Cardinality(S) \in Nat /\ Cardinality(T) \in Nat
           /\ (p \in S <=> p \in T) => Cardinality(T) = Cardinality(S)
           /\ p \in S /\ p \notin T => Cardinality(T) = Cardinality(S) - 1
           /\ p \notin S /\ p \in T => Cardinality(T) = Cardinality(S) + 1
<1>1. IsFiniteSet(S \ {p}) /\ IsFiniteSet(T \ {p})
    BY FS_RemoveElement
<1>2. IsFiniteSet(T)
    <2>1. T = T \ {p} \/ T = (T \ {p}) \cup {p}
        OBVIOUS
    <2> QED BY <1>1, <2>1, FS_AddElement
<1>3. Cardinality(S) \in Nat /\ Cardinality(T) \in Nat
    BY <1>2, FS_CardinalityType
<1>4. CASE p \in S <=> p \in T
    <2>1. S = T
        BY <1>4
    <2> QED BY <1>3, <1>4, <2>1
<1>5. CASE p \in S /\ p \notin T
    <2>1. T = S \ {p}
        BY <1>5
    <2> QED BY <1>3, <1>5, <2>1, FS_RemoveElement
<1>6. CASE p \notin S /\ p \in T
    <2>1. T = S \cup {p}
        BY <1>6
    <2> QED BY <1>3, <1>6, <2>1, FS_AddElement
<1> QED BY <1>4, <1>5, <1>6

LEMMA ToWriteMoves ==
    ASSUME NEW p \in Processes, Alone(p), NEW e
    PROVE  /\ ToWrite(e) \in Nat /\ ToWrite(e)' \in Nat
           /\ (Pending(p, e) <=> Pending(p, e)') => ToWrite(e)' = ToWrite(e)
           /\ Pending(p, e) /\ ~Pending(p, e)' => ToWrite(e)' = ToWrite(e) - 1
           /\ ~Pending(p, e) /\ Pending(p, e)' => ToWrite(e)' = ToWrite(e) + 1
<1> DEFINE S == {q \in Processes : Pending(q, e)}
           T == {q \in Processes : Pending(q, e)'}
<1>1. \A q \in Processes \ {p} : Pending(q, e)' <=> Pending(q, e)
    BY DEF Alone, Pending
<1>2. IsFiniteSet(Processes) /\ IsFiniteSet(S)
    <2>1. S \subseteq Processes
        OBVIOUS
    <2> QED BY <2>1, IndexerAssumption, FS_Subset
<1>3. T \ {p} = S \ {p}
    BY <1>1
<1>4. /\ p \in S <=> Pending(p, e)
      /\ p \in T <=> Pending(p, e)'
    OBVIOUS
<1>5. ToWrite(e) = Cardinality(S) /\ ToWrite(e)' = Cardinality(T)
    BY DEF ToWrite
<1> HIDE DEF S, T
<1> QED BY <1>2, <1>3, <1>4, <1>5, OneMoves

LEMMA WrittenNat == DatabaseInv => \A e \in Appended : Written(e) \in Nat
    BY DEF DatabaseInv, Good, IsDb, Written

LEMMA EventBlocks == \A e \in EventIds : e[1] \in Nat /\ e[1] >= DeployBlock
    BY HistoryAssumption

LEMMA AppendedEvents == Appended \subseteq EventIds
    BY OfTypes DEF Appended

(***************************************************************************)
(* The account through a step of a sync, its end and its beginning.        *)
(***************************************************************************)
LEMMA GoesOnInAccount ==
    ASSUME Control, Control', DatabaseInv, DatabaseInv', NEW p \in Processes, Alone(p),
           pc[p] \in Steps \cup {"save"}, pc'[p] \in Steps \cup {"save", "saving"},
           current_block'[p] = current_block[p],
           NEW e \in Appended, InAccount(e),
           Pending(p, e)' => Pending(p, e) /\ pc[p] # StepOf(e),
           \/ Written(e)' = Written(e)
           \/ Written(e)' <= Written(e) + 1 /\ Pending(p, e) /\ pc[p] = StepOf(e),
           faults <= faults', overlaps <= overlaps'
    PROVE  InAccount(e)'
<1>1. /\ faults \in Nat /\ faults' \in Nat /\ overlaps \in Nat /\ overlaps' \in Nat
      /\ Written(e) \in Nat /\ Written(e)' \in Nat /\ ToWrite(e) \in Nat /\ ToWrite(e)' \in Nat
    <2>1. \A f \in Appended : Written(f)' \in Nat
        BY DEF DatabaseInv, Good, IsDb, Written
    <2> QED BY <2>1, WrittenNat, ToWriteMoves DEF Control, Typed
<1>2. Unread(e)' <=> Unread(e)
    <2>1. Syncing(p) /\ Syncing(p)'
        BY StepsAndNames DEF Syncing, Steps
    <2>2. \A q \in Processes : /\ Syncing(q)' <=> Syncing(q)
                               /\ current_block'[q] = current_block[q]
        BY <2>1 DEF Alone, Syncing
    <2> QED BY <2>1, <2>2 DEF Unread
<1>3. ToBegin(e)' = ToBegin(e) /\ ToBegin(e) \in Nat
    BY <1>2 DEF ToBegin
<1>4. Written(e)' + ToWrite(e)' <= Written(e) + ToWrite(e)
    <2>1. CASE Written(e)' = Written(e)
        BY <1>1, <2>1, ToWriteMoves
    <2>2. CASE Written(e)' <= Written(e) + 1 /\ Pending(p, e) /\ pc[p] = StepOf(e)
        <3>1. ToWrite(e)' = ToWrite(e) - 1
            BY <2>2, ToWriteMoves
        <3> QED BY <1>1, <2>2, <3>1
    <2> QED BY <2>1, <2>2
<1>5. e[1] > head' => Written(e)' = 0
    <2>1. CASE Written(e)' = Written(e)
        BY <2>1 DEF InAccount, Alone
    <2>2. CASE Pending(p, e)
        <3>1. e[1] <= current_block[p] /\ current_block[p] <= head /\ head' = head
            BY <2>2 DEF Pending, Alone, Control, OnCourse
        <3>2. e[1] \in Nat /\ current_block[p] \in Nat /\ head \in Nat
            BY EventBlocks, AppendedEvents DEF Control, Typed
        <3> QED BY <3>1, <3>2
    <2> QED BY <2>1, <2>2
<1>6. Written(e) + ToWrite(e) + ToBegin(e) <= 1 + faults + overlaps
    BY DEF InAccount
<1>7. Written(e)' + ToWrite(e)' + ToBegin(e)' <= 1 + faults' + overlaps'
    BY <1>1, <1>3, <1>4, <1>6
<1> QED BY <1>5, <1>7 DEF InAccount

LEMMA StopsInAccount ==
    ASSUME Control, Control', DatabaseInv, DatabaseInv', NEW p \in Processes, Alone(p),
           pc'[p] \in {"off", "idle"}, NEW e \in Appended, InAccount(e),
           \/ Written(e)' <= Written(e)
           \/ Written(e)' <= Written(e) + 1 /\ Pending(p, e),
           \/ faults' = faults + 1
           \/ faults <= faults' /\ Written(e)' <= Written(e) /\ (Unread(e)' => Unread(e)),
           overlaps <= overlaps'
    PROVE  InAccount(e)'
<1>1. /\ faults \in Nat /\ faults' \in Nat /\ overlaps \in Nat /\ overlaps' \in Nat
      /\ Written(e) \in Nat /\ Written(e)' \in Nat /\ ToWrite(e) \in Nat /\ ToWrite(e)' \in Nat
    <2>1. \A f \in Appended : Written(f)' \in Nat
        BY DEF DatabaseInv, Good, IsDb, Written
    <2> QED BY <2>1, WrittenNat, ToWriteMoves DEF Control, Typed
<1>2. ~Pending(p, e)'
    BY StepsAndNames DEF Pending, StepsBefore, StepOf
<1>3. /\ ToBegin(e) \in {0, 1} /\ ToBegin(e)' \in {0, 1}
      /\ (Unread(e)' => Unread(e)) => ToBegin(e)' <= ToBegin(e)
    BY DEF ToBegin
<1>4. Written(e)' + ToWrite(e)' <= Written(e) + ToWrite(e)
    <2>1. CASE Written(e)' <= Written(e)
        BY <1>1, <1>2, <2>1, ToWriteMoves
    <2>2. CASE Written(e)' <= Written(e) + 1 /\ Pending(p, e)
        <3>1. ToWrite(e)' = ToWrite(e) - 1
            BY <1>2, <2>2, ToWriteMoves
        <3> QED BY <1>1, <2>2, <3>1
    <2> QED BY <2>1, <2>2
<1>5. e[1] > head' => Written(e)' = 0
    <2>1. CASE Written(e)' <= Written(e)
        <3>1. e[1] > head => Written(e) = 0
            BY DEF InAccount
        <3> QED BY <1>1, <2>1, <3>1 DEF Alone
    <2>2. CASE Pending(p, e)
        <3>1. e[1] <= current_block[p] /\ current_block[p] <= head /\ head' = head
            BY <2>2 DEF Pending, Alone, Control, OnCourse
        <3>2. e[1] \in Nat /\ current_block[p] \in Nat /\ head \in Nat
            BY EventBlocks, AppendedEvents DEF Control, Typed
        <3> QED BY <3>1, <3>2
    <2> QED BY <2>1, <2>2
<1>6. Written(e) + ToWrite(e) + ToBegin(e) <= 1 + faults + overlaps
    BY DEF InAccount
<1>7. Written(e)' + ToWrite(e)' + ToBegin(e)' <= 1 + faults' + overlaps'
    <2>1. CASE faults' = faults + 1
        BY <1>1, <1>3, <1>4, <1>6, <2>1
    <2>2. CASE faults <= faults' /\ (Unread(e)' => Unread(e))
        <3>1. ToBegin(e)' <= ToBegin(e)
            BY <1>3, <2>2
        <3> QED BY <1>1, <1>3, <1>4, <1>6, <2>2, <3>1
    <2> QED BY <2>1, <2>2
<1> QED BY <1>5, <1>7 DEF InAccount

LEMMA BeginsInAccount ==
    ASSUME Control, Control', DatabaseInv, DatabaseInv', NEW p \in Processes, Alone(p), Begin(p),
           NEW e \in Appended, InAccount(e)
    PROVE  InAccount(e)'
<1>1. /\ faults \in Nat /\ overlaps \in Nat /\ overlaps' \in Nat
      /\ Written(e) \in Nat /\ ToWrite(e) \in Nat /\ ToWrite(e)' \in Nat
      /\ e[1] \in Nat /\ head \in Nat /\ e[1] >= DeployBlock /\ DeployBlock \in Nat
    BY WrittenNat, ToWriteMoves, EventBlocks, AppendedEvents, IndexerAssumption DEF Control, Typed
<1>2. /\ pc[p] = "idle" /\ pc'[p] = FirstStep(file, head) /\ state'[p] = file
      /\ current_block'[p] = head /\ head' = head /\ faults' = faults
      /\ Written(e)' = Written(e) /\ file' = file
    BY DEF Begin, Control, Typed, Written, database
<1>3. overlaps' = IF pc'[p] # "save" /\ (\E q \in Processes \ {p} : Syncing(q))
                  THEN overlaps + 1 ELSE overlaps
    BY DEF Begin
<1>4. FirstStep(file, head) \in {"factory", "per_provider", "save"}
    BY DEF FirstStep
<1>5. ~Pending(p, e) /\ ~Syncing(p) /\ Syncing(p)'
    BY <1>2, <1>4, StepsAndNames DEF Pending, StepsBefore, StepOf, Syncing
<1>6. \A q \in Processes \ {p} : /\ Syncing(q)' <=> Syncing(q)
                                 /\ current_block'[q] = current_block[q]
    BY DEF Alone, Syncing
<1>7. ToBegin(e) \in {0, 1} /\ ToBegin(e)' \in {0, 1}
    BY DEF ToBegin
<1>8. Written(e) + ToWrite(e) + ToBegin(e) <= 1 + faults + overlaps
    BY DEF InAccount
<1>9. e[1] > head' => Written(e)' = 0
    BY <1>2 DEF InAccount
<1>10. Written(e)' + ToWrite(e)' + ToBegin(e)' <= 1 + faults' + overlaps'
    <2>1. CASE e[1] > head
        <3>1. Written(e) = 0 /\ ~Pending(p, e)'
            BY <1>1, <1>2, <2>1 DEF InAccount, Pending
        <3>2. {q \in Processes : Pending(q, e)'} = {}
            <4> SUFFICES ASSUME NEW q \in Processes, Pending(q, e)' PROVE FALSE
                OBVIOUS
            <4>1. e[1] <= current_block'[q] /\ current_block'[q] <= head /\ current_block'[q] \in Nat
                BY <1>2 DEF Pending, Control, OnCourse, Typed
            <4> QED BY <1>1, <2>1, <4>1
        <3>3. ToWrite(e)' = 0
            BY <3>2, FS_EmptySet DEF ToWrite
        <3> QED BY <1>1, <1>2, <1>3, <1>7, <3>1, <3>3
    <2>2. CASE ~(e[1] > head) /\ Pending(p, e)'
        <3>1. CursorOf(file, e) < e[1]
            BY <1>2, <2>2 DEF Pending
        <3>2. pc'[p] # "save"
            BY <2>2, StepsAndNames DEF Pending, StepsBefore, StepOf
        <3>3. ToWrite(e)' = ToWrite(e) + 1
            BY <1>5, <2>2, ToWriteMoves
        <3>4. ~(current_block'[p] < e[1])
            BY <1>1, <1>2, <2>2
        <3>5. CASE \E q \in Processes \ {p} : Syncing(q)
            <4>1. overlaps' = overlaps + 1
                BY <1>3, <3>2, <3>5
            <4>2. Unread(e)' => Unread(e)
                BY <1>5, <1>6, <3>4 DEF Unread
            <4>3. ToBegin(e)' <= ToBegin(e)
                BY <4>2 DEF ToBegin
            <4> QED BY <1>1, <1>2, <1>7, <1>8, <3>3, <4>1, <4>3
        <3>6. CASE ~\E q \in Processes \ {p} : Syncing(q)
            <4>1. overlaps' = overlaps
                BY <1>3, <3>6
            <4>2. Unread(e) /\ ~Unread(e)'
                BY <1>5, <1>6, <3>1, <3>4, <3>6 DEF Unread
            <4>3. ToBegin(e) = 1 /\ ToBegin(e)' = 0
                BY <4>2 DEF ToBegin
            <4> QED BY <1>1, <1>2, <1>8, <3>3, <4>1, <4>3
        <3> QED BY <3>5, <3>6
    <2>3. CASE ~(e[1] > head) /\ ~Pending(p, e)'
        <3>1. ToWrite(e)' = ToWrite(e)
            BY <1>5, <2>3, ToWriteMoves
        <3>2. ~(current_block'[p] < e[1])
            BY <1>1, <1>2, <2>3
        <3>3. Unread(e)' => Unread(e)
            BY <1>5, <1>6, <3>2 DEF Unread
        <3>4. ToBegin(e)' <= ToBegin(e)
            BY <3>3 DEF ToBegin
        <3>5. overlaps <= overlaps'
            BY <1>1, <1>3
        <3> QED BY <1>1, <1>2, <1>7, <1>8, <3>1, <3>4, <3>5
    <2> QED BY <2>1, <2>2, <2>3
<1> QED BY <1>9, <1>10 DEF InAccount

LEMMA Forward ==
    ASSUME Control, NEW p \in Processes, NEW e \in Appended, pc[p] \in Steps,
           current_block'[p] = current_block[p],
           \/ pc'[p] = pc[p] /\ state'[p] = state[p] /\ executed'[p] = TRUE
           \/ pc'[p] = StepAfter(p) /\ state'[p] = CursorsAfter(p)
    PROVE  Pending(p, e)' => Pending(p, e) /\ pc[p] # StepOf(e)
<1> SUFFICES ASSUME Pending(p, e)' PROVE Pending(p, e) /\ pc[p] # StepOf(e)
    OBVIOUS
<1>1. Steps = {"factory", "registry", "staking", "challenges", "core_state", "per_provider",
               "per_provider_state"}
    BY StepsAndNames DEF Steps
<1>2. /\ CursorOf(state'[p], e) < e[1] /\ e[1] <= current_block[p]
      /\ pc'[p] \in StepsBefore(e) \/ (pc'[p] = StepOf(e) /\ ~executed'[p])
    BY DEF Pending
<1>3. CASE pc'[p] = pc[p] /\ state'[p] = state[p] /\ executed'[p] = TRUE
    <2>1. pc[p] \in StepsBefore(e) /\ CursorOf(state[p], e) < e[1]
        BY <1>2, <1>3
    <2>2. pc[p] # StepOf(e)
        BY <2>1, StepsAndNames DEF StepsBefore, StepOf
    <2> QED BY <1>2, <2>1, <2>2 DEF Pending
<1>4. CASE pc'[p] = StepAfter(p) /\ state'[p] = CursorsAfter(p)
    <2>1. pc'[p] \in StepsBefore(e) \cup {StepOf(e)}
        BY <1>2
    <2>2. CASE IsStaking(e)
        <3>1. pc'[p] \in {"factory", "registry", "staking"}
            BY <2>1, <2>2 DEF StepsBefore, StepOf
        <3>2. pc[p] \in {"factory", "registry"}
            BY <1>1, <1>4, <3>1 DEF StepAfter
        <3>3. state'[p] = state[p]
            BY <1>4, <3>2 DEF CursorsAfter
        <3> QED BY <1>2, <2>2, <3>2, <3>3 DEF Pending, StepsBefore, StepOf
    <2>3. CASE ~IsStaking(e)
        <3>1. pc'[p] \in {"factory", "registry", "staking", "challenges", "core_state", "per_provider"}
            BY <2>1, <2>3, StepsAndNames DEF StepsBefore, StepOf
        <3>2. pc[p] \in {"factory", "registry", "staking", "challenges", "core_state"}
            BY <1>1, <1>4, <3>1 DEF StepAfter
        <3>3. state'[p].per_provider = state[p].per_provider
            <4>1. state[p] \in Cursors
                BY DEF Control, Typed
            <4> QED BY <1>4, <3>2, <4>1 DEF CursorsAfter, Cursors
        <3> QED BY <1>2, <2>3, <3>2, <3>3, StepsAndNames DEF Pending, StepsBefore, StepOf, CursorOf
    <2> QED BY <2>2, <2>3
<1> QED BY <1>3, <1>4

LEMMA WriteView ==
    ASSUME DatabaseInv, NEW p \in Processes, NEW events, NEW d, Write(p, events, d)
    PROVE  \/ view' = view
           \/ events # {} /\ view' = d /\ Conn(p) = view
    BY DEF Write, Locked, database, Conn, DatabaseInv

LEMMA RollbackWritten ==
    ASSUME DatabaseInv, NEW p, Rollback(p), NEW e \in Appended
    PROVE  Written(e)' <= Written(e)
<1>1. Len(db.rows[e]) <= Len(view.rows[e]) /\ Len(view.rows[e]) \in Nat
    BY DEF DatabaseInv, Good, IsDb, Keeps
<1>2. view' = db \/ view' = view
    BY DEF Rollback
<1> QED BY <1>1, <1>2 DEF Written

\* An event a process has before it, within its blocks.
LEMMA WithinRange ==
    ASSUME Control, NEW p \in Processes, NEW e \in EventIds
    PROVE  /\ e[1] \in core_from(state[p]) .. current_block[p] <=>
                  state[p].core < e[1] /\ e[1] <= current_block[p]
           /\ e[1] \in pp_from(state[p]) .. current_block[p] <=>
                  state[p].per_provider < e[1] /\ e[1] <= current_block[p]
<1>1. /\ e[1] \in Nat /\ e[1] >= DeployBlock /\ DeployBlock \in Nat /\ current_block[p] \in Nat
      /\ state[p].core \in Int /\ state[p].per_provider \in Int
    BY EventBlocks, IndexerAssumption DEF Control, Typed, Cursors
<1> QED BY <1>1 DEF core_from, pp_from, Later

LEMMA Typing == \A e \in Appended : /\ IsStaking(e) => e \in Of(Names("staking"))
                                    /\ ~IsStaking(e) => e \in Of({"Distributed", "Claimed"})
<1> SUFFICES ASSUME NEW e \in Appended
             PROVE  /\ IsStaking(e) => e \in Of(Names("staking"))
                    /\ ~IsStaking(e) => e \in Of({"Distributed", "Claimed"})
    OBVIOUS
<1>1. e \in EventIds /\ Ev(e).type \in AppendedTypes
    BY OfTypes DEF Appended
<1> QED BY <1>1, OfTypes, StepsAndNames DEF IsStaking, AppendedTypes

LEMMA MoveAccount ==
    ASSUME Control, DatabaseInv, NEW p \in Processes, Launch(p) \/ Work(p) \/ Trouble(p),
           DatabaseInv', NEW e \in Appended, InAccount(e)
    PROVE  InAccount(e)'
<1>1. /\ Control' /\ Alone(p) /\ Typed /\ OnCourse(p)
      /\ faults' \in Nat /\ overlaps' \in Nat /\ faults <= faults' /\ overlaps <= overlaps'
    BY MoveControl DEF Control
<1>2. Steps = {"factory", "registry", "staking", "challenges", "core_state", "per_provider",
               "per_provider_state"}
    BY StepsAndNames DEF Steps
<1>3. Written(e) \in Nat /\ e \in EventIds
    BY WrittenNat, AppendedEvents
<1>4. CASE Launch(p)
    <2>1. /\ pc[p] = "off" /\ pc'[p] = "idle" /\ view' = view /\ file' = file
          /\ current_block' = current_block
        BY <1>1, <1>4 DEF Launch, database, locals, Typed
    <2>2. Written(e)' <= Written(e)
        BY <1>3, <2>1 DEF Written
    <2>3. Unread(e)' => Unread(e)
        <3>1. \A q \in Processes : Syncing(q)' <=> Syncing(q)
            BY <1>1, <2>1 DEF Alone, Syncing
        <3> QED BY <2>1, <3>1 DEF Unread
    <2> QED BY <1>1, <2>1, <2>2, <2>3, StopsInAccount
<1>5. CASE Begin(p)
    BY <1>1, <1>5, BeginsInAccount
<1>6. CASE BeginFails(p)
    <2>1. pc[p] = "idle" /\ pc'[p] \in {"off", "idle"} /\ file' = file /\ Rollback(p)
        BY <1>1, <1>6 DEF BeginFails, AfterSync, Typed
    <2>2. Written(e)' <= Written(e)
        BY <2>1, RollbackWritten
    <2>3. Unread(e)' => Unread(e)
        <3>1. \A q \in Processes : Syncing(q)' <=> Syncing(q)
            BY <1>1, <2>1 DEF Alone, Syncing
        <3>2. \A q \in Processes : Syncing(q) => current_block'[q] = current_block[q]
            BY <1>1, <2>1 DEF Alone, Syncing
        <3> QED BY <2>1, <3>1, <3>2 DEF Unread
    <2> QED BY <1>1, <2>1, <2>2, <2>3, StopsInAccount
<1> DEFINE Moved == \/ pc'[p] = pc[p] /\ state'[p] = state[p] /\ executed'[p] = TRUE
                    \/ pc'[p] = StepAfter(p) /\ state'[p] = CursorsAfter(p)
<1>7. ASSUME pc[p] \in Steps, pc'[p] \in Steps \cup {"save"}, Moved, current_block' = current_block,
             \/ Written(e)' = Written(e)
             \/ Written(e)' <= Written(e) + 1 /\ Pending(p, e) /\ pc[p] = StepOf(e)
      PROVE  InAccount(e)'
    <2>1. Pending(p, e)' => Pending(p, e) /\ pc[p] # StepOf(e)
        BY <1>7, Forward
    <2> QED BY <1>1, <1>7, <2>1, GoesOnInAccount
<1>8. ASSUME pc[p] \in Steps, Executed(p), NEW events, NEW d, Write(p, events, d)
      PROVE  /\ pc'[p] \in Steps \cup {"save"} /\ Moved /\ current_block' = current_block
    <2>1. head' = head /\ (writer = p => writer' = p)
        BY <1>1, <1>8, WriteAlone DEF Alone
    <2> QED BY <1>8, <2>1, Writes
<1> HIDE DEF Moved
<1>9. ASSUME NEW step \in CoreSteps, ExecuteCore(p, step) PROVE InAccount(e)'
    <2>1. PICK readable \in BOOLEAN, lost \in {{}} \cup Lost(p, step) :
              LET events == Fetched(p, step, lost)
              IN  Write(p, events, Processed(Conn(p), step, events, readable))
        BY <1>9 DEF ExecuteCore
    <2> DEFINE events == Fetched(p, step, lost)
               d == Processed(Conn(p), step, events, readable)
    <2>2. Write(p, events, d) /\ pc[p] = step /\ ~executed[p] /\ Executed(p) /\ pc[p] \in Steps
        BY <1>9, <2>1 DEF ExecuteCore, Steps
    <2>3. \/ Written(e)' = Written(e)
          \/ Written(e)' <= Written(e) + 1 /\ Pending(p, e) /\ pc[p] = StepOf(e)
        <3>1. CASE view' = view
            BY <3>1 DEF Written
        <3>2. CASE view' = d /\ Conn(p) = view
            <4>1. Good(view)
                BY DEF DatabaseInv
            <4>2. /\ step # "staking" \/ e \notin events => Len(d.rows[e]) = Len(view.rows[e])
                  /\ Len(d.rows[e]) <= Len(view.rows[e]) + 1
                <5> HIDE DEF events
                <5> QED BY <3>2, <4>1, ProcessedRows
            <4>3. step = "staking" /\ e \in events => Pending(p, e) /\ pc[p] = StepOf(e)
                <5> SUFFICES ASSUME step = "staking", e \in events
                             PROVE  Pending(p, e) /\ pc[p] = StepOf(e)
                    OBVIOUS
                <5>1. e \in Of(Names("staking")) /\ e[1] \in core_from(state[p]) .. current_block[p]
                    BY DEF Fetched
                <5>2. IsStaking(e) /\ state[p].core < e[1] /\ e[1] <= current_block[p]
                    BY <1>3, <5>1, OfTypes, WithinRange DEF IsStaking
                <5> QED BY <2>2, <5>2 DEF Pending, CursorOf, StepOf
            <4> HIDE DEF d
            <4> QED BY <3>2, <4>2, <4>3 DEF Written
        <3> QED BY <2>2, <3>1, <3>2, WriteView
    <2> HIDE DEF events, d
    <2>4. pc'[p] \in Steps \cup {"save"} /\ Moved /\ current_block' = current_block
        BY <1>8, <2>2
    <2> QED BY <1>7, <2>2, <2>3, <2>4
<1>10. ASSUME NEW step \in {"core_state", "per_provider_state"}, NEW table, ExecuteState(p, step, table)
       PROVE  InAccount(e)'
    <2> DEFINE d == [Conn(p) EXCEPT !.sync_state[table] = current_block[p]]
    <2>1. Write(p, {step}, d) /\ Executed(p) /\ pc[p] \in Steps
        BY <1>2, <1>10 DEF ExecuteState
    <2>2. Written(e)' = Written(e)
        <3>1. Conn(p) = view => d.rows = view.rows
            <4> DEFINE v == [view.sync_state EXCEPT ![table] = current_block[p]]
            <4>1. Conn(p) = view => d = [view EXCEPT !.sync_state = v]
                OBVIOUS
            <4>2. Record(view)
                BY DEF DatabaseInv, Good, IsDb
            <4> HIDE DEF v, d
            <4>3. [view EXCEPT !.sync_state = v].rows = view.rows
                BY <4>2, RowsBut
            <4> QED BY <4>1, <4>3
        <3> HIDE DEF d
        <3> QED BY <2>1, <3>1, WriteView DEF Written
    <2> HIDE DEF d
    <2>3. pc'[p] \in Steps \cup {"save"} /\ Moved /\ current_block' = current_block
        BY <1>8, <2>1
    <2> QED BY <1>7, <2>1, <2>2, <2>3
<1>11. CASE ExecutePerProvider(p)
    <2> DEFINE due == InRange(p, Of({"Distributed", "Claimed"}))
    <2>1. PICK lost : LET found == {f \in due \ lost : RowsOf(Conn(p), f) # {}}
                      IN  Write(p, found, RowsAppended(Conn(p), found))
        BY <1>11 DEF ExecutePerProvider
    <2> DEFINE found == {f \in due \ lost : RowsOf(Conn(p), f) # {}}
               d == RowsAppended(Conn(p), found)
    <2>2. /\ Write(p, found, d) /\ pc[p] = "per_provider" /\ ~executed[p] /\ Executed(p)
          /\ pc[p] \in Steps /\ \A f \in found : RowsOf(Conn(p), f) # {}
        BY <1>2, <1>11, <2>1 DEF ExecutePerProvider
    <2>3. \/ Written(e)' = Written(e)
          \/ Written(e)' <= Written(e) + 1 /\ Pending(p, e) /\ pc[p] = StepOf(e)
        <3>1. CASE view' = view
            BY <3>1 DEF Written
        <3>2. CASE view' = d /\ Conn(p) = view
            <4>1. e \in found => Pending(p, e) /\ pc[p] = StepOf(e)
                <5> SUFFICES ASSUME e \in found PROVE Pending(p, e) /\ pc[p] = StepOf(e)
                    OBVIOUS
                <5>1. e \in Of({"Distributed", "Claimed"}) /\ e[1] \in pp_from(state[p]) .. current_block[p]
                    BY DEF InRange
                <5>2. ~IsStaking(e)
                    BY <5>1, OfTypes, StepsAndNames DEF IsStaking
                <5>3. state[p].per_provider < e[1] /\ e[1] <= current_block[p]
                    BY <1>3, <5>1, WithinRange
                <5> QED BY <2>2, <5>2, <5>3 DEF Pending, CursorOf, StepOf
            <4> HIDE DEF found
            <4>2. Len(d.rows[e]) = Len(view.rows[e]) + (IF e \in found THEN 1 ELSE 0)
                <5>1. Good(view) /\ \A f \in found : RowsOf(view, f) # {}
                    BY <2>2, <3>2 DEF DatabaseInv
                <5>2. Len(RowsAppended(view, found).rows[e]) =
                          Len(view.rows[e]) + (IF e \in found THEN 1 ELSE 0)
                    <6>1. OneMoreOf(view, RowsAppended(view, found), found)
                        BY <5>1, RowsAppendedGood
                    <6> QED BY <6>1 DEF OneMoreOf
                <5> QED BY <3>2, <5>2
            <4> HIDE DEF d
            <4>3. Written(e)' = Written(e) + (IF e \in found THEN 1 ELSE 0)
                BY <3>2, <4>2 DEF Written
            <4>4. CASE e \in found
                <5>1. Written(e)' = Written(e) + 1
                    BY <4>3, <4>4
                <5> QED BY <1>3, <4>1, <4>4, <5>1
            <4>5. CASE e \notin found
                <5>1. Written(e)' = Written(e) + 0
                    BY <4>3, <4>5
                <5> QED BY <1>3, <5>1
            <4> QED BY <4>4, <4>5
        <3> QED BY <2>2, <3>1, <3>2, WriteView
    <2> HIDE DEF found, d
    <2>4. pc'[p] \in Steps \cup {"save"} /\ Moved /\ current_block' = current_block
        BY <1>8, <2>2
    <2> QED BY <1>7, <2>2, <2>3, <2>4
<1>12. CASE Commit(p)
    <2>1. /\ executed[p] /\ NextStep(p) /\ current_block' = current_block /\ head' = head /\ view' = view
        BY <1>12 DEF Commit
    <2>2. pc[p] \in Steps
        BY <1>1, <2>1 DEF OnCourse
    <2>3. /\ pc'[p] \in Steps \cup {"save"}
          /\ pc'[p] = StepAfter(p) /\ state'[p] = CursorsAfter(p)
        BY <2>1, <2>2, GoesOn
    <2>4. Written(e)' = Written(e)
        BY <2>1 DEF Written
    <2>5. Moved
        BY <2>3 DEF Moved
    <2> QED BY <1>7, <2>1, <2>2, <2>3, <2>4, <2>5
<1>13. CASE BeginSave(p)
    <2>1. pc[p] = "save" /\ pc'[p] = "saving" /\ view' = view /\ current_block' = current_block
        BY <1>1, <1>13 DEF BeginSave, Typed, database, locals
    <2>2. Written(e)' = Written(e)
        BY <2>1 DEF Written
    <2>3. ~Pending(p, e)'
        BY <2>1, StepsAndNames DEF Pending, StepsBefore, StepOf
    <2> QED BY <1>1, <2>1, <2>2, <2>3, GoesOnInAccount
<1>14. CASE FinishSave(p)
    <2>1. pc[p] = "saving" /\ pc'[p] \in {"off", "idle"} /\ file' = state[p]
        BY <1>1, <1>14 DEF FinishSave, AfterSync, Typed
    <2>2. Written(e)' <= Written(e)
        BY <1>3, <1>14, RollbackWritten DEF FinishSave, database, Written
    <2>3. Unread(e)' => Unread(e)
        <3> SUFFICES ASSUME Unread(e)', ~Unread(e) PROVE FALSE
            OBVIOUS
        <3>1. Syncing(p) /\ ~(current_block[p] < e[1])
            BY <2>1 DEF Unread, Syncing
        <3>2. \A q \in Processes \ {p} : /\ Syncing(q)' <=> Syncing(q)
                                         /\ current_block'[q] = current_block[q]
            BY <1>1 DEF Alone, Syncing
        <3>3. ~Syncing(p)'
            BY <2>1 DEF Syncing
        <3>4. CursorOf(state[p], e) < e[1]
            BY <2>1, <3>2, <3>3 DEF Unread
        <3>5. core_from(state[p]) > current_block[p] /\ pp_from(state[p]) > current_block[p]
            BY <1>1, <2>1 DEF OnCourse
        <3>6. /\ e[1] \in Nat /\ e[1] >= DeployBlock /\ DeployBlock \in Nat /\ current_block[p] \in Nat
              /\ state[p].core \in Int /\ state[p].per_provider \in Int
            BY <1>1, <1>3, EventBlocks, IndexerAssumption DEF Typed, Cursors
        <3> QED BY <3>1, <3>4, <3>5, <3>6 DEF core_from, pp_from, Later, CursorOf
    <2> QED BY <1>1, <2>1, <2>2, <2>3, StopsInAccount
<1>15. ASSUME NEW step \in CoreSteps, RaiseInCore(p, step) PROVE InAccount(e)'
    <2>1. /\ pc[p] = step /\ ~executed[p] /\ Costs(1) /\ pc'[p] \in {"off", "idle"}
        BY <1>1, <1>15 DEF RaiseInCore, AfterSync, Typed
    <2>2. faults' = faults + 1
        BY <2>1, CostsCount
    <2>3. Written(e)' <= Written(e) \/ (Written(e)' <= Written(e) + 1 /\ Pending(p, e))
        <3>1. CASE p \in OneShots
            BY <1>15, <3>1, RollbackWritten DEF RaiseInCore
        <3>2. CASE p \notin OneShots
            <4> DEFINE events == Fetched(p, step, {})
            <4>1. PICK n \in 0 .. Len(Logs[step]) :
                      LET written == events \cap {Logs[step][k] : k \in 1 .. n}
                      IN  Write(p, written, Processed(Conn(p), step, written, TRUE))
                BY <1>15, <3>2 DEF RaiseInCore
            <4> DEFINE written == events \cap {Logs[step][k] : k \in 1 .. n}
                       d == Processed(Conn(p), step, written, TRUE)
            <4>2. Write(p, written, d)
                BY <4>1
            <4>3. CASE view' = view
                BY <1>3, <4>3 DEF Written
            <4>4. CASE view' = d /\ Conn(p) = view
                <5>1. /\ step # "staking" \/ e \notin written => Len(d.rows[e]) = Len(view.rows[e])
                      /\ Len(d.rows[e]) <= Len(view.rows[e]) + 1
                    <6> HIDE DEF written
                    <6>1. Good(view) /\ d = Processed(view, step, written, TRUE)
                        BY <4>4 DEF DatabaseInv
                    <6> DEFINE x == Processed(view, step, written, TRUE)
                    <6>2. /\ step # "staking" \/ e \notin written => Len(x.rows[e]) = Len(view.rows[e])
                          /\ Len(x.rows[e]) <= Len(view.rows[e]) + 1
                        BY <6>1, ProcessedRows, Zenon
                    <6> HIDE DEF d, x
                    <6> QED BY <6>1, <6>2 DEF x
                <5>2. step = "staking" /\ e \in written => Pending(p, e)
                    <6> SUFFICES ASSUME step = "staking", e \in written PROVE Pending(p, e)
                        OBVIOUS
                    <6>1. e \in Of(Names("staking")) /\ e[1] \in core_from(state[p]) .. current_block[p]
                        BY DEF Fetched
                    <6>2. IsStaking(e) /\ state[p].core < e[1] /\ e[1] <= current_block[p]
                        BY <1>3, <6>1, OfTypes, WithinRange DEF IsStaking
                    <6> QED BY <2>1, <6>2 DEF Pending, CursorOf, StepOf
                <5> HIDE DEF d
                <5> QED BY <1>3, <4>4, <5>1, <5>2 DEF Written
            <4> QED BY <4>2, <4>3, <4>4, WriteView
        <3> QED BY <3>1, <3>2
    <2> QED BY <1>1, <2>1, <2>2, <2>3, StopsInAccount
<1>16. CASE DatabaseLocked(p)
    <2>1. Costs(1) /\ pc'[p] \in {"off", "idle"} /\ view' = view
        BY <1>1, <1>16 DEF DatabaseLocked, AfterSync, Typed, database
    <2>2. faults' = faults + 1
        BY <2>1, CostsCount
    <2>3. Written(e)' <= Written(e)
        BY <1>3, <2>1 DEF Written
    <2> QED BY <1>1, <2>1, <2>2, <2>3, StopsInAccount
<1>17. CASE Crash(p)
    <2>1. Costs(1) /\ pc'[p] \in {"off", "idle"} /\ Rollback(p)
        BY <1>1, <1>17 DEF Crash, Typed
    <2>2. faults' = faults + 1
        BY <2>1, CostsCount
    <2>3. Written(e)' <= Written(e)
        BY <2>1, RollbackWritten
    <2> QED BY <1>1, <2>1, <2>2, <2>3, StopsInAccount
<1> QED BY <1>4, <1>5, <1>6, <1>9, <1>10, <1>11, <1>12, <1>13, <1>14, <1>15, <1>16, <1>17
        DEF Work, Trouble

LEMMA StepAccount ==
    Control /\ DatabaseInv /\ Account /\ [IndexerNext]_indexerVars => Account'
<1> SUFFICES ASSUME Control, DatabaseInv, Account, [IndexerNext]_indexerVars,
                    NEW e \in Appended
             PROVE  InAccount(e)'
    BY DEF Account
<1>1. InAccount(e) /\ DatabaseInv'
    BY StepDatabase DEF Account
<1>2. CASE UNCHANGED indexerVars
    BY <1>1, <1>2 DEF indexerVars, database, locals, history, InAccount, Written, ToWrite, ToBegin,
                      Unread, Pending, Syncing
<1>3. CASE Mine
    <2>1. /\ head' = head + 1 /\ view' = view /\ pc' = pc /\ executed' = executed /\ state' = state
          /\ current_block' = current_block /\ file' = file /\ faults' = faults /\ overlaps' = overlaps
        BY <1>3 DEF Mine, database, locals, history
    <2>2. e[1] \in Nat /\ head \in Nat
        BY AppendedEvents, EventBlocks DEF Control, Typed
    <2>3. e[1] > head' => e[1] > head
        BY <2>1, <2>2
    <2> QED BY <1>1, <2>1, <2>3 DEF InAccount, Written, ToWrite, ToBegin, Unread, Pending, Syncing
<1>4. CASE \E p \in Processes : Launch(p) \/ Work(p) \/ Trouble(p)
    BY <1>1, <1>4, MoveAccount
<1> QED BY <1>2, <1>3, <1>4 DEF IndexerNext

LEMMA InitAccount == IndexerInit => Account
<1> SUFFICES ASSUME IndexerInit, NEW e \in Appended PROVE InAccount(e)
    BY DEF Account
<1>1. Written(e) = 0
    BY DEF IndexerInit, EmptyDb, Written
<1>2. ToWrite(e) = 0
    <2>1. {p \in Processes : Pending(p, e)} = {}
        BY StepsAndNames DEF IndexerInit, Pending, StepsBefore, StepOf
    <2> QED BY <2>1, FS_EmptySet DEF ToWrite
<1>3. ToBegin(e) \in {0, 1}
    BY DEF ToBegin
<1> QED BY <1>1, <1>2, <1>3 DEF InAccount, IndexerInit

(***************************************************************************)
(* No event has more rows than failures, kills and overlapping syncs       *)
(* explain, whatever the processes did in between.                         *)
(***************************************************************************)
THEOREM DuplicatesAreExplained == IndexerSpec => []DuplicatesHaveCause
<1>1. Control /\ DatabaseInv /\ Account => DuplicatesHaveCause
    <2> SUFFICES ASSUME Control, DatabaseInv, Account, NEW e \in Appended
                 PROVE  Len(db.rows[e]) <= 1 + faults + overlaps
        BY DEF DuplicatesHaveCause
    <2>1. Written(e) + ToWrite(e) + ToBegin(e) <= 1 + faults + overlaps
        BY DEF Account, InAccount
    <2>2. Len(db.rows[e]) <= Written(e) /\ Len(db.rows[e]) \in Nat /\ Written(e) \in Nat
        BY WrittenNat DEF DatabaseInv, Keeps, Good, IsDb, Written
    <2>3. ToWrite(e) \in Nat
        <3>1. IsFiniteSet({p \in Processes : Pending(p, e)})
            <4>1. {p \in Processes : Pending(p, e)} \subseteq Processes
                OBVIOUS
            <4> QED BY <4>1, IndexerAssumption, FS_Subset
        <3> QED BY <3>1, FS_CardinalityType DEF ToWrite
    <2>4. ToBegin(e) \in Nat /\ faults \in Nat /\ overlaps \in Nat
        BY DEF ToBegin, Control, Typed
    <2> QED BY <2>1, <2>2, <2>3, <2>4
<1>2. DatabaseInv /\ [IndexerNext]_indexerVars => DatabaseInv'
    BY StepDatabase
<1> QED BY <1>1, <1>2, InitDatabase, InitControl, StepControl, InitAccount, StepAccount, PTL
        DEF IndexerSpec

-----------------------------------------------------------------------------
(***************************************************************************)
(* What a step makes of an event it has.  A registration needs the row of  *)
(* its deployment, a verdict that of its challenge, which may be among the *)
(* events of the same step, before the verdicts.                           *)
(***************************************************************************)
Ready(d, events, e) ==
    /\ Ev(e).type = "ProviderRegistered" =>
           \E f \in Of({"ProviderDeployed"}) \ WithoutRow : Ev(f).tx = Ev(e).tx /\ Held(d, f)
    /\ Ev(e).type = "ChallengeResolved" =>
           \/ Ev(e).id \in DOMAIN d.challenges
           \/ \E f \in Of({"ChallengeOpened"}) \cap events : Ev(f).id = Ev(e).id

LEMMA AppendedHave == \A e \in Appended : e \in EventIds /\ Ev(e).type \in AppendedTypes
    BY OfTypes DEF Appended

LEMMA InsertProviderHolds ==
    ASSUME NEW d, Good(d), NEW e \in Of({"ProviderDeployed"}) \ WithoutRow
    PROVE  Held(InsertProvider(d, e), e)
<1> DEFINE row == [id |-> NULL, owner |-> Ev(e).recipient, share |-> Ev(e).share, tx |-> Ev(e).tx]
           rows == Append(d.providers, row)
           x == [d EXCEPT !.providers = rows]
<1>1. Ev(e).type = "ProviderDeployed" /\ e \notin Appended
    BY OfTypes, AppendedHave DEF AppendedTypes
<1>2. Record(d) /\ d.providers \in Seq(ProviderRow)
    BY DEF Good, IsDb
<1>3. CASE \E i \in DOMAIN d.providers : d.providers[i].tx = Ev(e).tx
    <2>1. PICK i \in DOMAIN d.providers : d.providers[i].tx = Ev(e).tx
        BY <1>3
    <2>2. PICK f \in Of({"ProviderDeployed"}) : /\ Ev(f).tx = d.providers[i].tx
                                                /\ Ev(f).share = d.providers[i].share
        BY DEF Good, Caused, Deployed
    <2>3. f = e
        BY <2>1, <2>2, OfTypes DEF WithoutRow
    <2>4. InsertProvider(d, e) = d
        BY <1>3 DEF InsertProvider
    <2> QED BY <1>1, <2>1, <2>2, <2>3, <2>4 DEF Held
<1>4. CASE ~\E i \in DOMAIN d.providers : d.providers[i].tx = Ev(e).tx
    <2>1. InsertProvider(d, e) = x
        BY <1>4 DEF InsertProvider
    <2>2. row.tx = Ev(e).tx /\ row.share = Ev(e).share
        OBVIOUS
    <2> HIDE DEF row
    <2>3. Len(d.providers) + 1 \in DOMAIN rows /\ rows[Len(d.providers) + 1] = row
        BY <1>2
    <2> HIDE DEF rows
    <2>4. x.providers = rows
        BY <1>2, Changes
    <2> HIDE DEF x
    <2> QED BY <1>1, <2>1, <2>2, <2>3, <2>4 DEF Held
<1> QED BY <1>3, <1>4

LEMMA UpdateProviderHolds ==
    ASSUME NEW d, Good(d), NEW e \in Of({"ProviderRegistered"}), NEW events, Ready(d, events, e)
    PROVE  Held(UpdateProvider(d, e), e)
<1> DEFINE rows == [i \in DOMAIN d.providers |->
                       IF d.providers[i].tx = Ev(e).tx
                       THEN [d.providers[i] EXCEPT !.id = Ev(e).id, !.owner = Ev(e).owner]
                       ELSE d.providers[i]]
<1>1. Ev(e).type = "ProviderRegistered" /\ e \notin Appended
    BY OfTypes, AppendedHave DEF AppendedTypes
<1>2. Record(d) /\ d.providers \in Seq(ProviderRow)
    BY DEF Good, IsDb
<1>3. UpdateProvider(d, e) = [d EXCEPT !.providers = rows]
    BY DEF UpdateProvider
<1>4. PICK f \in Of({"ProviderDeployed"}) : Ev(f).tx = Ev(e).tx /\ Held(d, f)
    BY <1>1 DEF Ready
<1>5. PICK i \in DOMAIN d.providers : d.providers[i].tx = Ev(e).tx
    BY <1>4, OfTypes DEF Held
<1>6. /\ i \in DOMAIN rows /\ rows[i].tx = Ev(e).tx
      /\ rows[i].id = Ev(e).id /\ rows[i].owner = Ev(e).owner
    <2>1. d.providers[i] \in ProviderRow
        BY <1>2, <1>5
    <2> QED BY <1>5, <2>1 DEF ProviderRow
<1> HIDE DEF rows
<1>7. [d EXCEPT !.providers = rows].providers = rows
    BY <1>2, Changes
<1> QED BY <1>1, <1>3, <1>6, <1>7 DEF Held

LEMMA TablesHold ==
    ASSUME NEW d, Good(d), NEW events, NEW readable
    PROVE  /\ \A e \in Of({"EndpointRegistered"}) : Held(ReplaceEndpoint(d, e, readable), e)
           /\ \A e \in Of({"ChallengeOpened"}) : Held(InsertChallenge(d, e, readable), e)
           /\ \A e \in Of({"ChallengeResolved"}) :
                 Ev(e).id \in DOMAIN d.challenges => Held(ResolveChallenge(d, e), e)
           /\ \A e \in Appended : Held(AppendRow(d, e, NULL), e)
<1>1. Record(d)
    BY DEF Good, IsDb
<1>2. ASSUME NEW e \in Of({"EndpointRegistered"}) PROVE Held(ReplaceEndpoint(d, e, readable), e)
    <2> DEFINE row == [provider_id |-> ProviderIdOf(d, Ev(e).provider), owner |-> Ev(e).provider,
                       hash |-> IF readable THEN HashNow(Ev(e).endpoint) ELSE 0, block |-> e[1]]
               table == Put(d.endpoints, Ev(e).endpoint, row)
    <2>1. ReplaceEndpoint(d, e, readable) = [d EXCEPT !.endpoints = table]
        BY DEF ReplaceEndpoint
    <2> HIDE DEF row
    <2>2. Ev(e).endpoint \in DOMAIN table
        BY DEF Put
    <2> HIDE DEF table
    <2>3. [d EXCEPT !.endpoints = table].endpoints = table
        BY <1>1, Changes
    <2>4. Ev(e).type = "EndpointRegistered" /\ e \notin Appended
        BY OfTypes, AppendedHave DEF AppendedTypes
    <2> QED BY <2>1, <2>2, <2>3, <2>4 DEF Held
<1>3. ASSUME NEW e \in Of({"ChallengeOpened"}) PROVE Held(InsertChallenge(d, e, readable), e)
    <2> DEFINE table == Put(d.challenges, Ev(e).id, NewChallenge(e, readable))
    <2>1. Ev(e).id \in DOMAIN table
        BY DEF Put
    <2>2. \/ Ev(e).id \in DOMAIN d.challenges /\ InsertChallenge(d, e, readable) = d
          \/ InsertChallenge(d, e, readable) = [d EXCEPT !.challenges = table]
        BY DEF InsertChallenge
    <2> HIDE DEF table
    <2>3. [d EXCEPT !.challenges = table].challenges = table
        BY <1>1, Changes
    <2>4. Ev(e).type = "ChallengeOpened" /\ e \notin Appended
        BY OfTypes, AppendedHave DEF AppendedTypes
    <2> QED BY <2>1, <2>2, <2>3, <2>4 DEF Held
<1>4. ASSUME NEW e \in Of({"ChallengeResolved"}), Ev(e).id \in DOMAIN d.challenges
      PROVE  Held(ResolveChallenge(d, e), e)
    <2> DEFINE key == Ev(e).id
               row == [d.challenges[key] EXCEPT !.status = Ev(e).result, !.resolved = e[1]]
               table == [d.challenges EXCEPT ![key] = row]
    <2>1. ResolveChallenge(d, e) = [d EXCEPT !.challenges = table]
        BY <1>4 DEF ResolveChallenge
    <2>2. row.status = Ev(e).result
        BY <1>4 DEF Good, IsDb
    <2> HIDE DEF row
    <2>3. key \in DOMAIN table /\ table[key].status = Ev(e).result
        BY <1>4, <2>2
    <2> HIDE DEF table
    <2>4. [d EXCEPT !.challenges = table].challenges = table
        BY <1>1, Changes
    <2>5. Ev(e).type = "ChallengeResolved" /\ e \notin Appended
        BY OfTypes, AppendedHave DEF AppendedTypes
    <2> QED BY <2>1, <2>3, <2>4, <2>5 DEF Held
<1>5. ASSUME NEW e \in Appended PROVE Held(AppendRow(d, e, NULL), e)
    <2> DEFINE x == AppendRow(d, e, NULL)
    <2>1. \A f \in Appended : Len(x.rows[f]) = Len(d.rows[f]) + (IF f = e THEN 1 ELSE 0)
        <3>1. NULL \in Ids
            BY DEF Ids
        <3> QED BY <3>1, AppendRowGood
    <2> HIDE DEF x
    <2>2. Len(x.rows[e]) # 0
        <3>1. Len(x.rows[e]) = Len(d.rows[e]) + 1
            BY <2>1
        <3>2. Len(d.rows[e]) \in Nat
            BY DEF Good, IsDb
        <3> QED BY <3>1, <3>2
    <2>3. Ev(e).type \in AppendedTypes
        BY AppendedHave
    <2>4. Held(x, e)
        BY <2>2, <2>3 DEF Held, AppendedTypes
    <2> QED BY <2>4 DEF x
<1> QED BY <1>2, <1>3, <1>4, <1>5

LEMMA ProcessHolds ==
    ASSUME NEW step \in CoreSteps, NEW d, Good(d), NEW e \in Of(Names(step)) \ WithoutRow,
           NEW readable, Ready(d, {}, e)
    PROVE  Held(Process(step, d, e, readable), e)
<1>1. e \in EventIds /\ Ev(e).type \in Names(step)
    BY OfTypes
<1>2. CASE step = "factory"
    <2>1. e \in Of({"ProviderDeployed"}) /\ Process(step, d, e, readable) = InsertProvider(d, e)
        BY <1>2, StepsAndNames DEF Process
    <2> QED BY <2>1, InsertProviderHolds
<1>3. CASE step = "registry"
    <2>1. Process(step, d, e, readable) = ProcessRegistry(d, e, readable)
        BY <1>3 DEF Process
    <2>2. CASE Ev(e).type = "ProviderRegistered"
        <3>1. e \in Of({"ProviderRegistered"})
            BY <1>1, <2>2, OfTypes
        <3> QED BY <2>1, <2>2, <3>1, UpdateProviderHolds DEF ProcessRegistry
    <2>3. CASE Ev(e).type # "ProviderRegistered"
        <3>1. e \in Of({"EndpointRegistered"})
            BY <1>1, <1>3, <2>3, StepsAndNames, OfTypes
        <3> QED BY <2>1, <2>3, <3>1, TablesHold DEF ProcessRegistry
    <2> QED BY <2>2, <2>3
<1>4. CASE step = "staking"
    <2>1. e \in Appended /\ Process(step, d, e, readable) = AppendRow(d, e, NULL)
        BY <1>4, StakingAppends DEF Process
    <2> QED BY <2>1, TablesHold
<1>5. CASE step = "challenges"
    <2>1. Process(step, d, e, readable) = ProcessChallenges(d, e, readable)
        BY <1>5 DEF Process
    <2>2. CASE Ev(e).type = "ChallengeOpened"
        <3>1. e \in Of({"ChallengeOpened"})
            BY <1>1, <2>2, OfTypes
        <3> QED BY <2>1, <2>2, <3>1, TablesHold DEF ProcessChallenges
    <2>3. CASE Ev(e).type # "ChallengeOpened"
        <3>1. e \in Of({"ChallengeResolved"})
            BY <1>1, <1>5, <2>3, StepsAndNames, OfTypes
        <3>2. Ev(e).id \in DOMAIN d.challenges
            BY <3>1, OfTypes DEF Ready
        <3> QED BY <2>1, <2>3, <3>1, <3>2, TablesHold DEF ProcessChallenges
    <2> QED BY <2>2, <2>3
<1> QED BY <1>2, <1>3, <1>4, <1>5, StepsAndNames

\* The challenges of a step come before its verdicts.
LEMMA OpenedFirst ==
    ASSUME NEW k \in 1 .. Len(Logs["challenges"]), NEW l \in 1 .. Len(Logs["challenges"]),
           Ev(Logs["challenges"][k]).type = "ChallengeOpened",
           Ev(Logs["challenges"][l]).type = "ChallengeResolved"
    PROVE  k < l
<1> DEFINE e == Logs["challenges"][k]
           f == Logs["challenges"][l]
<1>1. "challenges" \in CoreSteps
    BY StepsAndNames
<1>2. ~InOrder("challenges", f, e)
    <2> SUFFICES ASSUME InOrder("challenges", f, e) PROVE FALSE
        OBVIOUS
    <2>1. Fetches["challenges"] = <<"ChallengeOpened", "ChallengeResolved">>
        BY DEF Fetches
    <2>2. PICK i \in {1, 2}, j \in {1, 2} :
              /\ Ev(f).type = <<"ChallengeOpened", "ChallengeResolved">>[i]
              /\ Ev(e).type = <<"ChallengeOpened", "ChallengeResolved">>[j]
              /\ i < j \/ i = j
        BY <2>1 DEF InOrder
    <2> QED BY <2>2
<1>3. ~(l < k) /\ k # l
    BY <1>1, <1>2, LogFacts
<1>4. Len(Logs["challenges"]) \in Nat
    BY <1>1, LogFacts
<1> QED BY <1>3, <1>4

LEMMA ProcessedHolds ==
    ASSUME NEW step \in CoreSteps, NEW d, Good(d), NEW events, NEW readable,
           NEW e \in (Of(Names(step)) \cap events) \ WithoutRow, Ready(d, events, e)
    PROVE  Held(Processed(d, step, events, readable), e)
<1> DEFINE N == Len(Logs[step])
           L == Logs[step]
<1>1. PICK after : /\ after[0] = d /\ after[N] = Processed(d, step, events, readable)
                   /\ \A n \in 1 .. N : after[n] = Next1(after[n - 1], step, events, readable, n)
    BY FoldSteps
<1>2. /\ N \in Nat
      /\ \A n \in 1 .. N : L[n] \in Of(Names(step)) /\ L[n] \in EventIds
      /\ \A f \in Of(Names(step)) : \E n \in 1 .. N : L[n] = f
    BY LogFacts, OfTypes
\* The challenge a verdict needs, when it is one of the events.
<1> DEFINE Opening(f) == f \in Of({"ChallengeOpened"}) \cap events /\ Ev(f).id = Ev(e).id
           ReadyNow(n) == \/ Ready(after[n], {}, e)
                          \/ /\ step = "challenges"
                             /\ \E m \in n + 1 .. N : Opening(L[m])
           G == {n \in 0 .. N : /\ Good(after[n])
                                /\ (\E m \in 1 .. n : L[m] = e) => Held(after[n], e)
                                /\ ReadyNow(n)}
<1>3. e \in EventIds /\ Ev(e).type \in Names(step)
    BY OfTypes
<1>4. 0 \in G
    <2>1. ReadyNow(0)
        <3>1. CASE Ready(d, {}, e)
            BY <1>1, <3>1
        <3>2. CASE ~Ready(d, {}, e)
            <4>1. PICK f \in Of({"ChallengeOpened"}) \cap events :
                      Ev(e).type = "ChallengeResolved" /\ Ev(f).id = Ev(e).id
                BY <3>2 DEF Ready
            <4>2. step = "challenges"
                BY <1>3, <4>1, StepsAndNames
            <4>3. f \in Of(Names(step))
                BY <4>1, <4>2, StepsAndNames, OfTypes
            <4>4. PICK m \in 1 .. N : L[m] = f
                BY <1>2, <4>3
            <4>5. m \in 0 + 1 .. N /\ Opening(L[m])
                BY <1>2, <4>1, <4>4
            <4> QED BY <4>2, <4>5
        <3> QED BY <3>1, <3>2
    <2> QED BY <1>1, <1>2, <2>1
<1>5. ASSUME NEW n \in 1 .. N, n - 1 \in G
      PROVE  n \in G
    <2> DEFINE c == after[n - 1]
               x == after[n]
    <2>1. /\ Good(c) /\ x = Next1(c, step, events, readable, n) /\ n \in 0 .. N
          /\ (\E m \in 1 .. n - 1 : L[m] = e) => Held(c, e)
          /\ \/ Ready(c, {}, e)
             \/ step = "challenges" /\ \E m \in n .. N : Opening(L[m])
        BY <1>1, <1>2, <1>5
    <2>2. Good(x) /\ Keeps(c, x)
        <3>1. CASE L[n] \in events
            <4>1. x = Process(step, c, L[n], readable)
                BY <2>1, <3>1 DEF Next1
            <4> HIDE DEF c, x, L
            <4> QED BY <1>2, <2>1, <4>1, ProcessGood
        <3>2. CASE L[n] \notin events
            BY <2>1, <3>2, KeepsItself DEF Next1, Good
        <3> QED BY <3>1, <3>2
    <2>3. Ready(c, {}, e) => Ready(x, {}, e)
        BY <2>2, OfTypes DEF Ready, Keeps
    <2>4. ASSUME L[n] = e PROVE Held(x, e)
        <3>1. Ready(c, {}, e)
            <4> SUFFICES ASSUME step = "challenges", ~Ready(c, {}, e),
                                NEW m \in n .. N, Opening(L[m])
                         PROVE  FALSE
                BY <2>1
            <4>1. Ev(L[m]).type = "ChallengeOpened" /\ Ev(L[n]).type = "ChallengeResolved"
                <5>1. Ev(e).type # "ProviderRegistered"
                    BY <1>3, StepsAndNames
                <5> QED BY <2>4, <5>1, OfTypes DEF Ready
            <4>2. m \in 1 .. N /\ ~(m < n)
                BY <1>2
            <4> QED BY <4>1, <4>2, OpenedFirst
        <3>2. x = Process(step, c, e, readable)
            BY <2>1, <2>4 DEF Next1
        <3> HIDE DEF c, x
        <3> QED BY <2>1, <3>1, <3>2, ProcessHolds
    <2>5. (\E m \in 1 .. n : L[m] = e) => Held(x, e)
        <3>1. Held(c, e) => Held(x, e)
            BY <1>3, <2>2 DEF Keeps
        <3>2. \A m \in 1 .. n : m = n \/ m \in 1 .. n - 1
            BY <1>2
        <3> QED BY <2>1, <2>4, <3>1, <3>2
    <2>6. ReadyNow(n)
        <3>1. CASE Ready(c, {}, e)
            BY <2>3, <3>1
        <3>2. CASE ~Ready(c, {}, e)
            <4>1. PICK m \in n .. N : Opening(L[m]) /\ step = "challenges"
                BY <2>1, <3>2
            <4>2. CASE m = n
                <5>1. Ev(L[n]).type = "ChallengeOpened" /\ L[n] \in EventIds \ WithoutRow
                    BY <4>1, <4>2, OfTypes DEF WithoutRow
                <5>2. x = Process(step, c, L[n], readable)
                    BY <2>1, <4>1, <4>2 DEF Next1
                <5>3. Ready(c, {}, L[n])
                    BY <5>1 DEF Ready
                <5>4. Held(x, L[n])
                    <6> HIDE DEF c, x, L
                    <6> QED BY <1>2, <2>1, <5>1, <5>2, <5>3, ProcessHolds
                <5>5. Ev(e).id \in DOMAIN x.challenges
                    BY <4>1, <4>2, <5>1, <5>4 DEF Held
                <5>6. Ev(e).type # "ProviderRegistered"
                    BY <1>3, <4>1, StepsAndNames
                <5> QED BY <5>5, <5>6 DEF Ready
            <4>3. CASE m # n
                <5>1. m \in n + 1 .. N
                    BY <1>2, <4>3
                <5> QED BY <4>1, <5>1
            <4> QED BY <4>2, <4>3
        <3> QED BY <3>1, <3>2
    <2> QED BY <2>1, <2>2, <2>5, <2>6
<1>6. N \in G
    <2> HIDE DEF G, N
    <2> QED BY <1>2, <1>4, <1>5, Reaches
<1>7. PICK n \in 1 .. N : L[n] = e
    BY <1>2
<1> QED BY <1>1, <1>6, <1>7

-----------------------------------------------------------------------------
(***************************************************************************)
(* What the cursors promise.  The file and the cursors of a sync cover     *)
(* events that are in the database or excused; so does a sync, up to its   *)
(* last block, for the steps it has behind it.                             *)
(***************************************************************************)
PerProvider == {"Distributed", "Claimed"}

CursorAt(s, e) == IF Ev(e).type \in PerProvider THEN s.per_provider ELSE s.core

Done(d, e) == Held(d, e) \/ Excused(e)

Behind(k) ==
    CASE k = "registry"           -> Names("factory")
      [] k = "staking"            -> Names("factory") \cup Names("registry")
      [] k = "challenges"         -> Names("factory") \cup Names("registry") \cup Names("staking")
      [] k = "core_state"         -> UNION {Names(step) : step \in CoreSteps}
      [] k = "per_provider_state" -> PerProvider
      [] OTHER                    -> {}

Within(k) ==
    IF k \in CoreSteps THEN Names(k) ELSE IF k = "per_provider" THEN PerProvider ELSE {}

Known(d, s) == \A e \in EventIds : e[1] <= CursorAt(s, e) => Done(d, e)

KnownUpTo(d, types, b) == \A e \in EventIds : Ev(e).type \in types /\ e[1] <= b => Done(d, e)

Aware(p) ==
    Syncing(p) =>
        /\ Known(db, state[p])
        /\ KnownUpTo(db, Behind(pc[p]), current_block[p])
        /\ executed[p] => KnownUpTo(view, Within(pc[p]), current_block[p])

Promise ==
    /\ Known(db, file)
    /\ \A e \in EventIds : e[1] <= file.core => e[1] <= file.per_provider
    /\ \A p \in Processes : Aware(p)

LEMMA DoneLasts ==
    ASSUME NEW c, NEW d, Keeps(c, d), missed \subseteq missed', NEW e \in EventIds, Done(c, e)
    PROVE  Held(d, e) \/ Excused(e)'
<1>1. CASE Excused(e)
    BY <1>1 DEF Excused
<1>2. CASE Held(c, e)
    BY <1>2 DEF Excused, Keeps
<1> QED BY <1>1, <1>2 DEF Done

LEMMA BehindAfter ==
    ASSUME NEW p, pc[p] \in Steps
    PROVE  Behind(StepAfter(p)) \subseteq Behind(pc[p]) \cup Within(pc[p])
<1>1. Steps = {"factory", "registry", "staking", "challenges", "core_state", "per_provider",
               "per_provider_state"}
    BY StepsAndNames DEF Steps
<1>2. CASE pc[p] = "factory"
    BY <1>2, StepsAndNames DEF StepAfter, Behind, Within
<1>3. CASE pc[p] = "registry"
    BY <1>3, StepsAndNames DEF StepAfter, Behind, Within
<1>4. CASE pc[p] = "staking"
    BY <1>4, StepsAndNames DEF StepAfter, Behind, Within
<1>5. CASE pc[p] = "challenges"
    <2>1. UNION {Names(step) : step \in CoreSteps} =
              Names("factory") \cup Names("registry") \cup Names("staking") \cup Names("challenges")
        <3>1. CoreSteps = {"factory", "registry", "staking", "challenges"}
            BY StepsAndNames
        <3> QED BY <3>1
    <2>2. StepAfter(p) = "core_state" /\ Within(pc[p]) = Names("challenges")
        BY <1>5, StepsAndNames DEF StepAfter, Within
    <2>3. Behind(StepAfter(p)) = UNION {Names(step) : step \in CoreSteps}
        BY <2>2 DEF Behind
    <2>4. Behind(pc[p]) = Names("factory") \cup Names("registry") \cup Names("staking")
        BY <1>5 DEF Behind
    <2> QED BY <2>1, <2>2, <2>3, <2>4
<1>6. CASE pc[p] = "core_state"
    BY <1>6 DEF StepAfter, Behind
<1>7. CASE pc[p] = "per_provider"
    BY <1>7, StepsAndNames DEF StepAfter, Behind, Within
<1>8. CASE pc[p] = "per_provider_state"
    BY <1>8 DEF StepAfter, Behind
<1> QED BY <1>1, <1>2, <1>3, <1>4, <1>5, <1>6, <1>7, <1>8

LEMMA NothingToDo == \A d : \A e \in EventIds : Ev(e).type = "EndpointUpdated" => Held(d, e)
    BY AppendedHave DEF Held, AppendedTypes

LEMMA AwareAfter ==
    ASSUME Control, NEW p \in Processes, pc[p] \in Steps,
           pc'[p] = StepAfter(p), state'[p] = CursorsAfter(p), executed'[p] = FALSE,
           current_block'[p] = current_block[p],
           \A e \in EventIds : e[1] <= CursorAt(state[p], e) => Done(db, e)',
           \A e \in EventIds : /\ Ev(e).type \in Behind(pc[p]) \cup Within(pc[p])
                               /\ e[1] <= current_block[p]
                               => Done(db, e)'
    PROVE  Aware(p)'
<1>1. KnownUpTo(db, Behind(pc[p]), current_block[p])'
    BY BehindAfter DEF KnownUpTo
<1>2. /\ state'[p].core = IF pc[p] = "core_state" THEN current_block[p] ELSE state[p].core
      /\ state'[p].per_provider = IF pc[p] = "per_provider_state" THEN current_block[p]
                                  ELSE state[p].per_provider
    <2>1. state[p] \in Cursors
        BY DEF Control, Typed
    <2> QED BY <2>1 DEF CursorsAfter, Cursors
<1>3. ASSUME NEW e \in EventIds, e[1] <= CursorAt(state'[p], e)
      PROVE  Done(db, e)'
    <2>1. CASE CursorAt(state'[p], e) = CursorAt(state[p], e)
        BY <1>3, <2>1
    <2>2. CASE CursorAt(state'[p], e) # CursorAt(state[p], e)
        <3>1. CASE Ev(e).type \in PerProvider
            <4>1. pc[p] = "per_provider_state" /\ e[1] <= current_block[p]
                BY <1>2, <1>3, <2>2, <3>1 DEF CursorAt
            <4> QED BY <3>1, <4>1 DEF Behind
        <3>2. CASE Ev(e).type \notin PerProvider
            <4>1. pc[p] = "core_state" /\ e[1] <= current_block[p]
                BY <1>2, <1>3, <2>2, <3>2 DEF CursorAt
            <4>2. CASE Ev(e).type = "EndpointUpdated"
                BY <4>2, NothingToDo DEF Done
            <4>3. CASE Ev(e).type # "EndpointUpdated"
                <5>1. \E step \in CoreSteps : Ev(e).type \in Names(step)
                    BY <3>2, <4>3, HistoryAssumption, StepsAndNames
                       DEF EventTypes, AppendedTypes, PerProvider
                <5>2. Ev(e).type \in Behind(pc[p])
                    BY <4>1, <5>1 DEF Behind
                <5> QED BY <4>1, <5>2
            <4> QED BY <4>2, <4>3
        <3> QED BY <3>1, <3>2
    <2> QED BY <2>1, <2>2
<1>4. Known(db, state[p])'
    BY <1>3 DEF Known
<1> QED BY <1>1, <1>4 DEF Aware

(***************************************************************************)
(* The events of a core step, when a sync has the steps before it behind   *)
(* it and starts from cursors that keep their promise.                     *)
(***************************************************************************)
LEMMA ExcusedByNeed ==
    ASSUME NEW e \in EventIds, NEW f \in NeedsRowOf(e), f \notin WithoutRow, Done(db, f),
           missed \subseteq missed'
    PROVE  Held(db, f) \/ Excused(e)'
<1>1. CASE Held(db, f)
    BY <1>1
<1>2. CASE Excused(f)
    <2>1. Ev(f).type \in {"ProviderDeployed", "ChallengeOpened"}
        <3>1. CASE Ev(e).type = "ProviderRegistered"
            BY <3>1, OfTypes DEF NeedsRowOf
        <3>2. CASE Ev(e).type = "ChallengeResolved"
            BY <3>2, OfTypes DEF NeedsRowOf
        <3> QED BY <3>1, <3>2 DEF NeedsRowOf
    <2>2. NeedsRowOf(f) = {}
        BY <2>1 DEF NeedsRowOf
    <2>3. f \in missed
        BY <1>2, <2>2 DEF Excused
    <2> QED BY <2>3 DEF Excused
<1> QED BY <1>1, <1>2 DEF Done

LEMMA RegistrationReady ==
    ASSUME NEW p \in Processes, KnownUpTo(db, Names("factory"), current_block[p]),
           missed \subseteq missed', NEW d, Keeps(db, d), NEW events,
           NEW e \in Of({"ProviderRegistered"}) \ WithoutRow, e[1] <= current_block[p]
    PROVE  Ready(d, events, e) \/ Excused(e)'
<1>1. e \in EventIds /\ Ev(e).type = "ProviderRegistered"
    BY OfTypes
<1>2. PICK f \in Of({"ProviderDeployed", "ProviderRegistered"}) :
          Ev(f).tx = Ev(e).tx /\ Ev(f).type # "ProviderRegistered"
    BY <1>1, OfTypes DEF WithoutRow
<1>3. f \in EventIds /\ Ev(f).type = "ProviderDeployed" /\ f \in Of({"ProviderDeployed"})
    BY <1>2, OfTypes
<1>4. f \notin WithoutRow
    <2>1. f \in Of({"ProviderDeployed", "ProviderRegistered"}) /\ e \in Of({"ProviderDeployed", "ProviderRegistered"})
        BY <1>1, <1>2, OfTypes
    <2> QED BY <1>2, <1>3, <2>1 DEF WithoutRow
<1>5. f[1] <= current_block[p]
    BY <1>1, <1>2, <1>3, HistoryAssumption
<1>6. Done(db, f)
    BY <1>3, <1>5, StepsAndNames DEF KnownUpTo
<1>7. f \in NeedsRowOf(e)
    BY <1>1, <1>2, <1>3 DEF NeedsRowOf
<1>8. Held(db, f) \/ Excused(e)'
    BY <1>1, <1>4, <1>6, <1>7, ExcusedByNeed
<1> QED BY <1>1, <1>2, <1>3, <1>4, <1>8 DEF Ready, Keeps

LEMMA VerdictReady ==
    ASSUME Control, NEW p \in Processes, Known(db, state[p]), NEW lost, missed' = missed \cup lost,
           NEW d, Keeps(db, d), NEW e \in Of({"ChallengeResolved"}), e[1] <= current_block[p]
    PROVE  Ready(d, Fetched(p, "challenges", lost), e) \/ Excused(e)'
<1>1. e \in EventIds /\ Ev(e).type = "ChallengeResolved"
    BY OfTypes
<1>2. PICK f \in Of({"ChallengeOpened"}) : Ev(f).id = Ev(e).id /\ ChainOrder(f, e)
    BY HistoryAssumption
<1>3. f \in EventIds /\ Ev(f).type = "ChallengeOpened" /\ f \notin WithoutRow
    BY OfTypes DEF WithoutRow
<1>4. f \in NeedsRowOf(e)
    BY <1>1, <1>2 DEF NeedsRowOf
<1>5. /\ f[1] \in Nat /\ e[1] \in Nat /\ current_block[p] \in Nat /\ f[1] <= e[1]
      /\ state[p].core \in Int /\ f[1] <= current_block[p]
    BY <1>1, <1>2, <1>3, EventBlocks DEF ChainOrder, Control, Typed, Cursors
<1>6. CASE f[1] <= state[p].core
    <2>1. Done(db, f)
        BY <1>3, <1>6 DEF Known, CursorAt, PerProvider
    <2>2. Held(db, f) \/ Excused(e)'
        BY <1>1, <1>3, <1>4, <2>1, ExcusedByNeed
    <2>3. Held(db, f) => Ev(e).id \in DOMAIN d.challenges
        BY <1>2, <1>3 DEF Keeps, Held
    <2> QED BY <1>1, <2>2, <2>3 DEF Ready
<1>7. CASE ~(f[1] <= state[p].core)
    <2>1. f[1] \in core_from(state[p]) .. current_block[p]
        BY <1>3, <1>5, <1>7, WithinRange
    <2>2. f \in Of(Names("challenges"))
        BY <1>3, StepsAndNames, OfTypes
    <2>3. CASE f \in lost
        BY <1>4, <2>3 DEF Excused
    <2>4. CASE f \notin lost
        <3>1. f \in Fetched(p, "challenges", lost)
            BY <2>1, <2>2, <2>4 DEF Fetched
        <3> QED BY <1>1, <1>2, <3>1 DEF Ready
    <2> QED BY <2>3, <2>4
<1> QED BY <1>6, <1>7

LEMMA StepIndexes ==
    ASSUME Control, DatabaseInv, NEW p \in Processes, Aware(p), NEW step \in CoreSteps,
           pc[p] = step, NEW readable, NEW lost, missed' = missed \cup lost,
           NEW d, d = Processed(Conn(p), step, Fetched(p, step, lost), readable),
           NEW e \in EventIds, Ev(e).type \in Names(step), e[1] <= current_block[p]
    PROVE  Held(d, e) \/ Excused(e)'
<1>1. Syncing(p) /\ Known(db, state[p]) /\ KnownUpTo(db, Behind(step), current_block[p])
    BY StepsAndNames DEF Aware, Syncing
<1>2. Good(Conn(p)) /\ Keeps(db, Conn(p))
    <2>1. Conn(p) = view \/ Conn(p) = db
        BY DEF Conn
    <2> QED BY <2>1, KeepsItself DEF DatabaseInv, Good
<1>3. Keeps(Conn(p), d) /\ Good(d)
    BY <1>2, ProcessedGood
<1>4. Keeps(db, d)
    BY <1>2, <1>3, KeepsOn DEF DatabaseInv, Good
<1>5. CASE e[1] <= state[p].core
    <2>1. Ev(e).type \notin PerProvider
        BY StepsAndNames DEF PerProvider
    <2>2. Done(db, e)
        BY <1>1, <1>5, <2>1 DEF Known, CursorAt
    <2> QED BY <1>4, <2>2, DoneLasts
<1>6. CASE ~(e[1] <= state[p].core)
    <2>1. e[1] \in core_from(state[p]) .. current_block[p]
        <3>1. e[1] \in Nat /\ state[p].core \in Int
            BY EventBlocks DEF Control, Typed, Cursors
        <3> QED BY <1>6, <3>1, WithinRange
    <2>2. e \in Of(Names(step))
        BY OfTypes
    <2>3. CASE e \in lost \/ e \in WithoutRow
        BY <2>3 DEF Excused
    <2>4. CASE e \notin lost /\ e \notin WithoutRow
        <3> DEFINE events == Fetched(p, step, lost)
        <3>1. e \in (Of(Names(step)) \cap events) \ WithoutRow
            BY <2>1, <2>2, <2>4 DEF Fetched
        <3>2. Ready(Conn(p), events, e) \/ Excused(e)'
            <4>1. CASE Ev(e).type = "ProviderRegistered"
                <5>1. step \in {"registry"}
                    BY <4>1, StepsAndNames
                <5>2. KnownUpTo(db, Names("factory"), current_block[p])
                    BY <1>1, <5>1 DEF Behind
                <5>3. e \in Of({"ProviderRegistered"}) \ WithoutRow
                    BY <2>4, <4>1, OfTypes
                <5> QED BY <1>2, <5>2, <5>3, RegistrationReady
            <4>2. CASE Ev(e).type = "ChallengeResolved"
                <5>1. step = "challenges"
                    BY <4>2, StepsAndNames
                <5>2. e \in Of({"ChallengeResolved"})
                    BY <4>2, OfTypes
                <5> QED BY <1>1, <1>2, <5>1, <5>2, VerdictReady
            <4>3. CASE Ev(e).type \notin {"ProviderRegistered", "ChallengeResolved"}
                BY <4>3 DEF Ready
            <4> QED BY <4>1, <4>2, <4>3
        <3>3. Ready(Conn(p), events, e) => Held(d, e)
            <4> HIDE DEF events
            <4>1. d = Processed(Conn(p), step, events, readable)
                BY DEF events
            <4> QED BY <1>2, <3>1, <4>1, ProcessedHolds
        <3> QED BY <3>2, <3>3
    <2> QED BY <2>3, <2>4
<1> QED BY <1>5, <1>6

(***************************************************************************)
(* What a step of p leaves to the others: the transaction of a process     *)
(* that waits for its commit, what is committed, and what is excused.      *)
(***************************************************************************)
LEMMA ViewOfOthers ==
    ASSUME Control, NEW p \in Processes, Launch(p) \/ Work(p) \/ Trouble(p),
           NEW q \in Processes \ {p}, writer = q
    PROVE  view' = view
<1>1. \A events, d : Write(p, events, d) => view' = view
    BY IndexerAssumption DEF Write, Locked, database
<1>2. Rollback(p) => view' = view
    BY DEF Rollback
<1>3. UNCHANGED database => view' = view
    BY DEF database
<1>4. CASE Launch(p) \/ Begin(p) \/ BeginFails(p) \/ BeginSave(p) \/ FinishSave(p)
           \/ DatabaseLocked(p) \/ Crash(p) \/ Commit(p)
    BY <1>2, <1>3, <1>4 DEF Launch, Begin, BeginFails, BeginSave, FinishSave, DatabaseLocked, Crash,
                            Commit
<1>5. ASSUME NEW step, ExecuteCore(p, step) \/ RaiseInCore(p, step) PROVE view' = view
    <2>1. CASE ExecuteCore(p, step)
        <3>1. \E events, d : Write(p, events, d)
            BY <2>1 DEF ExecuteCore
        <3> QED BY <1>1, <3>1
    <2>2. CASE RaiseInCore(p, step)
        <3>1. Rollback(p) \/ \E events, d : Write(p, events, d)
            BY <2>2 DEF RaiseInCore
        <3> QED BY <1>1, <1>2, <3>1
    <2> QED BY <1>5, <2>1, <2>2
<1>6. ASSUME NEW step, NEW table, ExecuteState(p, step, table) PROVE view' = view
    <2>1. \E events, d : Write(p, events, d)
        BY <1>6 DEF ExecuteState
    <2> QED BY <1>1, <2>1
<1>7. CASE ExecutePerProvider(p)
    <2>1. \E events, d : Write(p, events, d)
        BY <1>7 DEF ExecutePerProvider
    <2> QED BY <1>1, <2>1
<1> QED BY <1>4, <1>5, <1>6, <1>7 DEF Work, Trouble

LEMMA MissedStays ==
    ASSUME NEW p, Launch(p) \/ Work(p) \/ Trouble(p)
    PROVE  missed \subseteq missed'
<1>1. CASE Launch(p) \/ Begin(p) \/ BeginFails(p) \/ BeginSave(p) \/ FinishSave(p)
           \/ DatabaseLocked(p) \/ Crash(p) \/ Commit(p)
    BY <1>1 DEF Launch, Begin, BeginFails, BeginSave, FinishSave, DatabaseLocked, Crash, Commit,
                history
<1>2. ASSUME NEW step, ExecuteCore(p, step) \/ RaiseInCore(p, step) PROVE missed \subseteq missed'
    <2>1. CASE ExecuteCore(p, step)
        <3>1. \E lost : missed' = missed \cup lost
            BY <2>1 DEF ExecuteCore
        <3> QED BY <3>1
    <2>2. CASE RaiseInCore(p, step)
        BY <2>2 DEF RaiseInCore
    <2> QED BY <1>2, <2>1, <2>2
<1>3. ASSUME NEW step, NEW table, ExecuteState(p, step, table) PROVE missed \subseteq missed'
    BY <1>3 DEF ExecuteState, history
<1>4. CASE ExecutePerProvider(p)
    <2>1. \E due, found : missed' = missed \cup (due \ found)
        BY <1>4 DEF ExecutePerProvider
    <2> QED BY <2>1
<1> QED BY <1>1, <1>2, <1>3, <1>4 DEF Work, Trouble

LEMMA OthersAware ==
    ASSUME Control, DatabaseInv, Promise, NEW p \in Processes, Launch(p) \/ Work(p) \/ Trouble(p),
           NEW q \in Processes \ {p}
    PROVE  Aware(q)'
<1>1. Alone(p)
    BY MoveControl
<1>2. Keeps(db, db') /\ missed \subseteq missed'
    BY StepDatabase, MissedStays DEF IndexerNext
<1>3. \A e \in EventIds : Done(db, e) => Done(db, e)'
    BY <1>2, DoneLasts DEF Done
<1>4. Aware(q)
    BY DEF Promise
<1>5. /\ pc'[q] = pc[q] /\ state'[q] = state[q] /\ executed'[q] = executed[q]
      /\ current_block'[q] = current_block[q]
    BY <1>1 DEF Alone
<1>6. executed[q] => view' = view
    <2>1. executed[q] => writer = q
        BY DEF Control, OnCourse
    <2> QED BY <2>1, ViewOfOthers
<1>7. executed[q] => \A e \in EventIds : Done(view, e) => Done(view, e)'
    BY <1>2, <1>6 DEF Done, Excused
<1> QED BY <1>3, <1>4, <1>5, <1>7 DEF Aware, Syncing, Known, KnownUpTo

(***************************************************************************)
(* What p itself knows after one of its steps.                             *)
(***************************************************************************)
LEMMA ExecutedAware ==
    ASSUME Control, NEW p \in Processes, pc[p] \in Steps, Aware(p), Executed(p),
           Keeps(db, db'), missed \subseteq missed',
           NEW x, writer' = p => view' = x, writer' # p => db' = x,
           \A e \in EventIds : Ev(e).type \in Within(pc[p]) /\ e[1] <= current_block[p]
                               => Held(x, e) \/ Excused(e)'
    PROVE  Aware(p)'
<1>1. \A e \in EventIds : Done(db, e) => Done(db, e)'
    BY DoneLasts DEF Done
<1>2. /\ Known(db, state[p]) /\ KnownUpTo(db, Behind(pc[p]), current_block[p])
      /\ current_block'[p] = current_block[p]
    BY StepsAndNames DEF Aware, Syncing, Steps, Executed
<1>3. CASE writer' = p
    <2>1. pc'[p] = pc[p] /\ state'[p] = state[p]
        BY <1>3 DEF Executed
    <2>2. KnownUpTo(view, Within(pc[p]), current_block[p])'
        BY <1>2, <1>3, <2>1 DEF KnownUpTo, Done
    <2>3. Known(db, state[p])' /\ KnownUpTo(db, Behind(pc[p]), current_block[p])'
        BY <1>1, <1>2, <2>1 DEF Known, KnownUpTo
    <2> QED BY <2>2, <2>3 DEF Aware
<1>4. CASE writer' # p
    <2>1. NextStep(p)
        BY <1>4 DEF Executed
    <2>2. pc'[p] = StepAfter(p) /\ state'[p] = CursorsAfter(p) /\ executed'[p] = FALSE
        BY <2>1 DEF NextStep, Control, Typed
    <2>3. \A e \in EventIds : e[1] <= CursorAt(state[p], e) => Done(db, e)'
        BY <1>1, <1>2 DEF Known
    <2>4. \A e \in EventIds : /\ Ev(e).type \in Behind(pc[p]) \cup Within(pc[p])
                              /\ e[1] <= current_block[p]
                              => Done(db, e)'
        BY <1>1, <1>2, <1>4 DEF KnownUpTo, Done
    <2> QED BY <1>2, <2>2, <2>3, <2>4, AwareAfter
<1> QED BY <1>3, <1>4

LEMMA ProcessedNothing ==
    ASSUME NEW step \in CoreSteps, NEW d, NEW readable
    PROVE  Processed(d, step, {}, readable) = d
<1> DEFINE N == Len(Logs[step])
<1>1. N \in Nat
    BY LogFacts
<1>2. PICK after : /\ after[0] = d /\ after[N] = Processed(d, step, {}, readable)
                   /\ \A n \in 1 .. N : after[n] = Next1(after[n - 1], step, {}, readable, n)
    BY FoldSteps
<1> DEFINE G == {n \in 0 .. N : after[n] = d}
<1>3. 0 \in G
    BY <1>1, <1>2
<1>4. \A n \in 1 .. N : n - 1 \in G => n \in G
    BY <1>1, <1>2 DEF Next1
<1>5. N \in G
    <2> HIDE DEF G, N
    <2> QED BY <1>1, <1>3, <1>4, Reaches
<1> QED BY <1>2, <1>5

LEMMA CoreAware ==
    ASSUME Control, DatabaseInv, Promise, NEW p \in Processes, NEW step \in CoreSteps,
           ExecuteCore(p, step)
    PROVE  Aware(p)'
<1>1. PICK readable \in BOOLEAN, lost \in {{}} \cup Lost(p, step) :
          LET events == Fetched(p, step, lost)
          IN  /\ Write(p, events, Processed(Conn(p), step, events, readable))
              /\ missed' = missed \cup lost
    BY DEF ExecuteCore
<1> DEFINE events == Fetched(p, step, lost)
           d == Processed(Conn(p), step, events, readable)
<1>2. Write(p, events, d) /\ missed' = missed \cup lost
    BY <1>1
<1>3. Aware(p) /\ pc[p] = step /\ pc[p] \in Steps /\ Executed(p)
    BY DEF Promise, ExecuteCore, Steps
<1>4. \A e \in EventIds : Ev(e).type \in Within(pc[p]) /\ e[1] <= current_block[p]
                          => Held(d, e) \/ Excused(e)'
    <2>1. Within(pc[p]) = Names(step)
        BY <1>3 DEF Within
    <2>2. d = Processed(Conn(p), step, Fetched(p, step, lost), readable)
        OBVIOUS
    <2> HIDE DEF d, events
    <2> QED BY <1>2, <1>3, <2>1, <2>2, StepIndexes
<1>5. Keeps(db, db') /\ missed \subseteq missed'
    BY <1>2, StepDatabase DEF IndexerNext, Work
<1>6. events = {} => d = Conn(p)
    BY ProcessedNothing
<1> HIDE DEF d, events
<1>7. (writer' = p => view' = d) /\ (writer' # p => db' = d)
    <2>1. CASE events = {}
        BY <1>2, <1>6, <2>1 DEF Write, database, Conn
    <2>2. CASE events # {}
        BY <1>2, <2>2 DEF Write
    <2> QED BY <2>1, <2>2
<1> QED BY <1>3, <1>4, <1>5, <1>7, ExecutedAware

LEMMA StateAware ==
    ASSUME Control, DatabaseInv, Promise, NEW p \in Processes,
           NEW step \in {"core_state", "per_provider_state"}, NEW table, ExecuteState(p, step, table),
           Keeps(db, db'), missed \subseteq missed'
    PROVE  Aware(p)'
<1>1. pc[p] = step /\ pc[p] \in Steps /\ Aware(p) /\ Executed(p)
    BY DEF ExecuteState, Promise, Steps
<1>2. Within(pc[p]) = {}
    BY <1>1, StepsAndNames DEF Within
<1>3. writer' = p
    BY DEF ExecuteState, Write
<1> QED BY <1>1, <1>2, <1>3, ExecutedAware

LEMMA PerProviderAware ==
    ASSUME Control, DatabaseInv, Promise, NEW p \in Processes, ExecutePerProvider(p)
    PROVE  Aware(p)'
<1>1. PICK lost :
          LET due == InRange(p, Of({"Distributed", "Claimed"}))
              found == {e \in due \ lost : RowsOf(Conn(p), e) # {}}
          IN  /\ Write(p, found, RowsAppended(Conn(p), found))
              /\ missed' = missed \cup (due \ found)
    BY DEF ExecutePerProvider
<1> DEFINE due == InRange(p, Of({"Distributed", "Claimed"}))
           found == {e \in due \ lost : RowsOf(Conn(p), e) # {}}
           d == RowsAppended(Conn(p), found)
           x == IF found = {} THEN Conn(p) ELSE d
<1>2. /\ Write(p, found, d) /\ missed' = missed \cup (due \ found)
      /\ \A e \in found : RowsOf(Conn(p), e) # {}
    BY <1>1
<1>3. Aware(p) /\ pc[p] = "per_provider" /\ pc[p] \in Steps /\ Executed(p)
    BY DEF Promise, ExecutePerProvider, Steps
<1>4. Keeps(db, db') /\ missed \subseteq missed'
    BY <1>2, StepDatabase DEF IndexerNext, Work
<1>5. Good(Conn(p)) /\ Keeps(db, Conn(p))
    <2>1. Conn(p) = view \/ Conn(p) = db
        BY DEF Conn
    <2> QED BY <2>1, KeepsItself DEF DatabaseInv, Good
<1>6. ASSUME NEW e \in EventIds, Ev(e).type \in PerProvider, e[1] <= current_block[p]
      PROVE  Held(x, e) \/ Excused(e)'
    <2>1. e \in Of({"Distributed", "Claimed"}) /\ e \in Appended
        BY <1>6, OfTypes DEF PerProvider, Appended, AppendedTypes
    <2>2. CASE e \in found
        <3> HIDE DEF found
        <3>1. Len(d.rows[e]) = Len(Conn(p).rows[e]) + 1 /\ Len(Conn(p).rows[e]) \in Nat
            <4> DEFINE c == Conn(p)
            <4>1. Good(c) /\ \A f \in found : RowsOf(c, f) # {}
                BY <1>2, <1>5
            <4> HIDE DEF c, found
            <4>2. OneMoreOf(c, RowsAppended(c, found), found)
                BY <4>1, RowsAppendedGood
            <4> USE DEF c
            <4>3. Len(d.rows[e]) = Len(Conn(p).rows[e]) + (IF e \in found THEN 1 ELSE 0)
                BY <2>1, <4>2 DEF OneMoreOf
            <4>4. Conn(p).rows[e] \in Seq(Ids)
                BY <1>5, <2>1 DEF Good, IsDb
            <4>5. Len(Conn(p).rows[e]) \in Nat
                BY <4>4
            <4> HIDE DEF d
            <4> QED BY <2>2, <4>3, <4>5
        <3>2. x = d
            BY <2>2
        <3> HIDE DEF x, d
        <3>3. Len(x.rows[e]) # 0
            BY <3>1, <3>2
        <3> QED BY <1>6, <3>3 DEF Held, PerProvider
    <2>3. CASE e \in due \ found
        BY <1>2, <2>3 DEF Excused
    <2>4. CASE e \notin due
        <3>1. e[1] <= state[p].per_provider
            <4>1. ~(e[1] \in pp_from(state[p]) .. current_block[p])
                BY <2>1, <2>4 DEF InRange
            <4>2. e[1] \in Nat /\ state[p].per_provider \in Int
                BY EventBlocks DEF Control, Typed, Cursors
            <4> QED BY <1>6, <4>1, <4>2, WithinRange
        <3>2. Done(db, e)
            BY <1>3, <1>6, <3>1 DEF Aware, Syncing, Known, CursorAt
        <3>3. Keeps(db, x)
            <4>1. Keeps(db, d)
                <5> HIDE DEF found
                <5>1. Good(d) /\ Keeps(Conn(p), d)
                    BY <1>2, <1>5, RowsAppendedGood
                <5> HIDE DEF d
                <5> QED BY <1>5, <5>1, KeepsOn DEF DatabaseInv, Good
            <4> QED BY <1>5, <4>1
        <3> HIDE DEF x
        <3> QED BY <1>4, <3>2, <3>3, DoneLasts
    <2> QED BY <2>2, <2>3, <2>4
<1>7. (writer' = p => view' = x) /\ (writer' # p => db' = x)
    <2>1. CASE found = {}
        <3> HIDE DEF found, d
        <3> QED BY <1>2, <2>1 DEF Write, database, Conn
    <2>2. CASE found # {}
        <3> HIDE DEF found, d
        <3> QED BY <1>2, <2>2 DEF Write
    <2> QED BY <2>1, <2>2
<1>8. Within(pc[p]) = PerProvider
    BY <1>3, StepsAndNames DEF Within
<1> HIDE DEF x
<1> QED BY <1>3, <1>4, <1>6, <1>7, <1>8, ExecutedAware

LEMMA CommitAware ==
    ASSUME Control, DatabaseInv, Promise, NEW p \in Processes, Commit(p)
    PROVE  Aware(p)'
<1>1. /\ executed[p] /\ db' = view /\ NextStep(p) /\ current_block' = current_block
      /\ missed' = missed
    BY DEF Commit, history
<1>2. pc[p] \in Steps /\ Syncing(p)
    BY <1>1, StepsAndNames DEF Control, OnCourse, Steps, Syncing
<1>3. /\ Known(db, state[p]) /\ KnownUpTo(db, Behind(pc[p]), current_block[p])
      /\ KnownUpTo(view, Within(pc[p]), current_block[p])
    BY <1>1, <1>2 DEF Promise, Aware
<1>4. pc'[p] = StepAfter(p) /\ state'[p] = CursorsAfter(p) /\ executed'[p] = FALSE
    BY <1>1 DEF NextStep, Control, Typed
<1>5. \A e \in EventIds : Done(db, e) => Done(db, e)'
    BY <1>1, StepDatabase, DoneLasts DEF Done, IndexerNext, Work
<1>6. \A e \in EventIds : Done(view, e) => Done(db, e)'
    BY <1>1 DEF Done, Excused
<1>7. \A e \in EventIds : e[1] <= CursorAt(state[p], e) => Done(db, e)'
    BY <1>3, <1>5 DEF Known
<1>8. \A e \in EventIds : /\ Ev(e).type \in Behind(pc[p]) \cup Within(pc[p])
                          /\ e[1] <= current_block[p]
                          => Done(db, e)'
    BY <1>3, <1>5, <1>6 DEF KnownUpTo
<1> QED BY <1>1, <1>2, <1>4, <1>7, <1>8, AwareAfter

LEMMA BeginAware ==
    ASSUME Control, Promise, NEW p \in Processes, Begin(p)
    PROVE  Aware(p)'
<1>1. /\ pc[p] = "idle" /\ pc'[p] = FirstStep(file, head) /\ state'[p] = file
      /\ executed'[p] = executed[p] /\ db' = db /\ missed' = missed
    BY DEF Begin, Control, Typed, database
<1>2. FirstStep(file, head) \in {"factory", "per_provider", "save"}
    BY DEF FirstStep
<1>3. Behind(pc'[p]) = {}
    BY <1>1, <1>2 DEF Behind
<1>4. ~executed'[p]
    BY <1>1, StepsAndNames DEF Control, OnCourse, Steps
<1>5. Known(db, state[p])'
    BY <1>1 DEF Promise, Known, Done, Excused
<1> QED BY <1>3, <1>4, <1>5 DEF Aware, KnownUpTo

(***************************************************************************)
(* The cursors in the file: none while it is torn, then those of a sync    *)
(* that has everything up to its last block behind it.                     *)
(***************************************************************************)
FileKept ==
    Known(db, file) /\ \A e \in EventIds : e[1] <= file.core => e[1] <= file.per_provider

LEMMA FileStays ==
    ASSUME Promise, file' = file, \A e \in EventIds : Done(db, e) => Done(db, e)'
    PROVE  FileKept'
    BY DEF FileKept, Promise, Known

LEMMA FileTorn ==
    ASSUME file' = Torn
    PROVE  FileKept'
<1>1. ASSUME NEW e \in EventIds PROVE ~(e[1] <= file'.core) /\ ~(e[1] <= CursorAt(file', e))
    <2>1. e[1] \in Nat
        BY EventBlocks
    <2> QED BY <2>1 DEF Torn, CursorAt
<1> QED BY <1>1 DEF FileKept, Known

LEMMA FileSaved ==
    ASSUME Control, Promise, NEW p \in Processes, FinishSave(p),
           \A e \in EventIds : Done(db, e) => Done(db, e)'
    PROVE  FileKept'
<1>1. pc[p] = "saving" /\ file' = state[p]
    BY DEF FinishSave
<1>2. Known(db, state[p])
    BY <1>1 DEF Promise, Aware, Syncing
<1>3. Known(db, file)'
    BY <1>1, <1>2 DEF Known
<1>4. ASSUME NEW e \in EventIds, e[1] <= state[p].core
      PROVE  e[1] <= state[p].per_provider
    <2>1. state[p].core <= current_block[p] /\ pp_from(state[p]) > current_block[p]
        BY <1>1 DEF Control, OnCourse, Syncing
    <2>2. /\ e[1] \in Nat /\ e[1] >= DeployBlock /\ DeployBlock \in Nat /\ current_block[p] \in Nat
          /\ state[p].core \in Int /\ state[p].per_provider \in Int
        BY EventBlocks, IndexerAssumption DEF Control, Typed, Cursors
    <2> QED BY <1>4, <2>1, <2>2 DEF pp_from, Later
<1> QED BY <1>1, <1>3, <1>4 DEF FileKept

LEMMA MovePromise ==
    ASSUME Control, DatabaseInv, Promise, NEW p \in Processes, Launch(p) \/ Work(p) \/ Trouble(p)
    PROVE  Promise'
<1>1. Keeps(db, db') /\ missed \subseteq missed'
    BY StepDatabase, MissedStays DEF IndexerNext
<1>2. \A e \in EventIds : Done(db, e) => Done(db, e)'
    BY <1>1, DoneLasts DEF Done
<1>3. \A q \in Processes \ {p} : Aware(q)'
    BY OthersAware
<1> SUFFICES FileKept' /\ Aware(p)'
    BY <1>3 DEF FileKept, Promise
<1>4. file' = file => FileKept'
    BY <1>2, FileStays
<1>5. AfterSync(p) => Aware(p)'
    BY DEF AfterSync, Aware, Syncing, Control, Typed
<1>6. CASE Launch(p)
    <2>1. pc'[p] = "idle" /\ file' = file
        BY <1>6 DEF Launch, Control, Typed
    <2> QED BY <1>4, <2>1 DEF Aware, Syncing
<1>7. CASE Begin(p)
    BY <1>4, <1>7, BeginAware DEF Begin
<1>8. CASE BeginFails(p) \/ DatabaseLocked(p)
    BY <1>4, <1>5, <1>8 DEF BeginFails, DatabaseLocked
<1>9. ASSUME NEW step \in CoreSteps, ExecuteCore(p, step) \/ RaiseInCore(p, step)
      PROVE  FileKept' /\ Aware(p)'
    <2>1. CASE ExecuteCore(p, step)
        BY <1>4, <2>1, CoreAware DEF ExecuteCore
    <2>2. CASE RaiseInCore(p, step)
        BY <1>4, <1>5, <2>2 DEF RaiseInCore
    <2> QED BY <1>9, <2>1, <2>2
<1>10. CASE ExecuteState(p, "core_state", "core")
    BY <1>1, <1>4, <1>10, StateAware DEF ExecuteState
<1>11. CASE ExecuteState(p, "per_provider_state", "per_provider")
    BY <1>1, <1>4, <1>11, StateAware DEF ExecuteState
<1>12. CASE ExecutePerProvider(p)
    BY <1>4, <1>12, PerProviderAware DEF ExecutePerProvider
<1>13. CASE Commit(p)
    BY <1>4, <1>13, CommitAware DEF Commit
<1>14. CASE BeginSave(p)
    <2>1. /\ pc[p] = "save" /\ pc'[p] = "saving" /\ file' = Torn /\ db' = db /\ missed' = missed
          /\ state'[p] = state[p] /\ executed'[p] = executed[p]
        BY <1>14 DEF BeginSave, database, locals, history, Control, Typed
    <2>2. Behind(pc'[p]) = {} /\ ~executed'[p]
        BY <2>1, StepsAndNames DEF Behind, Control, OnCourse, Steps
    <2>3. Known(db, state[p])
        BY <2>1 DEF Promise, Aware, Syncing
    <2>4. Known(db, state[p])'
        BY <1>2, <2>1, <2>3 DEF Known
    <2> QED BY <2>1, <2>2, <2>4, FileTorn DEF Aware, KnownUpTo
<1>15. CASE FinishSave(p)
    BY <1>2, <1>5, <1>15, FileSaved DEF FinishSave
<1>16. CASE Crash(p)
    <2>1. pc'[p] = "off" /\ file' = file
        BY <1>16 DEF Crash, Control, Typed
    <2> QED BY <1>4, <2>1 DEF Aware, Syncing
<1> QED BY <1>6, <1>7, <1>8, <1>9, <1>10, <1>11, <1>12, <1>13, <1>14, <1>15, <1>16
        DEF Work, Trouble

LEMMA StepPromise ==
    Control /\ DatabaseInv /\ Promise /\ [IndexerNext]_indexerVars => Promise'
<1> SUFFICES ASSUME Control, DatabaseInv, Promise, [IndexerNext]_indexerVars PROVE Promise'
    OBVIOUS
<1>1. CASE UNCHANGED indexerVars \/ Mine
    <2>1. /\ db' = db /\ view' = view /\ file' = file /\ missed' = missed /\ pc' = pc
          /\ state' = state /\ executed' = executed /\ current_block' = current_block
        BY <1>1 DEF indexerVars, Mine, database, locals, history
    <2> QED BY <2>1 DEF Promise, Known, KnownUpTo, Aware, Syncing, Done, Excused
<1>2. CASE \E p \in Processes : Launch(p) \/ Work(p) \/ Trouble(p)
    BY <1>2, MovePromise
<1> QED BY <1>1, <1>2 DEF IndexerNext

LEMMA InitPromise == IndexerInit => Promise
<1> SUFFICES ASSUME IndexerInit PROVE Promise
    OBVIOUS
<1>1. file = NoState /\ \A p \in Processes : pc[p] = "off"
    BY DEF IndexerInit
<1>2. ASSUME NEW e \in EventIds PROVE ~(e[1] <= CursorAt(file, e)) /\ ~(e[1] <= file.core)
    <2>1. e[1] \in Nat \ {0}
        BY HistoryAssumption
    <2> QED BY <1>1, <2>1 DEF NoState, CursorAt
<1> QED BY <1>1, <1>2 DEF Promise, Known, Aware, Syncing

(***************************************************************************)
(* Whatever is killed, fails or runs at the same time, nothing up to the   *)
(* saved cursor is absent from the database but what a failed call passed  *)
(* over and providers without a row of their own.                          *)
(***************************************************************************)
THEOREM SyncedUnlessMissed == IndexerSpec => []SyncedOrMissed
<1>1. Promise => SyncedOrMissed
    <2> SUFFICES ASSUME Promise, NEW e \in EventIds, e[1] <= file.core
                 PROVE  Indexed(db, e) \/ Excused(e)
        BY DEF SyncedOrMissed
    <2>1. Held(db, e) \/ Excused(e)
        BY DEF Promise, Known, CursorAt, Done
    <2>2. Ev(e).type \in AppendedTypes => e \in Appended
        BY OfTypes DEF Appended
    <2>3. Len(<<>>) = 0
        OBVIOUS
    <2>4. Ev(e).type \in EventTypes
        BY HistoryAssumption
    <2>5. Held(db, e) => Indexed(db, e)
        <3>1. CASE Ev(e).type \in AppendedTypes
            <4>1. Held(db, e) => db.rows[e] # <<>>
                BY <2>2, <2>3, <3>1 DEF Held
            <4> QED BY <3>1, <4>1 DEF Indexed, AppendedTypes
        <3>2. CASE Ev(e).type \notin AppendedTypes
            BY <2>4, <3>2 DEF Held, Indexed, EventTypes
        <3> QED BY <3>1, <3>2
    <2> QED BY <2>1, <2>5
<1>2. DatabaseInv /\ [IndexerNext]_indexerVars => DatabaseInv'
    BY StepDatabase
<1> QED BY <1>1, <1>2, InitDatabase, InitControl, StepControl, InitPromise, StepPromise, PTL
        DEF IndexerSpec

-----------------------------------------------------------------------------
(***************************************************************************)
(* The tables are exactly what some set of events makes of them.           *)
(***************************************************************************)
VerdictIn(id, T) ==
    LET its == {e \in T \cap Of({"ChallengeResolved"}) : Ev(e).id = id}
    IN  IF its = {} THEN 0 ELSE Ev(CHOOSE e \in its : TRUE).result

RegistrationOf(f) == CHOOSE g \in Of({"ProviderRegistered"}) : Ev(g).tx = Ev(f).tx

\* The provider the endpoints of an owner are shown under.
FirstId(a) ==
    LET its == {g \in Of({"ProviderRegistered"}) \ WithoutRow : Ev(g).owner = a}
    IN  IF its = {} THEN NULL ELSE Ev(CHOOSE g \in its : \A h \in its : Ev(g).id <= Ev(h).id).id

ExactRows(d, T, lost) ==
    /\ lost \subseteq T \cap Of(PerProvider)
    /\ \A e \in Appended : DOMAIN d.rows[e] = IF e \in T \ lost THEN {1} ELSE {}

ExactChallenges(d, T) ==
    /\ DOMAIN d.challenges = {Ev(e).id : e \in T \cap Of({"ChallengeOpened"})}
    /\ \A e \in T \cap Of({"ChallengeOpened"}) :
           d.challenges[Ev(e).id].endpoint = Ev(e).endpoint
    /\ \A id \in DOMAIN d.challenges :
           "endpoint" \in DOMAIN d.challenges[id] /\ d.challenges[id].status = VerdictIn(id, T)

\* The row of deployment f, completed when the registration is among T.
RowOf(row, f, T) ==
    /\ row.tx = Ev(f).tx /\ row.share = Ev(f).share
    /\ RegistrationOf(f) \in T => /\ row.id = Ev(RegistrationOf(f)).id
                                  /\ row.owner = Ev(RegistrationOf(f)).owner

ExactProviders(d, T) ==
    /\ \A i \in DOMAIN d.providers :
           \E f \in T \cap Of({"ProviderDeployed"}) : RowOf(d.providers[i], f, T)
    /\ \A f \in T \cap Of({"ProviderDeployed"}) :
           \E i \in DOMAIN d.providers : d.providers[i].tx = Ev(f).tx
    /\ \A i, j \in DOMAIN d.providers : i < j =>
           \A f, g \in Of({"ProviderDeployed"}) :
               Ev(f).tx = d.providers[i].tx /\ Ev(g).tx = d.providers[j].tx => ChainOrder(f, g)

ExactEndpoints(d, T) ==
    /\ DOMAIN d.endpoints = {Ev(e).endpoint : e \in T \cap Of({"EndpointRegistered"})}
    /\ \A e \in T \cap Of({"EndpointRegistered"}) :
           /\ d.endpoints[Ev(e).endpoint].owner = Ev(e).provider
           /\ d.endpoints[Ev(e).endpoint].provider_id = FirstId(Ev(e).provider)

\* Each payment in the name of the provider whose share it is.
ExactNames(d, T, lost) ==
    \A e \in (T \cap Of(PerProvider)) \ lost, f \in Of({"ProviderDeployed"}) :
        Ev(f).share = Ev(e).share => d.rows[e][1] = Ev(RegistrationOf(f)).id

Exact(d, T, lost) ==
    /\ ExactRows(d, T, lost) /\ ExactChallenges(d, T)
    /\ Regular => ExactProviders(d, T) /\ ExactEndpoints(d, T) /\ ExactNames(d, T, lost)

-----------------------------------------------------------------------------
(***************************************************************************)
(* What the order of the chain and the contracts say of events.            *)
(***************************************************************************)
LEMMA EventPairs == \A e \in EventIds : e = <<e[1], e[2]>> /\ e[1] \in Nat /\ e[2] \in Nat
<1>1. \A e \in EventIds : \E b \in DOMAIN History : \E i \in DOMAIN History[b] : e = <<b, i>>
    BY DEF EventIds
<1> QED BY <1>1, HistoryAssumption

LEMMA Chain ==
    ASSUME NEW e \in EventIds, NEW f \in EventIds
    PROVE  /\ e # f => ChainOrder(e, f) \/ ChainOrder(f, e)
           /\ ChainOrder(e, f) => e # f /\ ~ChainOrder(f, e) /\ e[1] <= f[1]
    BY EventPairs DEF ChainOrder

\* The registration of what the factory deployed; with Regular it is the
\* only one of its transaction, and every other has no row.
LEMMA Registrations ==
    ASSUME NEW f \in Of({"ProviderDeployed"})
    PROVE  LET g == RegistrationOf(f)
           IN  /\ g \in Of({"ProviderRegistered"}) /\ Ev(g).tx = Ev(f).tx /\ g[1] = f[1]
               /\ Regular => /\ g \notin WithoutRow
                             /\ \A h \in Of({"ProviderRegistered"}) : Ev(h).tx = Ev(f).tx => h = g
                             /\ \A h \in Of({"ProviderDeployed"}) : Ev(h).tx = Ev(f).tx => h = f
<1> DEFINE g == RegistrationOf(f)
<1>1. \E h \in Of({"ProviderRegistered"}) : Ev(h).tx = Ev(f).tx
    BY ContractsAssumption
<1>2. g \in Of({"ProviderRegistered"}) /\ Ev(g).tx = Ev(f).tx
    BY <1>1 DEF RegistrationOf
<1> HIDE DEF g
<1>3. /\ f \in EventIds /\ Ev(f).type = "ProviderDeployed"
      /\ g \in EventIds /\ Ev(g).type = "ProviderRegistered"
      /\ \A h \in Of({"ProviderRegistered"}) : h \in EventIds /\ Ev(h).type = "ProviderRegistered"
      /\ \A h \in Of({"ProviderDeployed"}) : h \in EventIds /\ Ev(h).type = "ProviderDeployed"
    BY <1>2, OfTypes
<1>4. g[1] = f[1]
    BY <1>2, <1>3, HistoryAssumption
<1>5. ASSUME Regular
      PROVE  /\ g \notin WithoutRow
             /\ \A h \in Of({"ProviderRegistered"}) : Ev(h).tx = Ev(f).tx => h = g
             /\ \A h \in Of({"ProviderDeployed"}) : Ev(h).tx = Ev(f).tx => h = f
    <2> DEFINE its(e) == {h \in Of({"ProviderDeployed", "ProviderRegistered"}) : Ev(h).tx = Ev(e).tx}
               Without(e) == \/ \A h \in its(e) : Ev(h).type = "ProviderRegistered"
                             \/ \E h, k \in its(e) : h # k /\ Ev(h).type = Ev(k).type
    <2>1. WithoutRow = {e \in Of({"ProviderDeployed", "ProviderRegistered"}) : Without(e)}
        BY DEF WithoutRow
    <2>2. /\ f \in Of({"ProviderDeployed", "ProviderRegistered"})
          /\ g \in Of({"ProviderDeployed", "ProviderRegistered"})
          /\ \A h \in Of({"ProviderRegistered"}) : h \in Of({"ProviderDeployed", "ProviderRegistered"})
          /\ \A h \in Of({"ProviderDeployed"}) : h \in Of({"ProviderDeployed", "ProviderRegistered"})
        BY <1>3, OfTypes
    <2>3. its(g) = its(f)
        BY <1>2
    <2>4. ~Without(f) /\ ~Without(g)
        BY <1>5, <2>1, <2>2, <2>3 DEF Regular
    <2>5. ASSUME NEW h \in Of({"ProviderRegistered"}), Ev(h).tx = Ev(f).tx PROVE h = g
        <3>1. h \in its(f) /\ g \in its(f)
            BY <1>2, <2>2, <2>5
        <3> QED BY <1>3, <2>4, <3>1
    <2>6. ASSUME NEW h \in Of({"ProviderDeployed"}), Ev(h).tx = Ev(f).tx PROVE h = f
        <3>1. h \in its(f) /\ f \in its(f)
            BY <2>2, <2>6
        <3> QED BY <1>3, <2>4, <3>1
    <2> QED BY <2>1, <2>4, <2>5, <2>6
<1> QED BY <1>2, <1>4, <1>5 DEF g

\* A registration with a row is that of a deployment.
LEMMA Deployer ==
    ASSUME Regular, NEW g \in Of({"ProviderRegistered"}) \ WithoutRow
    PROVE  \E f \in Of({"ProviderDeployed"}) : g = RegistrationOf(f)
<1>1. g \in Of({"ProviderDeployed", "ProviderRegistered"})
    BY OfTypes
<1>2. PICK f \in Of({"ProviderDeployed", "ProviderRegistered"}) :
          Ev(f).tx = Ev(g).tx /\ Ev(f).type # "ProviderRegistered"
    BY <1>1 DEF WithoutRow
<1>3. f \in Of({"ProviderDeployed"})
    BY <1>2, OfTypes
<1> QED BY <1>2, <1>3, Registrations

\* Numbers, owners' first providers and deployments have one order.
LEMMA IdsOrdered ==
    ASSUME NEW g \in Of({"ProviderRegistered"}), NEW h \in Of({"ProviderRegistered"})
    PROVE  /\ Ev(g).id \in Nat /\ Ev(h).id \in Nat
           /\ Ev(g).id = Ev(h).id => g = h
           /\ ChainOrder(g, h) => Ev(g).id < Ev(h).id
<1>1. g \in EventIds /\ h \in EventIds
    BY OfTypes
<1>2. /\ Ev(g).id \in Nat /\ Ev(h).id \in Nat
      /\ ChainOrder(g, h) <=> Ev(g).id < Ev(h).id
      /\ ChainOrder(h, g) <=> Ev(h).id < Ev(g).id
    BY ContractsAssumption
<1> QED BY <1>1, <1>2, Chain

LEMMA RegisteredInOrder ==
    ASSUME Regular, NEW e \in Of({"ProviderDeployed"}), NEW f \in Of({"ProviderDeployed"}),
           ChainOrder(e, f)
    PROVE  Ev(RegistrationOf(e)).id < Ev(RegistrationOf(f)).id
<1>1. e \in EventIds /\ f \in EventIds /\ e # f
    BY OfTypes, Chain
<1>2. /\ RegistrationOf(e) \in Of({"ProviderRegistered"}) /\ Ev(RegistrationOf(e)).tx = Ev(e).tx
      /\ RegistrationOf(f) \in Of({"ProviderRegistered"}) /\ Ev(RegistrationOf(f)).tx = Ev(f).tx
      /\ Ev(e).tx # Ev(f).tx
    BY <1>1, Registrations
<1>3. ChainOrder(RegistrationOf(e), RegistrationOf(f))
    BY <1>1, <1>2, OfTypes, ContractsAssumption
<1> QED BY <1>2, <1>3, IdsOrdered

LEMMA FirstIdIs ==
    ASSUME NEW a, NEW g \in Of({"ProviderRegistered"}) \ WithoutRow, Ev(g).owner = a,
           \A h \in Of({"ProviderRegistered"}) \ WithoutRow : Ev(h).owner = a => Ev(g).id <= Ev(h).id
    PROVE  FirstId(a) = Ev(g).id
<1> DEFINE its == {h \in Of({"ProviderRegistered"}) \ WithoutRow : Ev(h).owner = a}
           First(x) == \A h \in its : Ev(x).id <= Ev(h).id
           first == CHOOSE x \in its : First(x)
<1>1. FirstId(a) = IF its = {} THEN NULL ELSE Ev(first).id
    BY DEF FirstId
<1>2. g \in its /\ First(g)
    OBVIOUS
<1>3. first \in its /\ First(first)
    <2> HIDE DEF its, First
    <2> QED BY <1>2, Zenon
<1>4. Ev(first).id <= Ev(g).id /\ Ev(g).id <= Ev(first).id
    BY <1>2, <1>3
<1>5. Ev(first).id \in Nat /\ Ev(g).id \in Nat
    BY <1>3, IdsOrdered
<1> HIDE DEF first
<1> QED BY <1>1, <1>2, <1>4, <1>5

\* With Regular an endpoint's provider, if its owner has one with a row, is
\* the first of them and was registered before it.
LEMMA EndpointsFirst ==
    ASSUME Regular, NEW e \in Of({"EndpointRegistered"}),
           NEW h \in Of({"ProviderRegistered"}) \ WithoutRow, Ev(h).owner = Ev(e).provider
    PROVE  \E g \in Of({"ProviderRegistered"}) \ WithoutRow :
               /\ Ev(g).owner = Ev(e).provider /\ g[1] <= e[1]
               /\ Ev(g).id = Ev(e).provider_id /\ FirstId(Ev(e).provider) = Ev(g).id
<1>1. PICK g \in Of({"ProviderRegistered"}) \ WithoutRow : Ev(g).id = Ev(e).provider_id
    BY DEF Regular
<1>2. PICK f \in Of({"ProviderRegistered"}) :
          Ev(f).id = Ev(e).provider_id /\ Ev(f).owner = Ev(e).provider /\ ChainOrder(f, e)
    BY ContractsAssumption
<1>3. g = f
    BY <1>1, <1>2, IdsOrdered
<1>4. f \in EventIds /\ e \in EventIds
    BY OfTypes
<1>5. g[1] <= e[1]
    BY <1>2, <1>3, <1>4, Chain
<1>6. \A x \in Of({"ProviderRegistered"}) \ WithoutRow :
          Ev(x).owner = Ev(e).provider => Ev(g).id <= Ev(x).id
    BY <1>1 DEF Regular
<1>7. FirstId(Ev(e).provider) = Ev(g).id
    BY <1>2, <1>3, <1>6, FirstIdIs
<1> QED BY <1>1, <1>2, <1>3, <1>5, <1>7

-----------------------------------------------------------------------------
(***************************************************************************)
(* What one event does to exact tables, when it comes where a step that    *)
(* reads up to block b brings it.                                          *)
(***************************************************************************)
Deployers(b) == {f \in Of({"ProviderDeployed"}) : f[1] <= b}

Due(T, b, e) ==
    /\ T \subseteq EventIds /\ b \in Int
    /\ e \notin T /\ \A f \in T \cup {e} : f[1] <= b
    /\ Ev(e).type = "ProviderDeployed" =>
           /\ \A f \in T \cap Of({"ProviderDeployed"}) : ChainOrder(f, e)
           /\ RegistrationOf(e) \notin T
    /\ Ev(e).type = "EndpointRegistered" =>
           Deployers(b) \cup {g \in Of({"ProviderRegistered"}) : g[1] <= b} \subseteq T
    /\ Ev(e).type = "ChallengeOpened" =>
           \A f \in T \cap Of({"ChallengeResolved"}) : Ev(f).id # Ev(e).id
    /\ Ev(e).type = "ChallengeResolved" =>
           {f \in Of({"ChallengeOpened"}) : f[1] <= b} \subseteq T

LEMMA VerdictsSame ==
    ASSUME NEW S, NEW T, S \cap Of({"ChallengeResolved"}) = T \cap Of({"ChallengeResolved"})
    PROVE  \A id : VerdictIn(id, S) = VerdictIn(id, T)
<1> TAKE id
<1> DEFINE Of1(V) == {e \in V \cap Of({"ChallengeResolved"}) : Ev(e).id = id}
           Result(its) == IF its = {} THEN 0 ELSE Ev(CHOOSE e \in its : TRUE).result
<1>1. Of1(S) = Of1(T)
    OBVIOUS
<1>2. VerdictIn(id, S) = Result(Of1(S)) /\ VerdictIn(id, T) = Result(Of1(T))
    BY DEF VerdictIn
<1> HIDE DEF Result, Of1
<1> QED BY <1>1, <1>2

\* A table that an event does not change is as exact with it as without it.
LEMMA Untouched ==
    ASSUME NEW d, NEW x, NEW T, NEW e \in EventIds
    PROVE  LET U == T \cup {e}
           IN  /\ x.rows = d.rows /\ e \notin Appended /\ ExactRows(d, T, missed)
                  => ExactRows(x, U, missed)
               /\ /\ x.challenges = d.challenges /\ ExactChallenges(d, T)
                  /\ Ev(e).type \notin Names("challenges")
                  => ExactChallenges(x, U)
               /\ /\ x.providers = d.providers /\ ExactProviders(d, T)
                  /\ Ev(e).type \notin {"ProviderDeployed", "ProviderRegistered"}
                  => ExactProviders(x, U)
               /\ /\ x.endpoints = d.endpoints /\ ExactEndpoints(d, T)
                  /\ Ev(e).type # "EndpointRegistered"
                  => ExactEndpoints(x, U)
               /\ /\ \A f \in Of(PerProvider) : x.rows[f] = d.rows[f]
                  /\ Ev(e).type \notin PerProvider /\ ExactNames(d, T, missed)
                  => ExactNames(x, U, missed)
<1> DEFINE U == T \cup {e}
<1>1. \A t : t # Ev(e).type => U \cap Of({t}) = T \cap Of({t})
    BY OfTypes
<1>2. x.rows = d.rows /\ e \notin Appended /\ ExactRows(d, T, missed) => ExactRows(x, U, missed)
    BY DEF ExactRows
<1>3. ASSUME x.challenges = d.challenges, ExactChallenges(d, T), Ev(e).type \notin Names("challenges")
      PROVE  ExactChallenges(x, U)
    <2>1. /\ U \cap Of({"ChallengeOpened"}) = T \cap Of({"ChallengeOpened"})
          /\ U \cap Of({"ChallengeResolved"}) = T \cap Of({"ChallengeResolved"})
        BY <1>1, <1>3, StepsAndNames
    <2>2. \A id : VerdictIn(id, U) = VerdictIn(id, T)
        BY <2>1, VerdictsSame
    <2> HIDE DEF U
    <2>3. DOMAIN x.challenges = {Ev(f).id : f \in U \cap Of({"ChallengeOpened"})}
        BY <1>3, <2>1 DEF ExactChallenges
    <2>4. \A f \in U \cap Of({"ChallengeOpened"}) : x.challenges[Ev(f).id].endpoint = Ev(f).endpoint
        BY <1>3, <2>1 DEF ExactChallenges
    <2>5. \A id \in DOMAIN x.challenges :
              "endpoint" \in DOMAIN x.challenges[id] /\ x.challenges[id].status = VerdictIn(id, U)
        BY <1>3, <2>2 DEF ExactChallenges
    <2> QED BY <2>3, <2>4, <2>5 DEF ExactChallenges
<1>4. ASSUME x.providers = d.providers, ExactProviders(d, T),
             Ev(e).type \notin {"ProviderDeployed", "ProviderRegistered"}
      PROVE  ExactProviders(x, U)
    <2>1. U \cap Of({"ProviderDeployed"}) = T \cap Of({"ProviderDeployed"})
        BY <1>1, <1>4
    <2>2. \A f \in Of({"ProviderDeployed"}) : RegistrationOf(f) \in U <=> RegistrationOf(f) \in T
        BY <1>4, Registrations, OfTypes
    <2>3. \A row : \A f \in Of({"ProviderDeployed"}) : RowOf(row, f, T) => RowOf(row, f, U)
        BY <2>2 DEF RowOf
    <2> HIDE DEF U
    <2> QED BY <1>4, <2>1, <2>3 DEF ExactProviders
<1>5. ASSUME x.endpoints = d.endpoints, ExactEndpoints(d, T), Ev(e).type # "EndpointRegistered"
      PROVE  ExactEndpoints(x, U)
    <2>1. U \cap Of({"EndpointRegistered"}) = T \cap Of({"EndpointRegistered"})
        BY <1>1, <1>5
    <2> HIDE DEF U
    <2> QED BY <1>5, <2>1 DEF ExactEndpoints
<1>6. ASSUME \A f \in Of(PerProvider) : x.rows[f] = d.rows[f], Ev(e).type \notin PerProvider,
             ExactNames(d, T, missed)
      PROVE  ExactNames(x, U, missed)
    <2>1. U \cap Of(PerProvider) = T \cap Of(PerProvider)
        BY <1>6, OfTypes
    <2> HIDE DEF U
    <2> QED BY <1>6, <2>1 DEF ExactNames
<1> QED BY <1>2, <1>3, <1>4, <1>5, <1>6

LEMMA NotAppended ==
    ASSUME NEW e \in EventIds,
           Ev(e).type \in {"ProviderDeployed", "ProviderRegistered", "EndpointRegistered",
                           "ChallengeOpened", "ChallengeResolved"}
    PROVE  e \notin Appended /\ Ev(e).type \notin PerProvider
    BY OfTypes DEF Appended, AppendedTypes, PerProvider

LEMMA InsertProviderExact ==
    ASSUME NEW d, Good(d), NEW e \in Of({"ProviderDeployed"}), NEW T, NEW b,
           Exact(d, T, missed), Due(T, b, e)
    PROVE  Exact(InsertProvider(d, e), T \cup {e}, missed)
<1> DEFINE row == [id |-> NULL, owner |-> Ev(e).recipient, share |-> Ev(e).share, tx |-> Ev(e).tx]
           rows == Append(d.providers, row)
           x == [d EXCEPT !.providers = rows]
           U == T \cup {e}
<1>1. e \in EventIds /\ Ev(e).type = "ProviderDeployed"
    BY OfTypes
<1>2. e \notin Appended /\ Ev(e).type \notin Names("challenges") /\ Ev(e).type \notin PerProvider
    BY <1>1, NotAppended, StepsAndNames
<1>3. Record(d) /\ d.providers \in Seq(ProviderRow)
    BY DEF Good, IsDb
<1>4. row \in ProviderRow /\ row.tx = Ev(e).tx /\ row.share = Ev(e).share
    BY DEF ProviderRow, Ids
<1> HIDE DEF row
<1>5. /\ DOMAIN rows = 1 .. Len(d.providers) + 1 /\ DOMAIN d.providers = 1 .. Len(d.providers)
      /\ Len(d.providers) \in Nat
      /\ \A i \in 1 .. Len(d.providers) : rows[i] = d.providers[i]
      /\ rows[Len(d.providers) + 1] = row
    BY <1>3, <1>4
<1> HIDE DEF rows
<1>6. /\ x.providers = rows /\ x.endpoints = d.endpoints /\ x.challenges = d.challenges
      /\ x.rows = d.rows
    BY <1>3, Changes DEF Record
<1> HIDE DEF x
<1>7. InsertProvider(d, e) = d \/ InsertProvider(d, e) = x
    BY DEF InsertProvider, x, rows, row
<1>8. /\ ExactRows(d, U, missed) /\ ExactChallenges(d, U)
      /\ ExactRows(x, U, missed) /\ ExactChallenges(x, U)
      /\ Regular => ExactEndpoints(x, U) /\ ExactNames(x, U, missed)
    BY <1>1, <1>2, <1>6, Untouched DEF Exact
<1>9. ASSUME Regular
      PROVE  InsertProvider(d, e) = x /\ ExactProviders(x, U)
    <2>1. ASSUME NEW i \in DOMAIN d.providers
          PROVE  \E f \in T \cap Of({"ProviderDeployed"}) :
                     f # e /\ RowOf(d.providers[i], f, T) /\ Ev(f).tx = d.providers[i].tx
        <3>1. PICK f \in T \cap Of({"ProviderDeployed"}) : RowOf(d.providers[i], f, T)
            BY <1>9 DEF Exact, ExactProviders
        <3>2. e \notin T
            BY DEF Due
        <3> QED BY <3>1, <3>2 DEF RowOf
    <2>2. \A i \in DOMAIN d.providers : d.providers[i].tx # Ev(e).tx
        BY <1>9, <2>1, Registrations
    <2>3. InsertProvider(d, e) = x
        BY <2>2 DEF InsertProvider, x, rows, row
    <2>4. \A f \in Of({"ProviderDeployed"}) : RegistrationOf(f) \in U => RegistrationOf(f) \in T
        BY <1>1, Registrations, OfTypes
    <2>5. RowOf(row, e, U)
        <3>1. RegistrationOf(e) \notin T
            BY <1>1 DEF Due
        <3> QED BY <1>4, <2>4, <3>1 DEF RowOf
    <2>6. \A i \in DOMAIN rows : \E f \in U \cap Of({"ProviderDeployed"}) : RowOf(rows[i], f, U)
        <3> TAKE i \in DOMAIN rows
        <3>1. CASE i \in DOMAIN d.providers
            BY <1>5, <2>1, <2>4, <3>1 DEF RowOf
        <3>2. CASE i = Len(d.providers) + 1
            BY <1>5, <2>5, <3>2
        <3>3. i \in DOMAIN d.providers \/ i = Len(d.providers) + 1
            BY <1>5
        <3> QED BY <3>1, <3>2, <3>3
    <2>7. \A f \in U \cap Of({"ProviderDeployed"}) : \E i \in DOMAIN rows : rows[i].tx = Ev(f).tx
        <3> TAKE f \in U \cap Of({"ProviderDeployed"})
        <3>1. CASE f = e
            BY <1>4, <1>5, <3>1
        <3>2. CASE f \in T
            <4>1. PICK i \in DOMAIN d.providers : d.providers[i].tx = Ev(f).tx
                BY <1>9, <3>2 DEF Exact, ExactProviders
            <4> QED BY <1>5, <4>1
        <3> QED BY <3>1, <3>2
    <2>8. ASSUME NEW i \in DOMAIN rows, NEW j \in DOMAIN rows, i < j,
                 NEW f \in Of({"ProviderDeployed"}), NEW g \in Of({"ProviderDeployed"}),
                 Ev(f).tx = rows[i].tx, Ev(g).tx = rows[j].tx
          PROVE  ChainOrder(f, g)
        <3>1. i \in DOMAIN d.providers
            BY <1>5, <2>8
        <3>2. CASE j \in DOMAIN d.providers
            BY <1>5, <1>9, <2>8, <3>1, <3>2 DEF Exact, ExactProviders
        <3>3. CASE j = Len(d.providers) + 1
            <4>1. g = e
                BY <1>4, <1>5, <1>9, <2>8, <3>3, Registrations
            <4>2. f \in T
                <5>1. PICK h \in T \cap Of({"ProviderDeployed"}) : Ev(h).tx = d.providers[i].tx
                    BY <2>1, <3>1
                <5>2. Ev(f).tx = Ev(h).tx
                    BY <1>5, <2>8, <3>1, <5>1
                <5>3. f = h
                    BY <1>9, <5>2, Registrations
                <5> QED BY <5>1, <5>3
            <4> QED BY <1>1, <4>1, <4>2 DEF Due
        <3> QED BY <1>5, <3>2, <3>3
    <2>9. \A i, j \in DOMAIN rows : i < j =>
              \A f, g \in Of({"ProviderDeployed"}) :
                  Ev(f).tx = rows[i].tx /\ Ev(g).tx = rows[j].tx => ChainOrder(f, g)
        BY <2>8
    <2> HIDE DEF U
    <2>10. ExactProviders(x, U)
        BY <1>6, <2>6, <2>7, <2>9 DEF ExactProviders
    <2> QED BY <2>3, <2>10
<1> QED BY <1>7, <1>8, <1>9 DEF Exact

LEMMA UpdateProviderExact ==
    ASSUME NEW d, Good(d), NEW e \in Of({"ProviderRegistered"}), NEW T, Exact(d, T, missed)
    PROVE  Exact(UpdateProvider(d, e), T \cup {e}, missed)
<1> DEFINE rows == [i \in DOMAIN d.providers |->
                       IF d.providers[i].tx = Ev(e).tx
                       THEN [d.providers[i] EXCEPT !.id = Ev(e).id, !.owner = Ev(e).owner]
                       ELSE d.providers[i]]
           x == [d EXCEPT !.providers = rows]
           U == T \cup {e}
<1>1. UpdateProvider(d, e) = x
    BY DEF UpdateProvider
<1>2. e \in EventIds /\ Ev(e).type = "ProviderRegistered"
    BY OfTypes
<1>3. e \notin Appended /\ Ev(e).type \notin Names("challenges") /\ Ev(e).type \notin PerProvider
    BY <1>2, NotAppended, StepsAndNames
<1>4. Record(d) /\ d.providers \in Seq(ProviderRow)
    BY DEF Good, IsDb
<1>5. ASSUME NEW i \in DOMAIN d.providers
      PROVE  /\ rows[i].tx = d.providers[i].tx /\ rows[i].share = d.providers[i].share
             /\ d.providers[i].tx = Ev(e).tx => rows[i].id = Ev(e).id /\ rows[i].owner = Ev(e).owner
             /\ d.providers[i].tx # Ev(e).tx => rows[i] = d.providers[i]
    <2>1. d.providers[i] \in ProviderRow
        BY <1>4
    <2> QED BY <2>1 DEF ProviderRow
<1>6. DOMAIN rows = DOMAIN d.providers
    OBVIOUS
<1> HIDE DEF rows
<1>7. /\ x.providers = rows /\ x.endpoints = d.endpoints /\ x.challenges = d.challenges
      /\ x.rows = d.rows
    BY <1>4, Changes DEF Record
<1> HIDE DEF x
<1>8. /\ ExactRows(x, U, missed) /\ ExactChallenges(x, U)
      /\ Regular => ExactEndpoints(x, U) /\ ExactNames(x, U, missed)
    BY <1>2, <1>3, <1>7, Untouched DEF Exact
<1>9. ASSUME Regular PROVE ExactProviders(x, U)
    <2>1. U \cap Of({"ProviderDeployed"}) = T \cap Of({"ProviderDeployed"})
        BY <1>2, OfTypes
    <2>2. ASSUME NEW i \in DOMAIN rows
          PROVE  \E f \in U \cap Of({"ProviderDeployed"}) : RowOf(rows[i], f, U)
        <3>1. PICK f \in T \cap Of({"ProviderDeployed"}) : RowOf(d.providers[i], f, T)
            BY <1>6, <1>9 DEF Exact, ExactProviders
        <3>2. Ev(f).tx = Ev(e).tx => RegistrationOf(f) = e
            BY <1>9, Registrations
        <3>3. RegistrationOf(f) = e => Ev(f).tx = Ev(e).tx
            BY Registrations
        <3>4. RowOf(rows[i], f, U)
            BY <1>5, <1>6, <3>1, <3>2, <3>3 DEF RowOf
        <3> QED BY <2>1, <3>1, <3>4
    <2>3. \A i \in DOMAIN rows : rows[i].tx = d.providers[i].tx
        BY <1>5, <1>6
    <2> HIDE DEF U
    <2> QED BY <1>6, <1>7, <1>9, <2>1, <2>2, <2>3 DEF Exact, ExactProviders
<1> QED BY <1>1, <1>8, <1>9 DEF Exact

(***************************************************************************)
(* All the rows up to b are complete when the endpoints are written, so    *)
(* that the first row of an owner is that of its first provider.           *)
(***************************************************************************)
LEMMA CompleteRows ==
    ASSUME NEW d, NEW T, NEW b, Regular, ExactProviders(d, T),
           T \subseteq EventIds, \A f \in T : f[1] <= b,
           Deployers(b) \cup {g \in Of({"ProviderRegistered"}) : g[1] <= b} \subseteq T
    PROVE  /\ \A i \in DOMAIN d.providers :
                  \E f \in T \cap Of({"ProviderDeployed"}) :
                      /\ d.providers[i].tx = Ev(f).tx /\ d.providers[i].share = Ev(f).share
                      /\ d.providers[i].id = Ev(RegistrationOf(f)).id
                      /\ d.providers[i].owner = Ev(RegistrationOf(f)).owner
           /\ \A g \in Of({"ProviderRegistered"}) \ WithoutRow : g[1] <= b =>
                  \E i \in DOMAIN d.providers :
                      /\ d.providers[i].tx = Ev(g).tx
                      /\ d.providers[i].id = Ev(g).id /\ d.providers[i].owner = Ev(g).owner
<1>1. ASSUME NEW i \in DOMAIN d.providers
      PROVE  \E f \in T \cap Of({"ProviderDeployed"}) :
                 /\ d.providers[i].tx = Ev(f).tx /\ d.providers[i].share = Ev(f).share
                 /\ d.providers[i].id = Ev(RegistrationOf(f)).id
                 /\ d.providers[i].owner = Ev(RegistrationOf(f)).owner
    <2>1. PICK f \in T \cap Of({"ProviderDeployed"}) : RowOf(d.providers[i], f, T)
        BY DEF ExactProviders
    <2>2. RegistrationOf(f) \in T
        <3>1. f[1] <= b
            OBVIOUS
        <3> QED BY <3>1, Registrations
    <2> QED BY <2>1, <2>2 DEF RowOf
<1>2. ASSUME NEW g \in Of({"ProviderRegistered"}) \ WithoutRow, g[1] <= b
      PROVE  \E i \in DOMAIN d.providers :
                 /\ d.providers[i].tx = Ev(g).tx
                 /\ d.providers[i].id = Ev(g).id /\ d.providers[i].owner = Ev(g).owner
    <2>1. PICK f \in Of({"ProviderDeployed"}) : g = RegistrationOf(f)
        BY Deployer
    <2>2. Ev(g).tx = Ev(f).tx /\ g[1] = f[1]
        BY <2>1, Registrations
    <2>3. f \in T
        BY <1>2, <2>2 DEF Deployers
    <2>4. PICK i \in DOMAIN d.providers : d.providers[i].tx = Ev(f).tx
        BY <2>3 DEF ExactProviders
    <2>5. PICK h \in T \cap Of({"ProviderDeployed"}) :
              /\ d.providers[i].tx = Ev(h).tx
              /\ d.providers[i].id = Ev(RegistrationOf(h)).id
              /\ d.providers[i].owner = Ev(RegistrationOf(h)).owner
        BY <1>1
    <2>6. h = f
        BY <2>4, <2>5, Registrations
    <2> QED BY <2>1, <2>2, <2>4, <2>5, <2>6
<1> QED BY <1>1, <1>2

LEMMA ProviderFound ==
    ASSUME NEW d, Good(d), NEW T, NEW e \in Of({"EndpointRegistered"}), NEW b, Due(T, b, e),
           Regular, ExactProviders(d, T)
    PROVE  ProviderIdOf(d, Ev(e).provider) = FirstId(Ev(e).provider)
<1> DEFINE a == Ev(e).provider
           its == {i \in DOMAIN d.providers : d.providers[i].owner = a}
           First(i) == /\ d.providers[i].owner = a
                       /\ \A j \in 1 .. (i - 1) : d.providers[j].owner # a
           first == CHOOSE i \in DOMAIN d.providers : First(i)
<1>1. ProviderIdOf(d, a) = IF its = {} THEN NULL ELSE d.providers[first].id
    BY DEF ProviderIdOf
<1>2. /\ T \subseteq EventIds /\ b \in Int /\ e[1] <= b /\ \A f \in T : f[1] <= b
      /\ Deployers(b) \cup {g \in Of({"ProviderRegistered"}) : g[1] <= b} \subseteq T
    BY OfTypes DEF Due
<1>3. /\ \A i \in DOMAIN d.providers :
             \E f \in T \cap Of({"ProviderDeployed"}) :
                 /\ d.providers[i].tx = Ev(f).tx
                 /\ d.providers[i].id = Ev(RegistrationOf(f)).id
                 /\ d.providers[i].owner = Ev(RegistrationOf(f)).owner
      /\ \A g \in Of({"ProviderRegistered"}) \ WithoutRow : g[1] <= b =>
             \E i \in DOMAIN d.providers :
                 /\ d.providers[i].tx = Ev(g).tx
                 /\ d.providers[i].id = Ev(g).id /\ d.providers[i].owner = Ev(g).owner
    BY <1>2, CompleteRows
<1>4. CASE its = {}
    <2> DEFINE known == {g \in Of({"ProviderRegistered"}) \ WithoutRow : Ev(g).owner = a}
    <2>1. ASSUME NEW g \in known PROVE FALSE
        <3>1. PICK f \in Of({"ProviderRegistered"}) \ WithoutRow : Ev(f).owner = a /\ f[1] <= e[1]
            BY EndpointsFirst
        <3>2. f[1] <= b
            BY <1>2, <3>1, EventPairs, OfTypes
        <3>3. \E i \in DOMAIN d.providers : d.providers[i].owner = a
            BY <1>3, <3>1, <3>2
        <3> QED BY <1>4, <3>3
    <2>2. FirstId(a) = NULL
        BY <2>1 DEF FirstId
    <2> QED BY <1>1, <1>4, <2>2
<1>5. CASE its # {}
    <2>1. DOMAIN d.providers = 1 .. Len(d.providers) /\ Len(d.providers) \in Nat
        BY DEF Good, IsDb
    <2>2. PICK i \in its : \A j \in its : i <= j
        <3>1. its \subseteq Nat
            BY <2>1
        <3> HIDE DEF its
        <3> QED BY <1>5, <3>1, LeastNumber
    <2>3. i \in DOMAIN d.providers /\ First(i)
        <3>1. \A j \in 1 .. (i - 1) : j \in DOMAIN d.providers /\ ~(i <= j)
            BY <2>1, <2>2
        <3> QED BY <2>2, <3>1
    <2>4. first \in DOMAIN d.providers /\ First(first)
        <3> HIDE DEF First
        <3> QED BY <2>3, Zenon
    <2>5. \A j \in its : first <= j
        <3> TAKE j \in its
        <3>1. j \in 1 .. Len(d.providers) /\ first \in 1 .. Len(d.providers)
            BY <2>1, <2>4
        <3>2. ~(j \in 1 .. (first - 1))
            BY <2>4
        <3> QED BY <3>1, <3>2
    <2> HIDE DEF first
    <2>6. PICK f \in T \cap Of({"ProviderDeployed"}) :
              /\ d.providers[first].tx = Ev(f).tx
              /\ d.providers[first].id = Ev(RegistrationOf(f)).id
              /\ d.providers[first].owner = Ev(RegistrationOf(f)).owner
        BY <1>3, <2>4
    <2> DEFINE g == RegistrationOf(f)
    <2>7. g \in Of({"ProviderRegistered"}) \ WithoutRow /\ Ev(g).owner = a /\ g[1] <= b
        BY <1>2, <2>4, <2>6, Registrations
    <2>8. ASSUME NEW h \in Of({"ProviderRegistered"}) \ WithoutRow, Ev(h).owner = a
          PROVE  Ev(g).id <= Ev(h).id
        <3>1. CASE h[1] <= b
            <4>1. PICK j \in DOMAIN d.providers :
                      d.providers[j].id = Ev(h).id /\ d.providers[j].owner = Ev(h).owner
                BY <1>3, <3>1
            <4>2. PICK k \in T \cap Of({"ProviderDeployed"}) :
                      d.providers[j].tx = Ev(k).tx /\ d.providers[j].id = Ev(RegistrationOf(k)).id
                BY <1>3
            <4>3. first <= j
                BY <2>5, <2>8, <4>1
            <4>4. CASE first = j
                BY <2>6, <2>7, <4>1, <4>4, IdsOrdered
            <4>5. CASE first # j
                <5>1. first < j
                    BY <2>1, <2>4, <4>3, <4>5
                <5>2. ChainOrder(f, k)
                    BY <2>4, <2>6, <4>2, <5>1 DEF ExactProviders
                <5>3. Ev(g).id < Ev(RegistrationOf(k)).id
                    BY <5>2, RegisteredInOrder
                <5>4. Ev(g).id < Ev(h).id
                    BY <4>1, <4>2, <5>3
                <5> HIDE DEF g
                <5> QED BY <2>7, <5>4, IdsOrdered
            <4> QED BY <4>4, <4>5
        <3>2. CASE ~(h[1] <= b)
            <4> HIDE DEF g
            <4>1. g \in EventIds /\ h \in EventIds
                BY <2>7, OfTypes
            <4>2. g[1] < h[1]
                BY <1>2, <2>7, <3>2, <4>1, EventPairs
            <4>3. ChainOrder(g, h)
                BY <4>2 DEF ChainOrder
            <4>4. Ev(g).id < Ev(h).id /\ Ev(g).id \in Nat /\ Ev(h).id \in Nat
                BY <2>7, <4>3, IdsOrdered
            <4> QED BY <4>4
        <3> QED BY <3>1, <3>2
    <2> HIDE DEF g
    <2>9. FirstId(a) = Ev(g).id
        BY <2>7, <2>8, FirstIdIs
    <2> QED BY <1>1, <1>5, <2>6, <2>9 DEF g
<1> QED BY <1>4, <1>5

LEMMA ReplaceEndpointExact ==
    ASSUME NEW d, Good(d), NEW e \in Of({"EndpointRegistered"}), NEW T, NEW b, NEW readable,
           Exact(d, T, missed), Due(T, b, e)
    PROVE  Exact(ReplaceEndpoint(d, e, readable), T \cup {e}, missed)
<1> DEFINE pid == ProviderIdOf(d, Ev(e).provider)
           row == [provider_id |-> pid, owner |-> Ev(e).provider,
                   hash |-> IF readable THEN HashNow(Ev(e).endpoint) ELSE 0, block |-> e[1]]
           table == Put(d.endpoints, Ev(e).endpoint, row)
           x == [d EXCEPT !.endpoints = table]
           U == T \cup {e}
<1>1. ReplaceEndpoint(d, e, readable) = x
    BY DEF ReplaceEndpoint
<1>2. e \in EventIds /\ Ev(e).type = "EndpointRegistered"
    BY OfTypes
<1>3. /\ e \notin Appended /\ Ev(e).type \notin PerProvider
      /\ Ev(e).type \notin Names("challenges")
    BY <1>2, NotAppended, StepsAndNames
<1>4. row.provider_id = pid /\ row.owner = Ev(e).provider
    OBVIOUS
<1> HIDE DEF row
<1>5. /\ DOMAIN table = DOMAIN d.endpoints \cup {Ev(e).endpoint}
      /\ table[Ev(e).endpoint] = row
      /\ \A ep \in DOMAIN d.endpoints : ep # Ev(e).endpoint => table[ep] = d.endpoints[ep]
    BY DEF Put
<1> HIDE DEF table
<1>6. /\ x.providers = d.providers /\ x.endpoints = table /\ x.challenges = d.challenges
      /\ x.rows = d.rows
    BY Changes DEF Record, Good, IsDb
<1> HIDE DEF x
<1>7. /\ ExactRows(x, U, missed) /\ ExactChallenges(x, U)
      /\ Regular => ExactProviders(x, U) /\ ExactNames(x, U, missed)
    BY <1>2, <1>3, <1>6, Untouched DEF Exact
<1>8. ASSUME Regular PROVE ExactEndpoints(x, U)
    <2>1. pid = FirstId(Ev(e).provider)
        BY <1>8, ProviderFound DEF Exact
    <2> HIDE DEF pid
    <2>2. U \cap Of({"EndpointRegistered"}) = (T \cap Of({"EndpointRegistered"})) \cup {e}
        OBVIOUS
    <2>3. ExactEndpoints(d, T)
        BY <1>8 DEF Exact
    <2>4. DOMAIN table = {Ev(f).endpoint : f \in U \cap Of({"EndpointRegistered"})}
        BY <1>5, <2>2, <2>3 DEF ExactEndpoints
    <2>5. ASSUME NEW f \in U \cap Of({"EndpointRegistered"})
          PROVE  /\ table[Ev(f).endpoint].owner = Ev(f).provider
                 /\ table[Ev(f).endpoint].provider_id = FirstId(Ev(f).provider)
        <3>1. CASE f = e
            BY <1>4, <1>5, <2>1, <3>1
        <3>2. CASE f # e
            <4>1. f \in T \cap Of({"EndpointRegistered"}) /\ Ev(f).endpoint # Ev(e).endpoint
                BY <3>2, ContractsAssumption
            <4>2. table[Ev(f).endpoint] = d.endpoints[Ev(f).endpoint]
                BY <1>5, <2>3, <4>1 DEF ExactEndpoints
            <4> QED BY <2>3, <4>1, <4>2 DEF ExactEndpoints
        <3> QED BY <3>1, <3>2
    <2> HIDE DEF U
    <2> QED BY <1>6, <2>4, <2>5 DEF ExactEndpoints
<1> QED BY <1>1, <1>7, <1>8 DEF Exact

LEMMA NothingIn ==
    ASSUME NEW S, NEW s \in Seq(S), DOMAIN s = {}
    PROVE  s = <<>>
<1>1. DOMAIN s = 1 .. Len(s) /\ Len(s) \in Nat
    OBVIOUS
<1>2. 1 \notin 1 .. Len(s)
    BY <1>1
<1>3. Len(s) = 0
    BY <1>1, <1>2
<1> QED BY <1>3, EmptySeq

LEMMA AppendRowExact ==
    ASSUME NEW d, Good(d), NEW e \in Of(Names("staking")), NEW T, Exact(d, T, missed), e \notin T
    PROVE  Exact(AppendRow(d, e, NULL), T \cup {e}, missed)
<1> DEFINE rows == [d.rows EXCEPT ![e] = Append(@, NULL)]
           x == [d EXCEPT !.rows = rows]
           U == T \cup {e}
<1>1. AppendRow(d, e, NULL) = x
    BY DEF AppendRow
<1>2. /\ e \in EventIds /\ e \in Appended /\ Ev(e).type \in Names("staking")
      /\ d.rows \in [Appended -> Seq(Ids)]
    BY OfTypes, StakingAppends DEF Good, IsDb
<1>3. Ev(e).type \notin PerProvider /\ Ev(e).type \notin Names("challenges")
      /\ Ev(e).type \notin {"ProviderDeployed", "ProviderRegistered", "EndpointRegistered"}
    BY <1>2, StepsAndNames DEF PerProvider
<1>4. DOMAIN rows[e] = {1} /\ \A f \in Appended \ {e} : rows[f] = d.rows[f]
    <2>1. d.rows[e] \in Seq(Ids) /\ DOMAIN d.rows[e] = {}
        BY <1>2 DEF Exact, ExactRows
    <2>2. d.rows[e] = <<>>
        BY <2>1, NothingIn
    <2>3. rows[e] = <<NULL>>
        BY <1>2, <2>2
    <2> QED BY <1>2, <2>3
<1> HIDE DEF rows
<1>5. /\ x.providers = d.providers /\ x.endpoints = d.endpoints /\ x.challenges = d.challenges
      /\ x.rows = rows
    BY Changes DEF Record, Good, IsDb
<1> HIDE DEF x
<1>6. ExactRows(x, U, missed)
    <2>1. e \notin missed
        BY DEF Exact, ExactRows
    <2> QED BY <1>4, <1>5, <2>1 DEF Exact, ExactRows
<1>7. \A f \in Of(PerProvider) : x.rows[f] = d.rows[f]
    <2>1. \A f \in Of(PerProvider) : f \in Appended \ {e}
        BY <1>3, OfTypes DEF PerProvider, Appended, AppendedTypes
    <2> QED BY <1>4, <1>5, <2>1
<1>8. /\ ExactChallenges(x, U)
      /\ Regular => ExactProviders(x, U) /\ ExactEndpoints(x, U) /\ ExactNames(x, U, missed)
    BY <1>2, <1>3, <1>5, <1>7, Untouched DEF Exact
<1> QED BY <1>1, <1>6, <1>8 DEF Exact

LEMMA InsertChallengeExact ==
    ASSUME NEW d, Good(d), NEW e \in Of({"ChallengeOpened"}), NEW T, NEW b, NEW readable,
           Exact(d, T, missed), Due(T, b, e)
    PROVE  Exact(InsertChallenge(d, e, readable), T \cup {e}, missed)
<1> DEFINE row == NewChallenge(e, readable)
           table == Put(d.challenges, Ev(e).id, row)
           x == [d EXCEPT !.challenges = table]
           U == T \cup {e}
<1>1. e \in EventIds /\ Ev(e).type = "ChallengeOpened" /\ e \notin T
    BY OfTypes DEF Due
<1>2. /\ e \notin Appended
      /\ Ev(e).type \notin {"ProviderDeployed", "ProviderRegistered", "EndpointRegistered"}
      /\ Ev(e).type \notin PerProvider
    BY <1>1, NotAppended
<1>3. /\ DOMAIN d.challenges = {Ev(f).id : f \in T \cap Of({"ChallengeOpened"})}
      /\ \A f \in T \cap Of({"ChallengeOpened"}) :
             d.challenges[Ev(f).id].endpoint = Ev(f).endpoint
      /\ \A id \in DOMAIN d.challenges :
             "endpoint" \in DOMAIN d.challenges[id] /\ d.challenges[id].status = VerdictIn(id, T)
    BY DEF Exact, ExactChallenges
<1>4. Ev(e).id \notin DOMAIN d.challenges
    BY <1>1, <1>3, ContractsAssumption
<1>5. InsertChallenge(d, e, readable) = x
    BY <1>4 DEF InsertChallenge
<1>6. row.status = 0 /\ row.endpoint = Ev(e).endpoint /\ "endpoint" \in DOMAIN row
    BY DEF NewChallenge
<1> HIDE DEF row
<1>7. /\ DOMAIN table = DOMAIN d.challenges \cup {Ev(e).id}
      /\ table[Ev(e).id] = row
      /\ \A id \in DOMAIN d.challenges : table[id] = d.challenges[id]
    BY <1>4 DEF Put
<1> HIDE DEF table
<1>8. /\ x.providers = d.providers /\ x.endpoints = d.endpoints /\ x.challenges = table
      /\ x.rows = d.rows
    BY Changes DEF Record, Good, IsDb
<1> HIDE DEF x
<1>9. /\ ExactRows(x, U, missed)
      /\ Regular => ExactProviders(x, U) /\ ExactEndpoints(x, U) /\ ExactNames(x, U, missed)
    BY <1>1, <1>2, <1>8, Untouched DEF Exact
<1>10. ExactChallenges(x, U)
    <2>1. U \cap Of({"ChallengeOpened"}) = (T \cap Of({"ChallengeOpened"})) \cup {e}
        OBVIOUS
    <2>2. U \cap Of({"ChallengeResolved"}) = T \cap Of({"ChallengeResolved"})
        BY <1>1, OfTypes
    <2>3. \A id : VerdictIn(id, U) = VerdictIn(id, T)
        BY <2>2, VerdictsSame
    <2>4. VerdictIn(Ev(e).id, T) = 0
        <3>1. {f \in T \cap Of({"ChallengeResolved"}) : Ev(f).id = Ev(e).id} = {}
            BY <1>1 DEF Due
        <3> QED BY <3>1 DEF VerdictIn
    <2>5. DOMAIN table = {Ev(f).id : f \in U \cap Of({"ChallengeOpened"})}
        BY <1>3, <1>7, <2>1
    <2>6. \A f \in U \cap Of({"ChallengeOpened"}) : table[Ev(f).id].endpoint = Ev(f).endpoint
        BY <1>3, <1>6, <1>7, <2>1
    <2>7. \A id \in DOMAIN table :
              "endpoint" \in DOMAIN table[id] /\ table[id].status = VerdictIn(id, U)
        BY <1>3, <1>6, <1>7, <2>3, <2>4
    <2> HIDE DEF U
    <2> QED BY <1>8, <2>5, <2>6, <2>7 DEF ExactChallenges
<1> QED BY <1>5, <1>9, <1>10 DEF Exact

LEMMA ResolveChallengeExact ==
    ASSUME NEW d, Good(d), NEW e \in Of({"ChallengeResolved"}), NEW T, NEW b,
           Exact(d, T, missed), Due(T, b, e)
    PROVE  Exact(ResolveChallenge(d, e), T \cup {e}, missed)
<1> DEFINE key == Ev(e).id
           row == [d.challenges[key] EXCEPT !.status = Ev(e).result, !.resolved = e[1]]
           table == [d.challenges EXCEPT ![key] = row]
           x == [d EXCEPT !.challenges = table]
           U == T \cup {e}
<1>1. e \in EventIds /\ Ev(e).type = "ChallengeResolved" /\ e[1] <= b /\ b \in Int
    BY OfTypes DEF Due
<1>2. /\ e \notin Appended
      /\ Ev(e).type \notin {"ProviderDeployed", "ProviderRegistered", "EndpointRegistered"}
      /\ Ev(e).type \notin PerProvider
    BY <1>1, NotAppended
<1>3. /\ DOMAIN d.challenges = {Ev(f).id : f \in T \cap Of({"ChallengeOpened"})}
      /\ \A f \in T \cap Of({"ChallengeOpened"}) :
             d.challenges[Ev(f).id].endpoint = Ev(f).endpoint
      /\ \A id \in DOMAIN d.challenges :
             "endpoint" \in DOMAIN d.challenges[id] /\ d.challenges[id].status = VerdictIn(id, T)
    BY DEF Exact, ExactChallenges
<1>4. key \in DOMAIN d.challenges
    <2>1. PICK f \in Of({"ChallengeOpened"}) : Ev(f).id = key /\ ChainOrder(f, e)
        BY HistoryAssumption
    <2>2. f \in EventIds
        BY OfTypes
    <2>3. f[1] <= b
        BY <1>1, <2>1, <2>2, Chain, EventPairs
    <2>4. f \in T
        BY <1>1, <2>3 DEF Due
    <2> QED BY <1>3, <2>1, <2>4
<1>5. ResolveChallenge(d, e) = x
    BY <1>4 DEF ResolveChallenge
<1>6. /\ "endpoint" \in DOMAIN row /\ row.endpoint = d.challenges[key].endpoint
      /\ row.status = Ev(e).result
    BY <1>3, <1>4 DEF Good, IsDb
<1> HIDE DEF row
<1>7. /\ DOMAIN table = DOMAIN d.challenges /\ table[key] = row
      /\ \A id \in DOMAIN d.challenges \ {key} : table[id] = d.challenges[id]
    BY <1>4
<1> HIDE DEF table
<1>8. /\ x.providers = d.providers /\ x.endpoints = d.endpoints /\ x.challenges = table
      /\ x.rows = d.rows
    BY Changes DEF Record, Good, IsDb
<1> HIDE DEF x
<1>9. /\ ExactRows(x, U, missed)
      /\ Regular => ExactProviders(x, U) /\ ExactEndpoints(x, U) /\ ExactNames(x, U, missed)
    BY <1>1, <1>2, <1>8, Untouched DEF Exact
<1>10. ExactChallenges(x, U)
    <2>1. U \cap Of({"ChallengeOpened"}) = T \cap Of({"ChallengeOpened"})
        BY <1>1, OfTypes
    <2>2. VerdictIn(key, U) = Ev(e).result
        <3> DEFINE its == {f \in U \cap Of({"ChallengeResolved"}) : Ev(f).id = key}
        <3>1. its = {e}
            BY HistoryAssumption
        <3>2. VerdictIn(key, U) = IF its = {} THEN 0 ELSE Ev(CHOOSE f \in its : TRUE).result
            BY DEF VerdictIn
        <3> HIDE DEF its
        <3> QED BY <3>1, <3>2
    <2>3. ASSUME NEW id \in DOMAIN d.challenges \ {key}
          PROVE  VerdictIn(id, U) = VerdictIn(id, T)
        <3> DEFINE its(V) == {f \in V \cap Of({"ChallengeResolved"}) : Ev(f).id = id}
                   Result(S) == IF S = {} THEN 0 ELSE Ev(CHOOSE f \in S : TRUE).result
        <3>1. its(U) = its(T)
            OBVIOUS
        <3>2. VerdictIn(id, U) = Result(its(U)) /\ VerdictIn(id, T) = Result(its(T))
            BY DEF VerdictIn
        <3> HIDE DEF its, Result
        <3> QED BY <3>1, <3>2
    <2> HIDE DEF U
    <2>4. DOMAIN table = {Ev(f).id : f \in U \cap Of({"ChallengeOpened"})}
        BY <1>3, <1>7, <2>1
    <2>5. \A f \in U \cap Of({"ChallengeOpened"}) : table[Ev(f).id].endpoint = Ev(f).endpoint
        BY <1>3, <1>6, <1>7, <2>1
    <2>6. \A id \in DOMAIN table :
              "endpoint" \in DOMAIN table[id] /\ table[id].status = VerdictIn(id, U)
        BY <1>3, <1>6, <1>7, <2>2, <2>3
    <2> QED BY <1>8, <2>4, <2>5, <2>6 DEF ExactChallenges
<1> QED BY <1>5, <1>9, <1>10 DEF Exact

LEMMA ProcessExact ==
    ASSUME NEW step \in CoreSteps, NEW d, Good(d), NEW e \in Of(Names(step)), NEW readable,
           NEW T, NEW b, Exact(d, T, missed), Due(T, b, e)
    PROVE  Exact(Process(step, d, e, readable), T \cup {e}, missed)
<1>1. e \in EventIds /\ Ev(e).type \in Names(step)
    BY OfTypes
<1>2. CASE step = "factory"
    <2>1. e \in Of({"ProviderDeployed"}) /\ Process(step, d, e, readable) = InsertProvider(d, e)
        BY <1>2, StepsAndNames DEF Process
    <2> QED BY <2>1, InsertProviderExact
<1>3. CASE step = "registry"
    <2>1. Process(step, d, e, readable) = ProcessRegistry(d, e, readable)
        BY <1>3 DEF Process
    <2>2. CASE Ev(e).type = "ProviderRegistered"
        <3>1. e \in Of({"ProviderRegistered"})
            BY <1>1, <2>2, OfTypes
        <3> QED BY <2>1, <2>2, <3>1, UpdateProviderExact DEF ProcessRegistry
    <2>3. CASE Ev(e).type # "ProviderRegistered"
        <3>1. e \in Of({"EndpointRegistered"})
            BY <1>1, <1>3, <2>3, StepsAndNames, OfTypes
        <3> QED BY <2>1, <2>3, <3>1, ReplaceEndpointExact DEF ProcessRegistry
    <2> QED BY <2>2, <2>3
<1>4. CASE step = "staking"
    <2>1. Process(step, d, e, readable) = AppendRow(d, e, NULL) /\ e \notin T
        BY <1>4 DEF Process, Due
    <2> QED BY <1>4, <2>1, AppendRowExact
<1>5. CASE step = "challenges"
    <2>1. Process(step, d, e, readable) = ProcessChallenges(d, e, readable)
        BY <1>5 DEF Process
    <2>2. CASE Ev(e).type = "ChallengeOpened"
        <3>1. e \in Of({"ChallengeOpened"})
            BY <1>1, <2>2, OfTypes
        <3> QED BY <2>1, <2>2, <3>1, InsertChallengeExact DEF ProcessChallenges
    <2>3. CASE Ev(e).type # "ChallengeOpened"
        <3>1. e \in Of({"ChallengeResolved"})
            BY <1>1, <1>5, <2>3, StepsAndNames, OfTypes
        <3> QED BY <2>1, <2>3, <3>1, ResolveChallengeExact DEF ProcessChallenges
    <2> QED BY <2>2, <2>3
<1> QED BY <1>2, <1>3, <1>4, <1>5, StepsAndNames

-----------------------------------------------------------------------------
(***************************************************************************)
(* A step of the core.  T is what a sync that starts after block c has     *)
(* behind it when it comes to the step; the step reads up to block b.      *)
(***************************************************************************)
Noted == {e \in EventIds : Ev(e).type # "EndpointUpdated"}

Before(step, c, b) ==
    {e \in Noted : e[1] <= c \/ (e[1] <= b /\ Ev(e).type \in Behind(step))}

Fresh(step, c, b) == {e \in Of(Names(step)) : c < e[1] /\ e[1] <= b}

\* The first n events the step has.
Begun(step, c, b, n) ==
    Before(step, c, b) \cup {e \in Fresh(step, c, b) : \E m \in 1 .. n : Logs[step][m] = e}

LEMMA BehindCore ==
    /\ Behind("factory") = {} /\ Behind("registry") = {"ProviderDeployed"}
    /\ Behind("staking") = {"ProviderDeployed", "ProviderRegistered", "EndpointRegistered"}
    /\ Behind("challenges") = {"ProviderDeployed", "ProviderRegistered", "EndpointRegistered",
                               "Staked", "UnstakeRequested", "Withdrawn", "Slashed"}
<1>1. /\ Behind("factory") = {} /\ Behind("registry") = Names("factory")
      /\ Behind("staking") = Names("factory") \cup Names("registry")
      /\ Behind("challenges") = Names("factory") \cup Names("registry") \cup Names("staking")
    BY DEF Behind
<1> QED BY <1>1, StepsAndNames

\* The registrations of a step come before its endpoints, and deployments
\* in the order of the chain.
LEMMA RegisteredFirst ==
    ASSUME NEW k \in 1 .. Len(Logs["registry"]), NEW l \in 1 .. Len(Logs["registry"]),
           Ev(Logs["registry"][k]).type = "ProviderRegistered",
           Ev(Logs["registry"][l]).type = "EndpointRegistered"
    PROVE  k < l
<1> DEFINE e == Logs["registry"][k]
           f == Logs["registry"][l]
<1>1. "registry" \in CoreSteps
    BY StepsAndNames
<1>2. ~InOrder("registry", f, e)
    <2> SUFFICES ASSUME InOrder("registry", f, e) PROVE FALSE
        OBVIOUS
    <2>1. Fetches["registry"] = <<"ProviderRegistered", "EndpointRegistered">>
        BY DEF Fetches
    <2>2. PICK i \in {1, 2}, j \in {1, 2} :
              /\ Ev(f).type = <<"ProviderRegistered", "EndpointRegistered">>[i]
              /\ Ev(e).type = <<"ProviderRegistered", "EndpointRegistered">>[j]
              /\ i < j \/ i = j
        BY <2>1 DEF InOrder
    <2> QED BY <2>2
<1>3. ~(l < k) /\ k # l
    BY <1>1, <1>2, LogFacts
<1>4. Len(Logs["registry"]) \in Nat
    BY <1>1, LogFacts
<1> QED BY <1>3, <1>4

LEMMA DeployedInOrder ==
    ASSUME NEW k \in 1 .. Len(Logs["factory"]), NEW l \in 1 .. Len(Logs["factory"]), k < l
    PROVE  ChainOrder(Logs["factory"][k], Logs["factory"][l])
<1>1. InOrder("factory", Logs["factory"][k], Logs["factory"][l])
    BY StepsAndNames, LogFacts
<1>2. Fetches["factory"] = <<"ProviderDeployed">>
    BY DEF Fetches
<1> QED BY <1>1, <1>2 DEF InOrder

LEMMA DueInTurn ==
    ASSUME NEW step \in CoreSteps, NEW c \in Int, NEW b \in Int, c <= b,
           NEW n \in 1 .. Len(Logs[step]), Logs[step][n] \in Fresh(step, c, b)
    PROVE  Due(Begun(step, c, b, n - 1), b, Logs[step][n])
<1> DEFINE L == Logs[step]
           e == L[n]
           T == Before(step, c, b)
           U == Begun(step, c, b, n - 1)
<1>1. /\ e \in EventIds /\ Ev(e).type \in Names(step) /\ c < e[1] /\ e[1] <= b
      /\ Len(L) \in Nat /\ \A m \in 1 .. Len(L) : L[m] \in EventIds
      /\ \A f \in EventIds : f[1] \in Nat
    BY LogFacts, EventPairs DEF Fresh
<1>2. \A f \in U : \/ f \in T
                   \/ /\ f \in Of(Names(step)) /\ \E m \in 1 .. Len(L) : m < n /\ L[m] = f
                      /\ f[1] <= b /\ c < f[1]
    <2>1. \A m \in 1 .. n - 1 : m \in 1 .. Len(L) /\ m < n
        BY <1>1
    <2> QED BY <2>1 DEF Begun, Fresh
<1>3. T \subseteq U
    BY DEF Begun
<1>4. \A f \in T : f \in EventIds /\ (f[1] <= c \/ (f[1] <= b /\ Ev(f).type \in Behind(step)))
    BY DEF Before, Noted
<1>5. \A f \in EventIds : Ev(f).type # "EndpointUpdated" /\ f[1] <= c => f \in T
    BY DEF Before, Noted
<1>6. \A m \in 1 .. Len(L) : m < n /\ L[m] \in Fresh(step, c, b) => L[m] \in U
    <2>1. \A m \in 1 .. Len(L) : m < n => m \in 1 .. n - 1
        BY <1>1
    <2> QED BY <2>1 DEF Begun
<1>7. \A f \in Of(Names(step)) : /\ f \in EventIds /\ Ev(f).type \in Names(step)
                                 /\ \E m \in 1 .. Len(L) : L[m] = f
    BY LogFacts, OfTypes
<1> HIDE DEF T, U
<1>8. U \subseteq EventIds /\ \A f \in U : f[1] <= b
    <2>1. ASSUME NEW f \in U PROVE f \in EventIds /\ f[1] <= b
        <3>1. CASE f \in T
            <4>1. f \in EventIds /\ f[1] \in Nat /\ (f[1] <= c \/ f[1] <= b)
                BY <1>1, <1>4, <3>1
            <4> QED BY <4>1
        <3>2. CASE f \notin T
            BY <1>1, <1>2, <1>7, <3>2
        <3> QED BY <3>1, <3>2
    <2> QED BY <2>1
<1>9. e \notin U
    <2>1. e \notin T
        <3>1. Ev(e).type \notin Behind(step)
            BY <1>1, StepsAndNames, BehindCore
        <3>2. ~(e[1] <= c)
            BY <1>1
        <3> QED BY <1>4, <3>1, <3>2
    <2>2. \A m \in 1 .. Len(L) : m < n => L[m] # e
        BY <1>1, LogOnce
    <2> QED BY <1>2, <2>1, <2>2
<1>10. ASSUME Ev(e).type = "ProviderDeployed"
       PROVE  /\ \A f \in U \cap Of({"ProviderDeployed"}) : ChainOrder(f, e)
              /\ RegistrationOf(e) \notin U
    <2>1. step = "factory"
        BY <1>1, <1>10, StepsAndNames
    <2>2. ASSUME NEW f \in U PROVE ChainOrder(f, e)
        <3>1. CASE f \in T
            <4>1. f \in EventIds /\ f[1] <= c
                BY <1>4, <2>1, <3>1, BehindCore
            <4>2. f[1] < e[1]
                BY <1>1, <4>1
            <4> QED BY <4>2 DEF ChainOrder
        <3>2. CASE f \notin T
            BY <1>2, <2>1, <2>2, <3>2, DeployedInOrder
        <3> QED BY <3>1, <3>2
    <2>3. e \in Of({"ProviderDeployed"})
        BY <1>1, <1>10, OfTypes
    <2> DEFINE g == RegistrationOf(e)
    <2>4. g \in EventIds /\ Ev(g).type = "ProviderRegistered" /\ g[1] = e[1]
        BY <2>3, Registrations, OfTypes
    <2> HIDE DEF g
    <2>5. ~ChainOrder(e, g) \/ ~ChainOrder(g, e)
        BY <1>1, <2>4, Chain
    <2>6. g \notin U
        <3>1. g \notin T
            <4>1. ~(g[1] <= c)
                BY <1>1, <2>4
            <4> QED BY <1>4, <2>1, <4>1, BehindCore
        <3>2. g \notin Of(Names(step))
            BY <2>1, <2>4, OfTypes, StepsAndNames
        <3> QED BY <1>2, <3>1, <3>2
    <2> QED BY <2>2, <2>6 DEF g
<1>11. ASSUME Ev(e).type = "EndpointRegistered"
       PROVE  Deployers(b) \cup {g \in Of({"ProviderRegistered"}) : g[1] <= b} \subseteq U
    <2>1. step = "registry"
        BY <1>1, <1>11, StepsAndNames
    <2>2. Deployers(b) \subseteq T
        BY <2>1, BehindCore, OfTypes DEF Deployers, Before, Noted, T
    <2>3. ASSUME NEW g \in Of({"ProviderRegistered"}), g[1] <= b PROVE g \in U
        <3>1. g \in EventIds /\ Ev(g).type = "ProviderRegistered" /\ g \in Of(Names(step))
            BY <2>1, OfTypes, StepsAndNames
        <3>2. CASE g[1] <= c
            BY <1>3, <1>5, <3>1, <3>2
        <3>3. CASE ~(g[1] <= c)
            <4>1. g \in Fresh(step, c, b)
                BY <1>1, <2>3, <3>1, <3>3 DEF Fresh
            <4>2. PICK m \in 1 .. Len(L) : L[m] = g
                BY <1>7, <3>1
            <4>3. m < n
                BY <1>11, <2>1, <3>1, <4>2, RegisteredFirst
            <4> QED BY <1>6, <4>1, <4>2, <4>3
        <3> QED BY <3>2, <3>3
    <2> QED BY <1>3, <2>2, <2>3
<1>12. ASSUME Ev(e).type = "ChallengeOpened", NEW f \in U \cap Of({"ChallengeResolved"})
       PROVE  Ev(f).id # Ev(e).id
    <2>1. step = "challenges" /\ e \in Of({"ChallengeOpened"})
        BY <1>1, <1>12, StepsAndNames, OfTypes
    <2>2. f \in EventIds /\ Ev(f).type = "ChallengeResolved"
        BY OfTypes
    <2>3. CASE f \in T
        <3> SUFFICES ASSUME Ev(f).id = Ev(e).id PROVE FALSE
            OBVIOUS
        <3>1. f[1] <= c
            BY <1>4, <2>1, <2>2, <2>3, BehindCore
        <3>2. PICK g \in Of({"ChallengeOpened"}) : Ev(g).id = Ev(f).id /\ ChainOrder(g, f)
            BY <1>12, HistoryAssumption
        <3>3. g = e
            BY <2>1, <3>2, ContractsAssumption
        <3>4. e[1] <= f[1]
            BY <1>1, <2>2, <3>2, <3>3, Chain
        <3> QED BY <1>1, <2>2, <3>1, <3>4
    <2>4. CASE f \notin T
        <3>1. PICK m \in 1 .. Len(L) : m < n /\ L[m] = f
            BY <1>2, <1>12, <2>4
        <3>2. n < m
            BY <1>12, <2>1, <2>2, <3>1, OpenedFirst
        <3> QED BY <1>1, <3>1, <3>2
    <2> QED BY <2>3, <2>4
<1>13. ASSUME Ev(e).type = "ChallengeResolved"
       PROVE  {f \in Of({"ChallengeOpened"}) : f[1] <= b} \subseteq U
    <2>1. step = "challenges"
        BY <1>1, <1>13, StepsAndNames
    <2>2. ASSUME NEW g \in Of({"ChallengeOpened"}), g[1] <= b PROVE g \in U
        <3>1. g \in EventIds /\ Ev(g).type = "ChallengeOpened" /\ g \in Of(Names(step))
            BY <2>1, OfTypes, StepsAndNames
        <3>2. CASE g[1] <= c
            BY <1>3, <1>5, <3>1, <3>2
        <3>3. CASE ~(g[1] <= c)
            <4>1. g \in Fresh(step, c, b)
                BY <1>1, <2>2, <3>1, <3>3 DEF Fresh
            <4>2. PICK m \in 1 .. Len(L) : L[m] = g
                BY <1>7, <3>1
            <4>3. m < n
                BY <1>13, <2>1, <3>1, <4>2, OpenedFirst
            <4> QED BY <1>6, <4>1, <4>2, <4>3
        <3> QED BY <3>2, <3>3
    <2> QED BY <2>2
<1> HIDE DEF e, L
<1>14. Due(U, b, e)
    BY <1>1, <1>8, <1>9, <1>10, <1>11, <1>12, <1>13 DEF Due
<1> QED BY <1>14 DEF U, e, L

LEMMA ProcessedExact ==
    ASSUME NEW step \in CoreSteps, NEW d, Good(d), NEW c \in Int, NEW b \in Int, c <= b,
           NEW readable, Exact(d, Before(step, c, b), missed)
    PROVE  Exact(Processed(d, step, Fresh(step, c, b), readable),
                 Before(step, c, b) \cup Fresh(step, c, b), missed)
<1> DEFINE N == Len(Logs[step])
           L == Logs[step]
           events == Fresh(step, c, b)
           T(n) == Begun(step, c, b, n)
<1>1. PICK after : /\ after[0] = d /\ after[N] = Processed(d, step, events, readable)
                   /\ \A n \in 1 .. N : after[n] = Next1(after[n - 1], step, events, readable, n)
    BY FoldSteps
<1>2. /\ N \in Nat
      /\ \A n \in 1 .. N : L[n] \in Of(Names(step)) /\ L[n] \in EventIds
      /\ \A f \in Of(Names(step)) : \E n \in 1 .. N : L[n] = f
    BY LogFacts, OfTypes
<1> DEFINE G == {n \in 0 .. N : Good(after[n]) /\ Exact(after[n], T(n), missed)}
<1>3. 0 \in G
    <2>1. T(0) = Before(step, c, b)
        BY DEF Begun
    <2> HIDE DEF T
    <2> QED BY <1>1, <1>2, <2>1
<1>4. ASSUME NEW n \in 1 .. N, n - 1 \in G PROVE n \in G
    <2>1. /\ Good(after[n - 1]) /\ Exact(after[n - 1], T(n - 1), missed) /\ n \in 0 .. N
          /\ after[n] = Next1(after[n - 1], step, events, readable, n)
        BY <1>1, <1>2, <1>4
    <2>2. \A m \in 1 .. n : m = n \/ m \in 1 .. n - 1
        BY <1>2
    <2>3. \A m \in 1 .. n - 1 : m \in 1 .. n
        BY <1>2
    <2>4. n \in 1 .. n
        BY <1>2
    <2>5. CASE L[n] \in events
        <3>1. T(n) = T(n - 1) \cup {L[n]}
            BY <2>2, <2>3, <2>4, <2>5 DEF Begun
        <3>2. after[n] = Process(step, after[n - 1], L[n], readable)
            BY <2>1, <2>5 DEF Next1
        <3>3. Due(T(n - 1), b, L[n])
            BY <2>5, DueInTurn
        <3>4. L[n] \in Of(Names(step))
            BY <1>2
        <3> HIDE DEF T, L, events
        <3>5. Good(after[n])
            BY <2>1, <3>2, <3>4, ProcessGood
        <3>6. Exact(after[n], T(n), missed)
            BY <2>1, <3>1, <3>2, <3>3, <3>4, ProcessExact
        <3> QED BY <2>1, <3>5, <3>6
    <2>6. CASE L[n] \notin events
        <3>1. T(n) = T(n - 1)
            BY <2>2, <2>3, <2>6 DEF Begun
        <3>2. after[n] = after[n - 1]
            BY <2>1, <2>6 DEF Next1
        <3> HIDE DEF T, L, events
        <3> QED BY <2>1, <3>1, <3>2
    <2> QED BY <2>5, <2>6
<1>5. N \in G
    <2> HIDE DEF G, N
    <2> QED BY <1>2, <1>3, <1>4, Reaches
<1>6. T(N) = Before(step, c, b) \cup events
    <2>1. \A f \in events : f \in Of(Names(step))
        BY DEF Fresh
    <2> QED BY <1>2, <2>1 DEF Begun
<1> HIDE DEF T, N, events
<1>7. Exact(after[N], T(N), missed)
    BY <1>5
<1> QED BY <1>1, <1>6, <1>7 DEF events

LEMMA RowsAppendedNothing ==
    ASSUME NEW d, Good(d)
    PROVE  RowsAppended(d, {}) = d
<1>1. RowsAppended(d, {}) = [d EXCEPT !.rows = [e \in Appended |-> d.rows[e]]]
    BY DEF RowsAppended
<1>2. [e \in Appended |-> d.rows[e]] = d.rows
    BY DEF Good, IsDb
<1>3. [d EXCEPT !.rows = d.rows] = d
    BY Changes DEF Good, IsDb, Record
<1> QED BY <1>1, <1>2, <1>3

\* The upsert of the cursors is in no table that Exact is about.
LEMMA SyncStateExact ==
    ASSUME NEW d, Good(d), NEW T, NEW lost, Exact(d, T, lost), NEW table, NEW block
    PROVE  Exact([d EXCEPT !.sync_state[table] = block], T, lost)
<1> DEFINE x == [d EXCEPT !.sync_state = [d.sync_state EXCEPT ![table] = block]]
<1>1. [d EXCEPT !.sync_state[table] = block] = x
    OBVIOUS
<1>2. /\ x.providers = d.providers /\ x.endpoints = d.endpoints /\ x.challenges = d.challenges
      /\ x.rows = d.rows
    BY Changes DEF Record, Good, IsDb
<1> HIDE DEF x
<1>3. ExactRows(x, T, lost) /\ ExactChallenges(x, T)
    BY <1>2 DEF Exact, ExactRows, ExactChallenges
<1>4. Regular => ExactProviders(x, T)
    BY <1>2 DEF Exact, ExactProviders
<1>5. Regular => ExactEndpoints(x, T)
    BY <1>2 DEF Exact, ExactEndpoints
<1>6. Regular => ExactNames(x, T, lost)
    BY <1>2 DEF Exact, ExactNames
<1> QED BY <1>1, <1>3, <1>4, <1>5, <1>6 DEF Exact

LEMMA RowsAppendedExact ==
    ASSUME NEW d, Good(d), NEW T, T \subseteq EventIds, NEW lost, Exact(d, T, lost), NEW b,
           NEW due, due \subseteq Of(PerProvider), due \cap T = {}, \A f \in T : f[1] <= b,
           Deployers(b) \cup {g \in Of({"ProviderRegistered"}) : g[1] <= b} \subseteq T,
           NEW found, found = {e \in due : RowsOf(d, e) # {}}
    PROVE  Exact(RowsAppended(d, found), T \cup due, lost \cup (due \ found))
<1> DEFINE pid(e) == d.providers[CHOOSE i \in RowsOf(d, e) : TRUE].id
           rows == [e \in Appended |->
                       IF e \in found THEN Append(d.rows[e], pid(e)) ELSE d.rows[e]]
           x == [d EXCEPT !.rows = rows]
           U == T \cup due
           L == lost \cup (due \ found)
<1>1. RowsAppended(d, found) = x
    BY DEF RowsAppended
<1>2. /\ d.rows \in [Appended -> Seq(Ids)] /\ Of(PerProvider) \subseteq Appended
      /\ \A e \in due : e \in EventIds /\ Ev(e).type \in PerProvider
    BY OfTypes DEF Good, IsDb, PerProvider, Appended, AppendedTypes
<1>3. /\ lost \subseteq T \cap Of(PerProvider)
      /\ \A e \in Appended : DOMAIN d.rows[e] = IF e \in T \ lost THEN {1} ELSE {}
    BY DEF Exact, ExactRows
<1> HIDE DEF pid
<1>4. \A e \in Appended \ found : rows[e] = d.rows[e]
    OBVIOUS
<1>5. ASSUME NEW e \in found PROVE DOMAIN rows[e] = {1} /\ rows[e][1] = pid(e)
    <2>1. d.rows[e] \in Seq(Ids) /\ DOMAIN d.rows[e] = {} /\ e \in Appended
        BY <1>2, <1>3
    <2>2. d.rows[e] = <<>>
        BY <2>1, NothingIn
    <2>3. rows[e] = Append(<<>>, pid(e))
        BY <2>1, <2>2
    <2> HIDE DEF rows
    <2>4. \A v : Append(<<>>, v) = <<v>>
        OBVIOUS
    <2>5. rows[e] = <<pid(e)>>
        BY <2>3, <2>4
    <2> QED BY <2>5
<1> HIDE DEF rows
<1>6. /\ x.providers = d.providers /\ x.endpoints = d.endpoints /\ x.challenges = d.challenges
      /\ x.rows = rows
    BY Changes DEF Record, Good, IsDb
<1> HIDE DEF x
<1>7. ExactRows(x, U, L)
    <2>1. L \subseteq U \cap Of(PerProvider)
        BY <1>3
    <2>2. ASSUME NEW e \in Appended PROVE DOMAIN x.rows[e] = IF e \in U \ L THEN {1} ELSE {}
        <3>1. CASE e \in found
            BY <1>3, <1>5, <1>6, <3>1
        <3>2. CASE e \notin found
            <4>1. e \in U \ L <=> e \in T \ lost
                BY <1>3, <3>2
            <4> QED BY <1>3, <1>4, <1>6, <3>2, <4>1
        <3> QED BY <3>1, <3>2
    <2> HIDE DEF U, L
    <2> QED BY <2>1, <2>2 DEF ExactRows
<1>8. \A t : t \notin PerProvider => U \cap Of({t}) = T \cap Of({t})
    BY <1>2, OfTypes
<1>9. ExactChallenges(x, U)
    <2>1. /\ U \cap Of({"ChallengeOpened"}) = T \cap Of({"ChallengeOpened"})
          /\ U \cap Of({"ChallengeResolved"}) = T \cap Of({"ChallengeResolved"})
        BY <1>8 DEF PerProvider
    <2>2. \A id : VerdictIn(id, U) = VerdictIn(id, T)
        BY <2>1, VerdictsSame
    <2> HIDE DEF U
    <2> QED BY <1>6, <2>1, <2>2 DEF Exact, ExactChallenges
<1>10. ASSUME Regular PROVE ExactProviders(x, U) /\ ExactEndpoints(x, U) /\ ExactNames(x, U, L)
    <2>1. ExactProviders(d, T) /\ ExactEndpoints(d, T) /\ ExactNames(d, T, lost)
        BY <1>10 DEF Exact
    <2>2. /\ U \cap Of({"ProviderDeployed"}) = T \cap Of({"ProviderDeployed"})
          /\ U \cap Of({"EndpointRegistered"}) = T \cap Of({"EndpointRegistered"})
        BY <1>8 DEF PerProvider
    <2>3. \A row : \A f \in Of({"ProviderDeployed"}) : RowOf(row, f, T) => RowOf(row, f, U)
        <3>1. \A f \in Of({"ProviderDeployed"}) : RegistrationOf(f) \in U <=> RegistrationOf(f) \in T
            BY <1>2, Registrations, OfTypes DEF PerProvider
        <3> QED BY <3>1 DEF RowOf
    <2>4. ASSUME NEW e \in (U \cap Of(PerProvider)) \ L, NEW f \in Of({"ProviderDeployed"}),
                 Ev(f).share = Ev(e).share
          PROVE  x.rows[e][1] = Ev(RegistrationOf(f)).id
        <3>1. CASE e \in found
            <4> DEFINE i == CHOOSE i \in RowsOf(d, e) : TRUE
            <4>1. i \in RowsOf(d, e)
                BY <3>1
            <4> HIDE DEF i
            <4>2. i \in DOMAIN d.providers /\ d.providers[i].share = Ev(e).share
                BY <4>1 DEF RowsOf
            <4>3. PICK h \in T \cap Of({"ProviderDeployed"}) :
                      /\ d.providers[i].share = Ev(h).share
                      /\ d.providers[i].id = Ev(RegistrationOf(h)).id
                BY <1>10, <2>1, <4>2, CompleteRows
            <4>4. h = f
                BY <2>4, <4>2, <4>3, ContractsAssumption
            <4> QED BY <1>5, <1>6, <3>1, <4>3, <4>4 DEF pid, i
        <3>2. CASE e \notin found
            <4>1. e \in (T \cap Of(PerProvider)) \ lost /\ e \in Appended
                BY <1>2, <2>4, <3>2
            <4> QED BY <1>4, <1>6, <2>1, <2>4, <3>2, <4>1 DEF ExactNames
        <3> QED BY <3>1, <3>2
    <2> HIDE DEF U, L
    <2>5. ExactProviders(x, U)
        BY <1>6, <2>1, <2>2, <2>3 DEF ExactProviders
    <2>6. ExactEndpoints(x, U)
        BY <1>6, <2>1, <2>2 DEF ExactEndpoints
    <2>7. ExactNames(x, U, L)
        BY <2>4 DEF ExactNames
    <2> QED BY <2>5, <2>6, <2>7
<1> HIDE DEF U, L
<1>11. Exact(x, U, L)
    BY <1>7, <1>9, <1>10 DEF Exact
<1> QED BY <1>1, <1>11 DEF U, L

-----------------------------------------------------------------------------
(***************************************************************************)
(* While nothing fails and no syncs overlap at most one sync reads.        *)
(* Another that runs beside it has found nothing to read and only saves    *)
(* what the file said.                                                     *)
(***************************************************************************)
Calm == faults = 0 /\ overlaps = 0

Saving(p) == pc[p] \in {"save", "saving"}

Nobody == \A p \in Processes : ~Syncing(p)

\* Where its two cursors are when p is at a step.
Level(p) ==
    /\ pc[p] \in CoreSteps \cup {"core_state"} =>
           state[p].core = state[p].per_provider /\ core_from(state[p]) <= current_block[p]
    /\ pc[p] \in {"per_provider", "per_provider_state"} => state[p].core = current_block[p]
    /\ Saving(p) => state[p].core = state[p].per_provider

\* Who begins beside p overlaps with it or finds what p leaves in the file.
Seen(p) ==
    file # Torn => FirstStep(file, current_block[p]) # "save" \/ (Saving(p) /\ file = state[p])

Solo ==
    /\ writer \in Processes \cup {NULL}
    /\ \A p \in Processes : writer = p => executed[p]
    /\ \A p, q \in Processes : p # q /\ Syncing(p) /\ Syncing(q) =>
           Saving(p) /\ Saving(q) /\ state[p] = state[q]
    /\ \A p \in Processes : Syncing(p) => Level(p) /\ state[p] # Torn /\ Seen(p)
    /\ file.core = file.per_provider
    /\ Nobody => file # Torn

\* A process at a step has the database for itself.
LEMMA ByItself ==
    ASSUME Control, Solo, NEW p \in Processes, pc[p] \in Steps
    PROVE  /\ \A q \in Processes \ {p} : ~Syncing(q)
           /\ Syncing(p) /\ ~Saving(p)
           /\ ~executed[p] => writer = NULL
           /\ executed[p] => writer = p
<1>1. Syncing(p) /\ ~Saving(p)
    BY StepsAndNames DEF Syncing, Saving, Steps
<1>2. \A q \in Processes \ {p} : ~Syncing(q)
    BY <1>1 DEF Solo
<1>3. ASSUME ~executed[p], writer # NULL PROVE FALSE
    <2>1. writer \in Processes /\ executed[writer] /\ writer # p
        BY <1>3 DEF Solo
    <2>2. Syncing(writer)
        BY <2>1, StepsAndNames DEF Control, OnCourse, Steps, Syncing
    <2> QED BY <1>2, <2>1, <2>2
<1>4. executed[p] => writer = p
    BY DEF Control, OnCourse
<1> QED BY <1>1, <1>2, <1>3, <1>4

\* A process writes, or goes on to its next step.
Moves(p) ==
    /\ current_block'[p] = current_block[p]
    /\ \/ /\ pc'[p] = pc[p] /\ state'[p] = state[p] /\ executed'[p] = TRUE /\ writer' = p
       \/ /\ pc'[p] = StepAfter(p) /\ state'[p] = CursorsAfter(p) /\ executed'[p] = FALSE
          /\ writer' = NULL

LEMMA CursorsMove ==
    ASSUME Control, NEW p \in Processes
    PROVE  /\ state[p].core \in Int /\ state[p].per_provider \in Int /\ current_block[p] \in Nat
           /\ state[p] = [core |-> state[p].core, per_provider |-> state[p].per_provider]
           /\ CursorsAfter(p) = [core |-> CursorsAfter(p).core,
                                 per_provider |-> CursorsAfter(p).per_provider]
           /\ CursorsAfter(p).core = IF pc[p] = "core_state" THEN current_block[p]
                                     ELSE state[p].core
           /\ CursorsAfter(p).per_provider = IF pc[p] = "per_provider_state" THEN current_block[p]
                                             ELSE state[p].per_provider
<1>1. state[p] \in Cursors /\ current_block[p] \in Nat
    BY DEF Control, Typed
<1> QED BY <1>1 DEF Cursors, CursorsAfter

LEMMA LevelMoves ==
    ASSUME Control, NEW p \in Processes, pc[p] \in Steps, Level(p), state[p] # Torn, Moves(p)
    PROVE  Level(p)' /\ (state[p] # Torn)'
<1>1. Steps = {"factory", "registry", "staking", "challenges", "core_state", "per_provider",
               "per_provider_state"}
    BY StepsAndNames DEF Steps
<1>2. CASE pc'[p] = pc[p] /\ state'[p] = state[p]
    BY <1>2 DEF Moves, Level, Saving, core_from, Later
<1>3. CASE pc'[p] = StepAfter(p) /\ state'[p] = CursorsAfter(p)
    <2>1. current_block'[p] = current_block[p]
        BY DEF Moves
    <2>2. /\ state[p].core \in Int /\ state[p].per_provider \in Int /\ current_block[p] \in Nat
          /\ DeployBlock \in Nat
        BY CursorsMove, IndexerAssumption
    <2>3. CASE pc[p] \in CoreSteps
        <3>1. pc'[p] \in CoreSteps \cup {"core_state"} /\ ~Saving(p)'
            BY <1>3, <2>3, StepsAndNames DEF StepAfter, Saving
        <3>2. state'[p] = state[p]
            BY <1>3, <2>3, StepsAndNames DEF CursorsAfter
        <3>3. pc[p] \in CoreSteps \cup {"core_state"}
            BY <2>3
        <3> QED BY <2>1, <3>1, <3>2, <3>3, StepsAndNames DEF Level, core_from, Later
    <2>4. CASE pc[p] = "core_state"
        <3>1. state[p].core = state[p].per_provider /\ core_from(state[p]) <= current_block[p]
            BY <2>4 DEF Level
        <3>2. pp_from(state[p]) <= current_block[p]
            BY <3>1 DEF core_from, pp_from
        <3>3. pc'[p] = "per_provider"
            BY <1>3, <2>4, <3>2 DEF StepAfter
        <3>4. state'[p].core = current_block[p]
            BY <1>3, <2>4, CursorsMove
        <3>5. Level(p)'
            BY <2>1, <3>3, <3>4, StepsAndNames DEF Level, Saving
        <3>6. state'[p] # Torn
            BY <2>2, <3>4 DEF Torn
        <3> QED BY <3>5, <3>6
    <2>5. CASE pc[p] = "per_provider"
        <3>1. pc'[p] = "per_provider_state" /\ state'[p] = state[p]
            BY <1>3, <2>5 DEF StepAfter, CursorsAfter
        <3>2. state[p].core = current_block[p]
            BY <2>5 DEF Level
        <3> QED BY <2>1, <3>1, <3>2, StepsAndNames DEF Level, Saving
    <2>6. CASE pc[p] = "per_provider_state"
        <3>1. pc'[p] = "save"
            BY <1>3, <2>6 DEF StepAfter
        <3>2. state'[p].core = current_block[p] /\ state'[p].per_provider = current_block[p]
            BY <1>3, <2>6, CursorsMove DEF Level
        <3>3. state'[p] # Torn
            BY <2>2, <3>2 DEF Torn
        <3>4. Level(p)'
            BY <3>1, <3>2, StepsAndNames DEF Level, Saving
        <3> QED BY <3>3, <3>4
    <2> QED BY <1>1, <2>3, <2>4, <2>5, <2>6, StepsAndNames
<1> QED BY <1>2, <1>3 DEF Moves

LEMMA MovesSolo ==
    ASSUME Control, Solo, NEW p \in Processes, pc[p] \in Steps, Moves(p), Alone(p), file' = file
    PROVE  Solo'
<1>1. /\ \A q \in Processes \ {p} : ~Syncing(q) /\ ~Syncing(q)'
      /\ Syncing(p) /\ ~Saving(p)
    BY ByItself DEF Alone, Syncing
<1>2. Level(p)' /\ (state[p] # Torn)'
    BY <1>1, LevelMoves DEF Solo
<1>3. Syncing(p)'
    <2>1. StepAfter(p) \in Steps \cup {"save"}
        BY StepsAndNames DEF StepAfter, Steps
    <2>2. pc'[p] \in Steps \cup {"save"}
        BY <2>1 DEF Moves
    <2> QED BY <2>2, StepsAndNames DEF Syncing, Steps
<1>4. Seen(p)'
    <2>1. file # Torn => FirstStep(file, current_block[p]) # "save"
        BY <1>1 DEF Solo, Seen
    <2>2. current_block'[p] = current_block[p]
        BY DEF Moves
    <2> QED BY <2>1, <2>2 DEF Seen, FirstStep, core_from, pp_from
<1>5. /\ writer' \in Processes \cup {NULL}
      /\ \A q \in Processes : writer' = q => executed'[q]
    BY IndexerAssumption DEF Moves
<1>6. \A q \in Processes : Syncing(q)' => q = p
    BY <1>1
<1> QED BY <1>2, <1>3, <1>4, <1>5, <1>6 DEF Solo, Nobody

LEMMA FileAhead ==
    ASSUME Control, NEW b \in Int, b <= head, FirstStep(file, head) = "save"
    PROVE  FirstStep(file, b) = "save"
<1>1. head \in Nat /\ core_from(file) \in Int /\ pp_from(file) \in Int
    BY IndexerAssumption DEF Control, Typed, Cursors, core_from, pp_from, Later
<1>2. ~(core_from(file) <= head) /\ ~(pp_from(file) <= head)
    BY DEF FirstStep
<1>3. ~(core_from(file) <= b) /\ ~(pp_from(file) <= b)
    BY <1>1, <1>2
<1> QED BY <1>3 DEF FirstStep

\* What begins is at its first step, or has only to save.
LEMMA BeginsAs ==
    ASSUME Control, Solo, NEW p \in Processes, Begin(p), overlaps' = overlaps
    PROVE  /\ pc[p] = "idle" /\ file # Torn /\ file' = file /\ ~executed[p]
           /\ pc'[p] \in {"factory", "save"} /\ pc'[p] = FirstStep(file, head)
           /\ state'[p] = file /\ current_block'[p] = head /\ executed' = executed
           /\ database' = database /\ missed' = missed
           /\ pc'[p] = "factory" => /\ core_from(file) <= head
                                    /\ \A q \in Processes \ {p} : ~Syncing(q)
           /\ pc'[p] = "save" => \A q \in Processes \ {p} : Syncing(q) => Saving(q) /\ state[q] = file
<1>1. /\ pc[p] = "idle" /\ file # Torn /\ file' = file
      /\ pc'[p] = FirstStep(file, head) /\ state'[p] = file /\ current_block'[p] = head
      /\ executed' = executed /\ database' = database /\ missed' = missed
      /\ overlaps \in Nat
    BY DEF Begin, Control, Typed, database
<1>2. ~executed[p]
    BY <1>1, StepsAndNames DEF Control, OnCourse, Steps
<1>3. pc'[p] \in {"factory", "save"} /\ (pc'[p] = "factory" => core_from(file) <= head)
    <2>1. core_from(file) = pp_from(file)
        BY DEF Solo, core_from, pp_from
    <2> QED BY <1>1, <2>1 DEF FirstStep
<1>4. overlaps + 1 # overlaps
    BY <1>1
<1>5. pc'[p] = "factory" => \A q \in Processes \ {p} : ~Syncing(q)
    BY <1>4 DEF Begin
<1>6. ASSUME pc'[p] = "save", NEW q \in Processes \ {p}, Syncing(q)
      PROVE  Saving(q) /\ state[q] = file
    <2>1. current_block[q] \in Int /\ current_block[q] <= head
        BY DEF Control, Typed, OnCourse
    <2>2. FirstStep(file, current_block[q]) = "save"
        BY <1>1, <1>6, <2>1, FileAhead
    <2> QED BY <1>1, <1>6, <2>2 DEF Solo, Seen
<1> QED BY <1>1, <1>2, <1>3, <1>5, <1>6

LEMMA WritesMove ==
    ASSUME Control, DatabaseInv, Solo, NEW p \in Processes, pc[p] \in Steps, ~executed[p],
           NEW events, NEW d, Write(p, events, d), Executed(p)
    PROVE  /\ Moves(p) /\ Conn(p) = view
           /\ view' = IF events = {} THEN view ELSE d
<1>1. writer = NULL /\ Conn(p) = view
    BY ByItself DEF Conn, DatabaseInv
<1>2. p # NULL
    BY IndexerAssumption
<1>3. /\ view' = IF events = {} THEN view ELSE d
      /\ writer' = IF events = {} THEN NULL ELSE p
    BY <1>1 DEF Write, database
<1>4. CASE writer' = p
    BY <1>1, <1>3, <1>4 DEF Executed, Moves, Control, Typed
<1>5. CASE writer' # p
    <2>1. NextStep(p) /\ writer' = NULL /\ current_block' = current_block
        BY <1>3, <1>5 DEF Executed
    <2>2. pc'[p] = StepAfter(p) /\ state'[p] = CursorsAfter(p) /\ executed'[p] = FALSE
        BY <2>1 DEF NextStep, Control, Typed
    <2> QED BY <1>1, <1>3, <2>1, <2>2 DEF Moves
<1> QED BY <1>4, <1>5

LEMMA CommitMoves ==
    ASSUME Control, NEW p \in Processes, Commit(p)
    PROVE  /\ pc[p] \in Steps /\ executed[p] /\ Moves(p) /\ view' = view /\ file' = file
           /\ missed' = missed
<1>1. /\ executed[p] /\ view' = view /\ writer' = NULL /\ NextStep(p) /\ file' = file
      /\ current_block' = current_block /\ missed' = missed
    BY DEF Commit, history
<1>2. pc'[p] = StepAfter(p) /\ state'[p] = CursorsAfter(p) /\ executed'[p] = FALSE
    BY <1>1 DEF NextStep, Control, Typed
<1>3. pc[p] \in Steps
    BY <1>1 DEF Control, OnCourse
<1> QED BY <1>1, <1>2, <1>3 DEF Moves

\* What a process does to the database while all goes well.
LEMMA CalmCore ==
    ASSUME Control, DatabaseInv, Solo, Calm, Calm', NEW p \in Processes, NEW step \in CoreSteps,
           ExecuteCore(p, step)
    PROVE  /\ pc[p] = step /\ pc[p] \in Steps /\ ~executed[p] /\ Moves(p) /\ file' = file
           /\ missed' = missed
           /\ \E readable : view' = Processed(view, step, Fetched(p, step, {}), readable)
<1>1. PICK readable \in BOOLEAN, lost \in {{}} \cup Lost(p, step) :
          LET events == Fetched(p, step, lost)
          IN  /\ Costs((IF readable THEN 0 ELSE 1) + (IF lost = {} THEN 0 ELSE 1))
              /\ Write(p, events, Processed(Conn(p), step, events, readable))
              /\ missed' = missed \cup lost
    BY DEF ExecuteCore
<1>2. lost = {}
    BY <1>1 DEF Costs, Calm
<1> DEFINE events == Fetched(p, step, {})
           d == Processed(Conn(p), step, events, readable)
<1>3. Write(p, events, d) /\ missed' = missed
    BY <1>1, <1>2
<1>4. pc[p] = step /\ pc[p] \in Steps /\ ~executed[p] /\ Executed(p) /\ file' = file
    BY DEF ExecuteCore, Steps
<1>5. events = {} => d = Conn(p)
    BY ProcessedNothing
<1> HIDE DEF d, events
<1>6. /\ Moves(p) /\ Conn(p) = view
      /\ view' = IF events = {} THEN view ELSE d
    BY <1>3, <1>4, WritesMove
<1>7. view' = d
    BY <1>5, <1>6
<1> QED BY <1>3, <1>4, <1>6, <1>7 DEF d, events

LEMMA CalmState ==
    ASSUME Control, DatabaseInv, Solo, NEW p \in Processes,
           NEW step \in {"core_state", "per_provider_state"}, NEW table, ExecuteState(p, step, table)
    PROVE  /\ pc[p] = step /\ pc[p] \in Steps /\ ~executed[p] /\ Moves(p) /\ file' = file
           /\ missed' = missed /\ executed'[p] = TRUE
           /\ view' = [view EXCEPT !.sync_state[table] = current_block[p]]
<1> DEFINE d == [Conn(p) EXCEPT !.sync_state[table] = current_block[p]]
<1>1. Write(p, {step}, d) /\ Executed(p) /\ file' = file /\ missed' = missed
    BY DEF ExecuteState, history
<1>2. pc[p] = step /\ pc[p] \in Steps /\ ~executed[p]
    BY DEF ExecuteState, Steps
<1> HIDE DEF d
<1>3. Moves(p) /\ Conn(p) = view /\ view' = d
    BY <1>1, <1>2, WritesMove
<1>4. executed'[p] = TRUE
    <2>1. writer' = p
        BY <1>1 DEF Write
    <2> QED BY <2>1, IndexerAssumption, <1>3 DEF Moves
<1> QED BY <1>1, <1>2, <1>3, <1>4 DEF d

LEMMA CalmPerProvider ==
    ASSUME Control, DatabaseInv, Solo, Calm, Calm', NEW p \in Processes, ExecutePerProvider(p)
    PROVE  LET due == InRange(p, Of(PerProvider))
               found == {e \in due : RowsOf(view, e) # {}}
           IN  /\ pc[p] = "per_provider" /\ pc[p] \in Steps /\ ~executed[p] /\ Moves(p)
               /\ file' = file
               /\ missed' = missed \cup (due \ found)
               /\ view' = RowsAppended(view, found)
<1> DEFINE due == InRange(p, Of(PerProvider))
           found == {e \in due : RowsOf(Conn(p), e) # {}}
           d == RowsAppended(Conn(p), found)
<1>1. PICK lost :
          LET its == InRange(p, Of({"Distributed", "Claimed"}))
              rest == {e \in its \ lost : RowsOf(Conn(p), e) # {}}
          IN  /\ Costs(IF lost = {} THEN 0 ELSE 1)
              /\ Write(p, rest, RowsAppended(Conn(p), rest))
              /\ missed' = missed \cup (its \ rest)
    BY DEF ExecutePerProvider
<1>2. lost = {}
    BY <1>1 DEF Costs, Calm
<1>3. Write(p, found, d) /\ missed' = missed \cup (due \ found)
    BY <1>1, <1>2 DEF PerProvider
<1>4. pc[p] = "per_provider" /\ pc[p] \in Steps /\ ~executed[p] /\ Executed(p) /\ file' = file
    BY DEF ExecutePerProvider, Steps
<1>5. found = {} => d = Conn(p)
    BY ConnGood, RowsAppendedNothing
<1> HIDE DEF d, found
<1>6. /\ Moves(p) /\ Conn(p) = view
      /\ view' = IF found = {} THEN view ELSE d
    BY <1>3, <1>4, WritesMove
<1>7. view' = d
    BY <1>5, <1>6
<1> QED BY <1>3, <1>4, <1>6, <1>7 DEF d, found, due

\* Without faults nothing goes wrong.
LEMMA NoTrouble ==
    ASSUME Calm', NEW p \in Processes, Control
    PROVE  ~Trouble(p)
<1>1. \A n \in {1} : ~Costs(n)
    BY DEF Costs, Calm, Control, Typed
<1>2. ASSUME NEW step, RaiseInCore(p, step) PROVE Costs(1)
    BY <1>2 DEF RaiseInCore
<1>3. DatabaseLocked(p) \/ Crash(p) => Costs(1)
    BY DEF DatabaseLocked, Crash
<1> QED BY <1>1, <1>2, <1>3 DEF Trouble

LEMMA CalmBefore ==
    ASSUME Control, Calm', NEW p \in Processes, Launch(p) \/ Work(p) \/ Trouble(p)
    PROVE  Calm /\ overlaps' = overlaps
<1>1. faults <= faults' /\ overlaps <= overlaps'
    BY MoveControl
<1> QED BY <1>1 DEF Calm, Control, Typed

LEMMA BeginSolo ==
    ASSUME Control, Solo, NEW p \in Processes, Begin(p), overlaps' = overlaps, Alone(p)
    PROVE  Solo'
<1>1. /\ pc[p] = "idle" /\ file # Torn /\ file' = file /\ ~executed[p]
      /\ pc'[p] \in {"factory", "save"} /\ pc'[p] = FirstStep(file, head)
      /\ state'[p] = file /\ current_block'[p] = head /\ executed' = executed
      /\ writer' = writer
      /\ pc'[p] = "factory" => /\ core_from(file) <= head
                               /\ \A q \in Processes \ {p} : ~Syncing(q)
      /\ pc'[p] = "save" => \A q \in Processes \ {p} : Syncing(q) => Saving(q) /\ state[q] = file
    BY BeginsAs DEF database
<1>2. \A q \in Processes \ {p} : /\ Syncing(q)' <=> Syncing(q)
                                 /\ Saving(q)' <=> Saving(q)
                                 /\ state'[q] = state[q]
    BY DEF Alone, Syncing, Saving
<1>3. Syncing(p)' /\ Level(p)' /\ state'[p] # Torn /\ Seen(p)'
    <2>1. file.core = file.per_provider
        BY DEF Solo
    <2>2. Level(p)'
        BY <1>1, <2>1, StepsAndNames DEF Level, Saving, core_from, Later
    <2>3. Seen(p)'
        BY <1>1 DEF Seen, Saving, FirstStep, core_from, pp_from, Later
    <2> QED BY <1>1, <2>2, <2>3 DEF Syncing
<1>4. ASSUME NEW q \in Processes \ {p}, Syncing(q)
      PROVE  Level(q)' /\ state'[q] # Torn /\ Seen(q)' /\ pc'[p] = "save" /\ Saving(q)
             /\ state[q] = file
    <2>1. pc'[p] = "save" /\ Saving(q) /\ state[q] = file
        BY <1>1, <1>4
    <2>2. Level(q) /\ state[q] # Torn
        BY <1>4 DEF Solo
    <2>3. Level(q)' /\ Seen(q)'
        BY <1>1, <1>2, <2>1, <2>2, StepsAndNames DEF Level, Saving, Seen, Alone
    <2> QED BY <1>2, <2>1, <2>2, <2>3
<1>5. \A q, r \in Processes : q # r /\ Syncing(q)' /\ Syncing(r)' =>
          Saving(q)' /\ Saving(r)' /\ state'[q] = state'[r]
    <2> SUFFICES ASSUME NEW q \in Processes, NEW r \in Processes, q # r, Syncing(q)', Syncing(r)'
                 PROVE  Saving(q)' /\ Saving(r)' /\ state'[q] = state'[r]
        OBVIOUS
    <2>1. CASE q = p
        BY <1>1, <1>2, <1>4, <2>1 DEF Saving
    <2>2. CASE r = p
        BY <1>1, <1>2, <1>4, <2>2 DEF Saving
    <2>3. CASE q # p /\ r # p
        BY <1>2, <1>4, <2>3
    <2> QED BY <2>1, <2>2, <2>3
<1>6. ~Nobody'
    BY <1>3 DEF Nobody
<1>7. \A q \in Processes : Syncing(q)' => Level(q)' /\ state'[q] # Torn /\ Seen(q)'
    BY <1>2, <1>3, <1>4
<1> QED BY <1>1, <1>5, <1>6, <1>7 DEF Solo

LEMMA SaveSolo ==
    ASSUME Control, Solo, NEW p \in Processes, BeginSave(p) \/ FinishSave(p), Alone(p)
    PROVE  /\ Solo' /\ Saving(p) /\ view' = view /\ missed' = missed /\ writer' = writer
<1>1. Saving(p) /\ Syncing(p) /\ ~executed[p] /\ writer # p
    <2>1. Saving(p) /\ Syncing(p)
        BY DEF BeginSave, FinishSave, Saving, Syncing
    <2>2. ~executed[p]
        BY <2>1, StepsAndNames DEF Saving, Control, OnCourse, Steps
    <2> QED BY <2>1, <2>2 DEF Solo
<1>2. view' = view /\ missed' = missed /\ writer' = writer
    BY <1>1 DEF BeginSave, FinishSave, Rollback, database, history
<1>3. \A q \in Processes \ {p} : /\ Syncing(q)' <=> Syncing(q)
                                 /\ Saving(q)' <=> Saving(q)
                                 /\ state'[q] = state[q]
                                 /\ executed'[q] = executed[q]
    BY DEF Alone, Syncing, Saving
<1>4. \A q \in Processes \ {p} : Syncing(q) =>
          Saving(q) /\ state[q] = state[p] /\ Level(q) /\ state[q] # Torn
    BY <1>1 DEF Solo
<1>5. \A q \in Processes \ {p} : Syncing(q) => Level(q)'
    BY <1>3, <1>4, StepsAndNames DEF Level, Saving, Alone
<1>6. \A q \in Processes : writer' = q => executed'[q]
    BY <1>1, <1>2, <1>3 DEF Solo
<1>7. CASE BeginSave(p)
    <2>1. file' = Torn /\ pc'[p] = "saving" /\ state'[p] = state[p] /\ current_block' = current_block
        BY <1>7 DEF BeginSave, locals, Control, Typed
    <2>2. Level(p) /\ state[p] # Torn
        BY <1>1 DEF Solo
    <2>3. Level(p)' /\ (state[p] # Torn)' /\ Syncing(p)' /\ Saving(p)'
        BY <1>1, <2>1, <2>2, StepsAndNames DEF Level, Saving, Syncing
    <2>4. \A q \in Processes : Seen(q)'
        BY <2>1 DEF Seen
    <2>5. file'.core = file'.per_provider /\ ~Nobody'
        BY <2>1, <2>3 DEF Torn, Nobody
    <2>6. \A q, r \in Processes : q # r /\ Syncing(q)' /\ Syncing(r)' =>
              Saving(q)' /\ Saving(r)' /\ state'[q] = state'[r]
        BY <1>3, <1>4, <2>1, <2>3
    <2>7. \A q \in Processes : Syncing(q)' => Level(q)' /\ state'[q] # Torn /\ Seen(q)'
        BY <1>3, <1>4, <1>5, <2>3, <2>4
    <2>8. writer' \in Processes \cup {NULL}
        BY <1>2 DEF Solo
    <2> QED BY <1>1, <1>2, <1>6, <2>5, <2>6, <2>7, <2>8 DEF Solo
<1>8. CASE FinishSave(p)
    <2>1. file' = state[p] /\ ~Syncing(p)'
        BY <1>8 DEF FinishSave, AfterSync, Syncing, Control, Typed
    <2>2. Level(p) /\ state[p] # Torn
        BY <1>1 DEF Solo
    <2>3. file'.core = file'.per_provider /\ file' # Torn
        BY <1>1, <2>1, <2>2 DEF Level
    <2>4. \A q \in Processes : Syncing(q)' =>
              q # p /\ Syncing(q) /\ Saving(q) /\ Saving(q)' /\ state'[q] = file'
        BY <1>3, <1>4, <2>1
    <2>5. \A q \in Processes : Syncing(q)' => Seen(q)'
        BY <2>4 DEF Seen
    <2>6. \A q, r \in Processes : q # r /\ Syncing(q)' /\ Syncing(r)' =>
              Saving(q)' /\ Saving(r)' /\ state'[q] = state'[r]
        BY <2>4
    <2>7. \A q \in Processes : Syncing(q)' => Level(q)' /\ state'[q] # Torn /\ Seen(q)'
        BY <1>5, <2>3, <2>4, <2>5
    <2>8. writer' \in Processes \cup {NULL}
        BY <1>2 DEF Solo
    <2> QED BY <1>1, <1>2, <1>6, <2>3, <2>6, <2>7, <2>8 DEF Solo
<1> QED BY <1>7, <1>8

LEMMA IdleSolo ==
    ASSUME Control, Solo, NEW p \in Processes, Launch(p) \/ BeginFails(p), Alone(p)
    PROVE  /\ Solo' /\ ~Syncing(p) /\ ~Syncing(p)' /\ view' = view /\ missed' = missed
           /\ file' = file
<1>1. /\ ~Syncing(p) /\ pc'[p] \in {"off", "idle"} /\ ~executed[p] /\ writer # p /\ file' = file
      /\ missed' = missed
    <2>1. ~Syncing(p) /\ pc'[p] \in {"off", "idle"} /\ file' = file /\ missed' = missed
        BY DEF Launch, BeginFails, AfterSync, Syncing, Control, Typed, history
    <2>2. ~executed[p]
        BY <2>1, StepsAndNames DEF Syncing, Control, OnCourse, Steps
    <2> QED BY <2>1, <2>2 DEF Solo
<1>2. view' = view /\ writer' = writer
    BY <1>1 DEF Launch, BeginFails, Rollback, database
<1>3. \A q \in Processes : /\ Syncing(q)' <=> Syncing(q)
                           /\ Syncing(q) => /\ Saving(q)' <=> Saving(q)
                                            /\ state'[q] = state[q]
                                            /\ current_block'[q] = current_block[q]
                                            /\ pc'[q] = pc[q]
                           /\ writer = q => executed'[q] = executed[q]
    BY <1>1 DEF Alone, Syncing, Saving
<1>4. \A q \in Processes : Syncing(q) => (Level(q) <=> Level(q)') /\ (Seen(q) <=> Seen(q)')
    BY <1>1, <1>3 DEF Level, Seen, Saving
<1> QED BY <1>1, <1>2, <1>3, <1>4 DEF Solo, Nobody, Syncing

-----------------------------------------------------------------------------
(***************************************************************************)
(* The events that are in the tables as p sees them.                       *)
(***************************************************************************)
TakenBy(p) ==
    {e \in Noted :
        \/ e[1] <= CursorAt(state[p], e)
        \/ /\ e[1] <= current_block[p]
           /\ Ev(e).type \in Behind(pc[p]) \cup (IF executed[p] THEN Within(pc[p]) ELSE {})}

\* With those of the step p is at.
TakenNext(p) ==
    {e \in Noted :
        \/ e[1] <= CursorAt(state[p], e)
        \/ e[1] <= current_block[p] /\ Ev(e).type \in Behind(pc[p]) \cup Within(pc[p])}

Upon(b) == {e \in Noted : e[1] <= b}

\* The cursors as the last transaction of p has them in its table.
NotedBy(p) ==
    [core |-> IF pc[p] = "core_state" /\ executed[p] THEN current_block[p] ELSE state[p].core,
     per_provider |-> IF pc[p] = "per_provider_state" /\ executed[p] THEN current_block[p]
                      ELSE state[p].per_provider]

Exactly ==
    /\ \A p \in Processes : Syncing(p) => /\ Exact(view, TakenBy(p), missed)
                                          /\ view.sync_state = NotedBy(p)
    /\ Nobody => Exact(view, Upon(file.core), missed) /\ view.sync_state = file

LEMMA WhatIsBehind ==
    /\ Behind("registry") = Behind("factory") \cup Within("factory")
    /\ Behind("staking") = Behind("registry") \cup Within("registry")
    /\ Behind("challenges") = Behind("staking") \cup Within("staking")
    /\ Behind("core_state") = Behind("challenges") \cup Within("challenges")
    /\ Within("core_state") = {} /\ Within("per_provider_state") = {}
    /\ Behind("per_provider") = {} /\ Behind("save") = {} /\ Behind("factory") = {}
    /\ Within("per_provider") = PerProvider /\ Behind("per_provider_state") = PerProvider
    /\ \A e \in Noted : Ev(e).type \in PerProvider <=> Ev(e).type \notin Behind("core_state")
    /\ \A step \in CoreSteps : Within(step) = Names(step)
<1>1. CoreSteps = {"factory", "registry", "staking", "challenges"}
    BY StepsAndNames
<1>2. /\ Within("factory") = Names("factory") /\ Within("registry") = Names("registry")
      /\ Within("staking") = Names("staking") /\ Within("challenges") = Names("challenges")
      /\ Within("core_state") = {} /\ Within("per_provider_state") = {}
      /\ Within("per_provider") = PerProvider
    BY <1>1 DEF Within
<1>3. /\ Behind("factory") = {} /\ Behind("registry") = Names("factory")
      /\ Behind("staking") = Names("factory") \cup Names("registry")
      /\ Behind("challenges") = Names("factory") \cup Names("registry") \cup Names("staking")
      /\ Behind("core_state") = UNION {Names(step) : step \in CoreSteps}
      /\ Behind("per_provider") = {} /\ Behind("save") = {} /\ Behind("per_provider_state") = PerProvider
    BY DEF Behind
<1>4. UNION {Names(step) : step \in CoreSteps} =
          Names("factory") \cup Names("registry") \cup Names("staking") \cup Names("challenges")
    BY <1>1
<1>5. ASSUME NEW e \in Noted PROVE Ev(e).type \in PerProvider <=> Ev(e).type \notin Behind("core_state")
    <2>1. Ev(e).type \in EventTypes /\ Ev(e).type # "EndpointUpdated"
        BY HistoryAssumption DEF Noted
    <2> QED BY <1>3, <1>4, <2>1, StepsAndNames DEF EventTypes, AppendedTypes, PerProvider
<1> QED BY <1>1, <1>2, <1>3, <1>4, <1>5

LEMMA TakenMoves ==
    ASSUME Control, NEW p \in Processes, pc[p] \in Steps, Moves(p)
    PROVE  TakenBy(p)' = TakenNext(p)
<1>1. Steps = {"factory", "registry", "staking", "challenges", "core_state", "per_provider",
               "per_provider_state"}
    BY StepsAndNames DEF Steps
<1>2. current_block'[p] = current_block[p]
    BY DEF Moves
<1>3. CASE pc'[p] = pc[p] /\ state'[p] = state[p] /\ executed'[p] = TRUE
    BY <1>2, <1>3 DEF TakenBy, TakenNext
<1>4. CASE pc'[p] = StepAfter(p) /\ state'[p] = CursorsAfter(p) /\ executed'[p] = FALSE
    <2>1. /\ state[p].core \in Int /\ state[p].per_provider \in Int /\ current_block[p] \in Nat
          /\ state[p].core <= current_block[p] /\ state[p].per_provider <= current_block[p]
        <3>1. Syncing(p)
            BY <1>1 DEF Syncing
        <3> QED BY <3>1, CursorsMove DEF Control, OnCourse
    <2>2. /\ state'[p].core = IF pc[p] = "core_state" THEN current_block[p] ELSE state[p].core
          /\ state'[p].per_provider = IF pc[p] = "per_provider_state" THEN current_block[p]
                                      ELSE state[p].per_provider
        <3>1. /\ CursorsAfter(p).core = IF pc[p] = "core_state" THEN current_block[p]
                                        ELSE state[p].core
              /\ CursorsAfter(p).per_provider =
                     IF pc[p] = "per_provider_state" THEN current_block[p]
                     ELSE state[p].per_provider
            BY CursorsMove
        <3> QED BY <1>4, <3>1
    <2>3. TakenBy(p)' = {e \in Noted : \/ e[1] <= CursorAt(state'[p], e)
                                       \/ e[1] <= current_block[p] /\ Ev(e).type \in Behind(pc'[p])}
        BY <1>2, <1>4 DEF TakenBy
    <2>4. CASE pc[p] \in CoreSteps \cup {"per_provider"}
        <3>1. state'[p].core = state[p].core /\ state'[p].per_provider = state[p].per_provider
            BY <2>2, <2>4, StepsAndNames
        <3>2. Behind(pc'[p]) = Behind(pc[p]) \cup Within(pc[p])
            BY <1>4, <2>4, StepsAndNames, WhatIsBehind DEF StepAfter
        <3>3. \A e : CursorAt(state'[p], e) = CursorAt(state[p], e)
            BY <3>1 DEF CursorAt
        <3> QED BY <2>3, <3>2, <3>3 DEF TakenNext
    <2>5. ASSUME pc[p] \in {"core_state", "per_provider_state"}, NEW e \in Noted
          PROVE  \/ e[1] <= CursorAt(state'[p], e)
                 \/ e[1] <= current_block[p] /\ Ev(e).type \in Behind(pc'[p])
                 <=>
                 \/ e[1] <= CursorAt(state[p], e)
                 \/ e[1] <= current_block[p] /\ Ev(e).type \in Behind(pc[p]) \cup Within(pc[p])
        <3>1. Behind(pc'[p]) = {} /\ Within(pc[p]) = {}
            BY <1>4, <2>5, WhatIsBehind DEF StepAfter
        <3>2. e[1] \in Nat
            BY EventBlocks DEF Noted
        <3>3. CASE Ev(e).type \in PerProvider
            <4>1. /\ CursorAt(state'[p], e) = state'[p].per_provider
                  /\ CursorAt(state[p], e) = state[p].per_provider
                BY <3>3 DEF CursorAt
            <4>2. Ev(e).type \in Behind(pc[p]) <=> pc[p] = "per_provider_state"
                BY <2>5, <3>3, WhatIsBehind
            <4> QED BY <2>1, <2>2, <3>1, <3>2, <4>1, <4>2
        <3>4. CASE Ev(e).type \notin PerProvider
            <4>1. /\ CursorAt(state'[p], e) = state'[p].core
                  /\ CursorAt(state[p], e) = state[p].core
                BY <3>4 DEF CursorAt
            <4>2. Ev(e).type \in Behind(pc[p]) <=> pc[p] = "core_state"
                BY <2>5, <3>4, WhatIsBehind
            <4> QED BY <2>1, <2>2, <3>1, <3>2, <4>1, <4>2
        <3> QED BY <3>3, <3>4
    <2>6. CASE pc[p] \in {"core_state", "per_provider_state"}
        BY <2>3, <2>5, <2>6 DEF TakenNext
    <2> QED BY <1>1, <2>4, <2>6, StepsAndNames
<1> QED BY <1>3, <1>4 DEF Moves

LEMMA NotedMoves ==
    ASSUME Control, NEW p \in Processes, pc[p] \in Steps, Moves(p)
    PROVE  NotedBy(p)' = [core |-> IF pc[p] = "core_state" THEN current_block[p] ELSE state[p].core,
                          per_provider |-> IF pc[p] = "per_provider_state" THEN current_block[p]
                                           ELSE state[p].per_provider]
<1>1. current_block'[p] = current_block[p]
    BY DEF Moves
<1>2. CASE pc'[p] = pc[p] /\ state'[p] = state[p] /\ executed'[p] = TRUE
    BY <1>1, <1>2 DEF NotedBy
<1>3. CASE state'[p] = CursorsAfter(p) /\ executed'[p] = FALSE
    <2>1. /\ CursorsAfter(p).core = IF pc[p] = "core_state" THEN current_block[p]
                                    ELSE state[p].core
          /\ CursorsAfter(p).per_provider =
                 IF pc[p] = "per_provider_state" THEN current_block[p]
                 ELSE state[p].per_provider
        BY CursorsMove
    <2> QED BY <1>3, <2>1 DEF NotedBy
<1> QED BY <1>2, <1>3 DEF Moves

\* The events do not touch the table of the cursors.
LEMMA ProcessSync ==
    ASSUME NEW step \in CoreSteps, NEW d, Good(d), NEW e, NEW readable
    PROVE  Process(step, d, e, readable).sync_state = d.sync_state
<1>1. \A v : /\ [d EXCEPT !.providers = v].sync_state = d.sync_state
             /\ [d EXCEPT !.endpoints = v].sync_state = d.sync_state
             /\ [d EXCEPT !.challenges = v].sync_state = d.sync_state
             /\ [d EXCEPT !.rows = v].sync_state = d.sync_state
    BY Changes DEF Good, IsDb
<1>2. InsertProvider(d, e).sync_state = d.sync_state
    BY <1>1 DEF InsertProvider
<1>3. UpdateProvider(d, e).sync_state = d.sync_state
    BY <1>1 DEF UpdateProvider
<1>4. ReplaceEndpoint(d, e, readable).sync_state = d.sync_state
    BY <1>1 DEF ReplaceEndpoint
<1>5. AppendRow(d, e, NULL).sync_state = d.sync_state
    <2>1. AppendRow(d, e, NULL) = [d EXCEPT !.rows = [d.rows EXCEPT ![e] = Append(@, NULL)]]
        BY DEF AppendRow
    <2> QED BY <1>1, <2>1
<1>6. InsertChallenge(d, e, readable).sync_state = d.sync_state
    BY <1>1 DEF InsertChallenge
<1>7. ResolveChallenge(d, e).sync_state = d.sync_state
    BY DEF ResolveChallenge, Good, IsDb, Record
<1>8. CASE step = "factory"
    BY <1>2, <1>8 DEF Process
<1>9. CASE step = "registry"
    BY <1>3, <1>4, <1>9 DEF Process, ProcessRegistry
<1>10. CASE step = "staking"
    BY <1>5, <1>10 DEF Process
<1>11. CASE step = "challenges"
    BY <1>6, <1>7, <1>11 DEF Process, ProcessChallenges
<1> QED BY <1>8, <1>9, <1>10, <1>11, StepsAndNames

LEMMA ProcessedSync ==
    ASSUME NEW step \in CoreSteps, NEW d, Good(d), NEW events, NEW readable
    PROVE  Processed(d, step, events, readable).sync_state = d.sync_state
<1> DEFINE N == Len(Logs[step])
<1>1. N \in Nat /\ \A n \in 1 .. N : Logs[step][n] \in Of(Names(step))
    BY LogFacts, OfTypes
<1>2. PICK after : /\ after[0] = d /\ after[N] = Processed(d, step, events, readable)
                   /\ \A n \in 1 .. N : after[n] = Next1(after[n - 1], step, events, readable, n)
    BY FoldSteps
<1> DEFINE G == {n \in 0 .. N : Good(after[n]) /\ after[n].sync_state = d.sync_state}
<1>3. 0 \in G
    BY <1>1, <1>2
<1>4. ASSUME NEW n \in 1 .. N, n - 1 \in G PROVE n \in G
    <2>1. /\ Good(after[n - 1]) /\ after[n - 1].sync_state = d.sync_state /\ n \in 0 .. N
          /\ after[n] = Next1(after[n - 1], step, events, readable, n)
        BY <1>1, <1>2, <1>4
    <2>2. CASE Logs[step][n] \in events
        <3>1. after[n] = Process(step, after[n - 1], Logs[step][n], readable)
            BY <2>1, <2>2 DEF Next1
        <3>2. Good(after[n]) /\ after[n].sync_state = after[n - 1].sync_state
            BY <1>1, <2>1, <3>1, ProcessGood, ProcessSync
        <3> QED BY <2>1, <3>2
    <2>3. CASE Logs[step][n] \notin events
        BY <2>1, <2>3 DEF Next1
    <2> QED BY <2>2, <2>3
<1>5. N \in G
    <2> HIDE DEF G, N
    <2> QED BY <1>1, <1>3, <1>4, Reaches
<1> QED BY <1>2, <1>5

(***************************************************************************)
(* Each step of a sync that is alone takes the events it should.           *)
(***************************************************************************)
LEMMA CoreExactly ==
    ASSUME Control, DatabaseInv, Solo, Exactly, Calm, Calm', NEW p \in Processes,
           NEW step \in CoreSteps, ExecuteCore(p, step)
    PROVE  (Exact(view, TakenBy(p), missed) /\ view.sync_state = NotedBy(p))'
<1> DEFINE c == state[p].core
           b == current_block[p]
<1>1. /\ pc[p] = step /\ pc[p] \in Steps /\ ~executed[p] /\ Moves(p) /\ missed' = missed
    BY CalmCore
<1>2. PICK readable : view' = Processed(view, step, Fetched(p, step, {}), readable)
    BY CalmCore
<1>3. Syncing(p) /\ Level(p)
    BY <1>1, ByItself DEF Solo
<1>4. c \in Int /\ b \in Int /\ c <= b
    BY <1>3 DEF Control, Typed, Cursors, OnCourse
<1>5. \A e : CursorAt(state[p], e) = c
    BY <1>1, <1>3 DEF Level, CursorAt
<1>6. TakenBy(p) = Before(step, c, b)
    BY <1>1, <1>5 DEF TakenBy, Before
<1>7. Fetched(p, step, {}) = Fresh(step, c, b)
    <2>1. \A e \in Of(Names(step)) : e \in EventIds
        BY OfTypes
    <2> QED BY <2>1, WithinRange DEF Fetched, Fresh
<1>8. TakenBy(p)' = Before(step, c, b) \cup Fresh(step, c, b)
    <2>1. TakenBy(p)' = {e \in Noted : \/ e[1] <= c
                                       \/ e[1] <= b /\ Ev(e).type \in Behind(step) \cup Names(step)}
        BY <1>1, <1>5, TakenMoves, WhatIsBehind DEF TakenNext
    <2>2. \A e \in Noted : e \in EventIds /\ e[1] \in Nat
        BY EventBlocks DEF Noted
    <2>3. \A e \in Noted : Ev(e).type \in Names(step) <=> e \in Of(Names(step))
        BY <2>2, OfTypes
    <2>4. Of(Names(step)) \subseteq Noted
        BY OfTypes, StepsAndNames DEF Noted
    <2>5. \A e \in Noted : e \in Fresh(step, c, b) <=>
              Ev(e).type \in Names(step) /\ ~(e[1] <= c) /\ e[1] <= b
        BY <1>4, <2>2, <2>3 DEF Fresh
    <2>6. Fresh(step, c, b) \subseteq Noted
        BY <2>4 DEF Fresh
    <2> QED BY <2>1, <2>5, <2>6 DEF Before
<1>9. Good(view) /\ Exact(view, Before(step, c, b), missed) /\ view.sync_state = NotedBy(p)
    BY <1>3, <1>6 DEF Exactly, DatabaseInv
<1> HIDE DEF c, b
<1>10. Exact(view', Before(step, c, b) \cup Fresh(step, c, b), missed)
    BY <1>2, <1>4, <1>7, <1>9, ProcessedExact
<1>11. view'.sync_state = view.sync_state
    BY <1>2, <1>9, ProcessedSync
<1>12. NotedBy(p)' = NotedBy(p)
    <2>1. pc[p] # "core_state" /\ pc[p] # "per_provider_state"
        BY <1>1, StepsAndNames
    <2> QED BY <1>1, <2>1, NotedMoves DEF NotedBy
<1> QED BY <1>1, <1>8, <1>9, <1>10, <1>11, <1>12

LEMMA StateExactly ==
    ASSUME Control, DatabaseInv, Solo, Exactly, NEW p \in Processes,
           \/ ExecuteState(p, "core_state", "core")
           \/ ExecuteState(p, "per_provider_state", "per_provider")
    PROVE  (Exact(view, TakenBy(p), missed) /\ view.sync_state = NotedBy(p))'
<1>1. PICK step \in {"core_state", "per_provider_state"}, table \in {"core", "per_provider"} :
          /\ ExecuteState(p, step, table)
          /\ step = "core_state" <=> table = "core"
    OBVIOUS
<1>2. /\ pc[p] = step /\ pc[p] \in Steps /\ ~executed[p] /\ Moves(p) /\ missed' = missed
      /\ view' = [view EXCEPT !.sync_state[table] = current_block[p]]
    BY <1>1, CalmState
<1>3. Syncing(p) /\ Good(view) /\ Exact(view, TakenBy(p), missed) /\ view.sync_state = NotedBy(p)
    BY <1>2, ByItself DEF Exactly, DatabaseInv
<1>4. TakenBy(p)' = TakenBy(p)
    <2>1. Within(pc[p]) = {}
        BY <1>2, WhatIsBehind
    <2> QED BY <1>2, <2>1, TakenMoves DEF TakenNext, TakenBy
<1>5. Exact(view', TakenBy(p), missed)
    BY <1>2, <1>3, SyncStateExact
<1>6. view'.sync_state = [view.sync_state EXCEPT ![table] = current_block[p]]
    BY <1>2, <1>3 DEF Good, IsDb, Record
<1>7. view.sync_state = [core |-> state[p].core, per_provider |-> state[p].per_provider]
    BY <1>2, <1>3 DEF NotedBy
<1>8. view'.sync_state = NotedBy(p)'
    <2>1. CASE step = "core_state"
        <3>1. NotedBy(p)' = [core |-> current_block[p], per_provider |-> state[p].per_provider]
            BY <1>2, <2>1, NotedMoves
        <3> QED BY <1>1, <1>6, <1>7, <2>1, <3>1
    <2>2. CASE step = "per_provider_state"
        <3>1. NotedBy(p)' = [core |-> state[p].core, per_provider |-> current_block[p]]
            BY <1>2, <2>2, NotedMoves
        <3> QED BY <1>1, <1>6, <1>7, <2>2, <3>1
    <2> QED BY <2>1, <2>2
<1> QED BY <1>2, <1>4, <1>5, <1>8

LEMMA PerProviderExactly ==
    ASSUME Control, DatabaseInv, Solo, Exactly, Calm, Calm', NEW p \in Processes,
           ExecutePerProvider(p)
    PROVE  (Exact(view, TakenBy(p), missed) /\ view.sync_state = NotedBy(p))'
<1> DEFINE due == InRange(p, Of(PerProvider))
           found == {e \in due : RowsOf(view, e) # {}}
           T == TakenBy(p)
           b == current_block[p]
<1>1. /\ pc[p] = "per_provider" /\ pc[p] \in Steps /\ ~executed[p] /\ Moves(p)
      /\ missed' = missed \cup (due \ found)
      /\ view' = RowsAppended(view, found)
    BY CalmPerProvider
<1>2. /\ Syncing(p) /\ Level(p) /\ Good(view) /\ Exact(view, T, missed)
      /\ view.sync_state = NotedBy(p)
    BY <1>1, ByItself DEF Solo, Exactly, DatabaseInv
<1>3. /\ state[p].core = b /\ state[p].per_provider \in Int /\ b \in Nat
      /\ state[p].per_provider <= b
    BY <1>1, <1>2 DEF Level, Control, Typed, Cursors, OnCourse
<1>4. \A e \in EventIds : /\ e[1] \in Nat
                          /\ e \in T <=> e \in Noted /\ e[1] <= CursorAt(state[p], e)
                          /\ e \in due <=> /\ Ev(e).type \in PerProvider
                                           /\ state[p].per_provider < e[1] /\ e[1] <= b
    <2>1. Behind("per_provider") = {}
        BY WhatIsBehind
    <2> QED BY <1>1, <2>1, EventBlocks, WithinRange, OfTypes DEF TakenBy, InRange
<1>5. T \subseteq EventIds /\ due \subseteq Of(PerProvider) /\ due \subseteq EventIds
    BY OfTypes DEF TakenBy, Noted, InRange
<1> HIDE DEF T, due, b
<1>6. due \cap T = {}
    <2> SUFFICES ASSUME NEW e \in due, e \in T PROVE FALSE
        OBVIOUS
    <2>1. e[1] <= state[p].per_provider
        BY <1>4, <1>5 DEF CursorAt
    <2> QED BY <1>3, <1>4, <1>5, <2>1
<1>7. \A f \in T : f[1] <= b
    <2> TAKE f \in T
    <2>1. f[1] <= state[p].core \/ f[1] <= state[p].per_provider
        BY <1>4, <1>5 DEF CursorAt
    <2> QED BY <1>3, <1>4, <1>5, <2>1
<1>8. Deployers(b) \cup {g \in Of({"ProviderRegistered"}) : g[1] <= b} \subseteq T
    <2>1. ASSUME NEW e \in EventIds, Ev(e).type \in {"ProviderDeployed", "ProviderRegistered"}, e[1] <= b
          PROVE  e \in T
        BY <1>3, <1>4, <2>1 DEF Noted, CursorAt, PerProvider
    <2> QED BY <2>1, OfTypes DEF Deployers
<1>9. Exact(view', T \cup due, missed \cup (due \ found))
    <2>1. Exact(RowsAppended(view, found), T \cup due, missed \cup (due \ found))
        <3>1. found = {e \in due : RowsOf(view, e) # {}}
            OBVIOUS
        <3> HIDE DEF found
        <3> QED BY <1>2, <1>5, <1>6, <1>7, <1>8, <3>1, RowsAppendedExact
    <2> QED BY <1>1, <2>1
<1>10. TakenBy(p)' = T \cup due
    <2>1. TakenBy(p)' = {e \in Noted : \/ e[1] <= CursorAt(state[p], e)
                                       \/ e[1] <= b /\ Ev(e).type \in PerProvider}
        BY <1>1, TakenMoves, WhatIsBehind DEF TakenNext, b
    <2>2. ASSUME NEW e \in Noted
          PROVE  e[1] <= CursorAt(state[p], e) \/ (e[1] <= b /\ Ev(e).type \in PerProvider)
                 <=> e \in T \cup due
        <3>1. e \in EventIds
            BY DEF Noted
        <3>2. CASE Ev(e).type \in PerProvider
            <4>1. CursorAt(state[p], e) = state[p].per_provider
                BY <3>2 DEF CursorAt
            <4> QED BY <1>3, <1>4, <3>1, <3>2, <4>1
        <3>3. CASE Ev(e).type \notin PerProvider
            BY <1>4, <3>1, <3>3
        <3> QED BY <3>2, <3>3
    <2>3. T \cup due \subseteq Noted
        BY <1>4, <1>5 DEF Noted, PerProvider
    <2> QED BY <2>1, <2>2, <2>3
<1>11. view'.sync_state = view.sync_state
    <2>1. \A v : [view EXCEPT !.rows = v].sync_state = view.sync_state
        BY <1>2, Changes DEF Good, IsDb
    <2> QED BY <1>1, <2>1 DEF RowsAppended
<1>12. NotedBy(p)' = NotedBy(p)
    BY <1>1, NotedMoves DEF NotedBy
<1> QED BY <1>1, <1>2, <1>9, <1>10, <1>11, <1>12

LEMMA CommitExactly ==
    ASSUME Control, Solo, Exactly, NEW p \in Processes, Commit(p)
    PROVE  (Exact(view, TakenBy(p), missed) /\ view.sync_state = NotedBy(p))'
<1>1. /\ pc[p] \in Steps /\ executed[p] /\ Moves(p) /\ view' = view /\ missed' = missed
    BY CommitMoves
<1>2. Exact(view, TakenBy(p), missed) /\ view.sync_state = NotedBy(p)
    BY <1>1, ByItself DEF Exactly
<1>3. TakenBy(p)' = TakenBy(p)
    BY <1>1, TakenMoves DEF TakenNext, TakenBy
<1>4. NotedBy(p)' = NotedBy(p)
    BY <1>1, NotedMoves DEF NotedBy
<1> QED BY <1>1, <1>2, <1>3, <1>4

\* One that has its two cursors at the same block, and no step to do.
LEMMA LevelTaken ==
    ASSUME Control, NEW p \in Processes, pc[p] \in {"factory", "save", "saving"}, ~executed[p],
           state[p].core = state[p].per_provider
    PROVE  TakenBy(p) = Upon(state[p].core) /\ NotedBy(p) = state[p]
<1>1. Behind(pc[p]) = {}
    BY StepsAndNames DEF Behind
<1>2. \A e : CursorAt(state[p], e) = state[p].core
    BY DEF CursorAt
<1> QED BY <1>1, <1>2, CursorsMove DEF TakenBy, Upon, NotedBy

\* What a sync that is alone relies on, and leaves.
CalmInv == Calm => Solo /\ Exactly

LEMMA OthersTaken ==
    ASSUME NEW p \in Processes, Alone(p), view' = view, missed' = missed, Exactly,
           NEW q \in Processes \ {p}, Syncing(q)'
    PROVE  (Exact(view, TakenBy(q), missed) /\ view.sync_state = NotedBy(q))'
<1>1. /\ pc'[q] = pc[q] /\ executed'[q] = executed[q] /\ state'[q] = state[q]
      /\ current_block'[q] = current_block[q]
    BY DEF Alone
<1>2. Exact(view, TakenBy(q), missed) /\ view.sync_state = NotedBy(q)
    BY <1>1 DEF Exactly, Syncing
<1>3. TakenBy(q)' = TakenBy(q) /\ NotedBy(q)' = NotedBy(q)
    BY <1>1 DEF TakenBy, NotedBy
<1> QED BY <1>2, <1>3

LEMMA MovesExactly ==
    ASSUME Control, Solo, NEW p \in Processes, pc[p] \in Steps, Moves(p), Alone(p),
           (Exact(view, TakenBy(p), missed) /\ view.sync_state = NotedBy(p))'
    PROVE  Exactly'
<1>1. \A q \in Processes \ {p} : ~Syncing(q)'
    BY ByItself DEF Alone, Syncing
<1>2. Syncing(p)'
    <2>1. StepAfter(p) \in Steps \cup {"save"}
        BY StepsAndNames DEF StepAfter, Steps
    <2>2. pc'[p] \in Steps \cup {"save"}
        BY <2>1 DEF Moves
    <2> QED BY <2>2, StepsAndNames DEF Syncing, Steps
<1> QED BY <1>1, <1>2 DEF Exactly, Nobody

LEMMA BeginExactly ==
    ASSUME Control, Solo, Exactly, NEW p \in Processes, Begin(p), overlaps' = overlaps, Alone(p)
    PROVE  Exactly'
<1>1. /\ pc[p] = "idle" /\ ~executed[p] /\ executed' = executed /\ file' = file
      /\ pc'[p] \in {"factory", "save"} /\ state'[p] = file
      /\ view' = view /\ missed' = missed
      /\ \A q \in Processes \ {p} : Syncing(q) => Saving(q) /\ state[q] = file
    BY BeginsAs DEF database
<1>2. file.core = file.per_provider
    BY DEF Solo
<1>3. Exact(view, Upon(file.core), missed) /\ view.sync_state = file
    <2>1. CASE Nobody
        BY <2>1 DEF Exactly
    <2>2. CASE ~Nobody
        <3>1. PICK q \in Processes : Syncing(q)
            BY <2>2 DEF Nobody
        <3>2. q # p /\ Saving(q) /\ state[q] = file
            BY <1>1, <3>1 DEF Syncing
        <3>3. ~executed[q]
            BY <3>2, StepsAndNames DEF Saving, Control, OnCourse, Steps
        <3>4. TakenBy(q) = Upon(file.core) /\ NotedBy(q) = file
            BY <1>2, <3>2, <3>3, LevelTaken DEF Saving
        <3> QED BY <3>1, <3>4 DEF Exactly
    <2> QED BY <2>1, <2>2
<1>4. TakenBy(p)' = Upon(file.core) /\ NotedBy(p)' = file /\ Syncing(p)'
    <2>1. Behind(pc'[p]) = {} /\ ~executed'[p]
        BY <1>1, StepsAndNames DEF Behind
    <2>2. \A e : CursorAt(file, e) = file.core
        BY <1>2 DEF CursorAt
    <2>3. file = [core |-> file.core, per_provider |-> file.per_provider]
        BY DEF Control, Typed, Cursors
    <2> QED BY <1>1, <2>1, <2>2, <2>3 DEF TakenBy, Upon, NotedBy, Syncing
<1>5. (Exact(view, TakenBy(p), missed) /\ view.sync_state = NotedBy(p))'
    BY <1>1, <1>3, <1>4
<1>6. \A q \in Processes \ {p} : Syncing(q)' =>
          (Exact(view, TakenBy(q), missed) /\ view.sync_state = NotedBy(q))'
    BY <1>1, OthersTaken
<1> QED BY <1>4, <1>5, <1>6 DEF Exactly, Nobody

LEMMA SaveExactly ==
    ASSUME Control, Solo, Exactly, NEW p \in Processes, BeginSave(p) \/ FinishSave(p), Alone(p)
    PROVE  Exactly'
<1>1. Saving(p) /\ view' = view /\ missed' = missed
    BY SaveSolo
<1>2. Syncing(p) /\ ~executed[p] /\ Level(p)
    <2>1. Syncing(p)
        BY <1>1 DEF Saving, Syncing
    <2>2. ~executed[p]
        BY <1>1, StepsAndNames DEF Saving, Control, OnCourse, Steps
    <2> QED BY <2>1, <2>2 DEF Solo
<1>3. TakenBy(p) = Upon(state[p].core) /\ NotedBy(p) = state[p]
    BY <1>1, <1>2, LevelTaken DEF Saving, Level
<1>4. Exact(view, Upon(state[p].core), missed) /\ view.sync_state = state[p]
    BY <1>2, <1>3 DEF Exactly
<1>5. \A q \in Processes \ {p} : Syncing(q)' =>
          (Exact(view, TakenBy(q), missed) /\ view.sync_state = NotedBy(q))'
    BY <1>1, OthersTaken
<1>6. CASE BeginSave(p)
    <2>1. /\ pc'[p] = "saving" /\ state'[p] = state[p] /\ executed'[p] = executed[p]
          /\ current_block'[p] = current_block[p]
        BY <1>6 DEF BeginSave, locals, Control, Typed
    <2>2. Behind(pc[p]) = {} /\ Behind(pc'[p]) = {}
        BY <1>1, <2>1, StepsAndNames DEF Saving, Behind
    <2>3. TakenBy(p)' = TakenBy(p) /\ NotedBy(p)' = NotedBy(p)
        BY <1>2, <2>1, <2>2 DEF TakenBy, NotedBy
    <2>4. (Exact(view, TakenBy(p), missed) /\ view.sync_state = NotedBy(p))'
        BY <1>1, <1>3, <1>4, <2>3
    <2>5. Syncing(p)'
        BY <2>1 DEF Syncing
    <2> QED BY <1>5, <2>4, <2>5 DEF Exactly, Nobody
<1>7. CASE FinishSave(p)
    <2>1. file' = state[p] /\ ~Syncing(p)'
        BY <1>7 DEF FinishSave, AfterSync, Syncing, Control, Typed
    <2>2. (Exact(view, Upon(file.core), missed) /\ view.sync_state = file)'
        BY <1>1, <1>4, <2>1 DEF Upon
    <2> QED BY <1>5, <2>1, <2>2 DEF Exactly
<1> QED BY <1>6, <1>7

LEMMA IdleExactly ==
    ASSUME Control, Solo, Exactly, NEW p \in Processes, Launch(p) \/ BeginFails(p), Alone(p)
    PROVE  Exactly'
<1>1. ~Syncing(p) /\ ~Syncing(p)' /\ view' = view /\ missed' = missed /\ file' = file
    BY IdleSolo
<1>2. \A q \in Processes \ {p} : Syncing(q)' =>
          (Exact(view, TakenBy(q), missed) /\ view.sync_state = NotedBy(q))'
    BY <1>1, OthersTaken
<1>3. Nobody' => Nobody
    BY <1>1 DEF Nobody, Alone, Syncing
<1>4. Nobody' => (Exact(view, Upon(file.core), missed) /\ view.sync_state = file)'
    BY <1>1, <1>3 DEF Exactly, Upon
<1> QED BY <1>1, <1>2, <1>4 DEF Exactly

LEMMA MoveCalm ==
    ASSUME Control, DatabaseInv, CalmInv, NEW p \in Processes, Launch(p) \/ Work(p) \/ Trouble(p)
    PROVE  CalmInv'
<1> SUFFICES ASSUME Calm' PROVE Solo' /\ Exactly'
    BY DEF CalmInv
<1>1. Calm /\ overlaps' = overlaps /\ Alone(p) /\ ~Trouble(p)
    BY CalmBefore, MoveControl, NoTrouble
<1>2. Solo /\ Exactly
    BY <1>1 DEF CalmInv
<1>3. CASE Launch(p) \/ BeginFails(p)
    BY <1>1, <1>2, <1>3, IdleSolo, IdleExactly
<1>4. CASE Begin(p)
    BY <1>1, <1>2, <1>4, BeginSolo, BeginExactly
<1>5. CASE BeginSave(p) \/ FinishSave(p)
    BY <1>1, <1>2, <1>5, SaveSolo, SaveExactly
<1>6. ASSUME NEW step \in CoreSteps, ExecuteCore(p, step) PROVE Solo' /\ Exactly'
    <2>1. pc[p] \in Steps /\ Moves(p) /\ file' = file
        BY <1>1, <1>2, <1>6, CalmCore
    <2>2. (Exact(view, TakenBy(p), missed) /\ view.sync_state = NotedBy(p))'
        BY <1>1, <1>2, <1>6, CoreExactly
    <2> QED BY <1>1, <1>2, <2>1, <2>2, MovesSolo, MovesExactly
<1>7. CASE \/ ExecuteState(p, "core_state", "core")
           \/ ExecuteState(p, "per_provider_state", "per_provider")
    <2>1. pc[p] \in Steps /\ Moves(p) /\ file' = file
        BY <1>2, <1>7, CalmState
    <2>2. (Exact(view, TakenBy(p), missed) /\ view.sync_state = NotedBy(p))'
        BY <1>2, <1>7, StateExactly
    <2> QED BY <1>1, <1>2, <2>1, <2>2, MovesSolo, MovesExactly
<1>8. CASE ExecutePerProvider(p)
    <2>1. pc[p] \in Steps /\ Moves(p) /\ file' = file
        BY <1>1, <1>2, <1>8, CalmPerProvider
    <2>2. (Exact(view, TakenBy(p), missed) /\ view.sync_state = NotedBy(p))'
        BY <1>1, <1>2, <1>8, PerProviderExactly
    <2> QED BY <1>1, <1>2, <2>1, <2>2, MovesSolo, MovesExactly
<1>9. CASE Commit(p)
    <2>1. pc[p] \in Steps /\ Moves(p) /\ file' = file
        BY <1>9, CommitMoves
    <2>2. (Exact(view, TakenBy(p), missed) /\ view.sync_state = NotedBy(p))'
        BY <1>2, <1>9, CommitExactly
    <2> QED BY <1>1, <1>2, <2>1, <2>2, MovesSolo, MovesExactly
<1> QED BY <1>1, <1>3, <1>4, <1>5, <1>6, <1>7, <1>8, <1>9 DEF Work

LEMMA StepCalm ==
    Control /\ DatabaseInv /\ CalmInv /\ [IndexerNext]_indexerVars => CalmInv'
<1> SUFFICES ASSUME Control, DatabaseInv, CalmInv, [IndexerNext]_indexerVars PROVE CalmInv'
    OBVIOUS
<1>1. CASE UNCHANGED indexerVars \/ Mine
    <2>1. /\ writer' = writer /\ view' = view /\ file' = file /\ missed' = missed /\ pc' = pc
          /\ state' = state /\ executed' = executed /\ current_block' = current_block
          /\ faults' = faults /\ overlaps' = overlaps
        BY <1>1 DEF indexerVars, Mine, database, locals, history
    <2>2. Calm' => Calm
        BY <2>1 DEF Calm
    <2>3. Solo => Solo'
        BY <2>1 DEF Solo, Syncing, Saving, Level, Seen, Nobody
    <2>4. Exactly => Exactly'
        BY <2>1 DEF Exactly, Syncing, Nobody, TakenBy, NotedBy, Upon
    <2> QED BY <2>2, <2>3, <2>4 DEF CalmInv
<1>2. CASE \E p \in Processes : Launch(p) \/ Work(p) \/ Trouble(p)
    BY <1>2, MoveCalm
<1> QED BY <1>1, <1>2 DEF IndexerNext

LEMMA InitCalm == IndexerInit => CalmInv
<1> SUFFICES ASSUME IndexerInit PROVE CalmInv
    OBVIOUS
<1>1. /\ \A p \in Processes : ~Syncing(p)
      /\ file = NoState /\ view = EmptyDb /\ missed = {} /\ writer = NULL
    BY DEF IndexerInit, Syncing
<1>2. Solo
    BY <1>1, IndexerAssumption DEF Solo, NoState, Torn
<1>3. Upon(file.core) = {}
    <2>1. \A e \in EventIds : ~(e[1] <= 0)
        BY HistoryAssumption
    <2> QED BY <1>1, <2>1 DEF Upon, Noted, NoState
<1>4. Exact(EmptyDb, {}, {})
    <2>1. /\ EmptyDb.providers = <<>> /\ EmptyDb.endpoints = [ep \in {} |-> NULL]
          /\ EmptyDb.challenges = [id \in {} |-> NULL]
          /\ EmptyDb.rows = [e \in Appended |-> <<>>]
        BY DEF EmptyDb
    <2>2. ExactRows(EmptyDb, {}, {})
        BY <2>1 DEF ExactRows
    <2>3. ExactChallenges(EmptyDb, {})
        BY <2>1 DEF ExactChallenges
    <2>4. ExactProviders(EmptyDb, {})
        BY <2>1 DEF ExactProviders
    <2>5. ExactEndpoints(EmptyDb, {})
        BY <2>1 DEF ExactEndpoints
    <2>6. ExactNames(EmptyDb, {}, {})
        BY DEF ExactNames
    <2> QED BY <2>2, <2>3, <2>4, <2>5, <2>6 DEF Exact
<1>5. view.sync_state = file
    BY <1>1 DEF EmptyDb, NoState
<1>6. Exactly
    BY <1>1, <1>3, <1>4, <1>5 DEF Exactly
<1> QED BY <1>2, <1>6 DEF CalmInv

(***************************************************************************)
(* A payment is passed over only if the deployment of its share has no row *)
(* of its own.                                                             *)
(***************************************************************************)
Explained ==
    Calm => \A e \in missed : \E f \in WithoutRow : /\ Ev(f).type = "ProviderDeployed"
                                                    /\ Ev(f).share = Ev(e).share

LEMMA PerProviderExplained ==
    ASSUME Control, DatabaseInv, Promise, Solo, Exactly, Explained, Calm, Calm',
           NEW p \in Processes, ExecutePerProvider(p)
    PROVE  Explained'
<1> DEFINE due == InRange(p, Of(PerProvider))
           found == {e \in due : RowsOf(view, e) # {}}
<1>1. /\ pc[p] = "per_provider" /\ pc[p] \in Steps /\ ~executed[p]
      /\ missed' = missed \cup (due \ found)
    BY CalmPerProvider
<1>2. /\ Syncing(p) /\ Level(p) /\ view = db /\ missed \subseteq Of(PerProvider)
    <2>1. Syncing(p) /\ writer = NULL
        BY <1>1, ByItself
    <2>2. ExactRows(view, TakenBy(p), missed)
        BY <2>1 DEF Exactly, Exact
    <2> QED BY <2>1, <2>2 DEF Solo, DatabaseInv, ExactRows
<1>3. ASSUME NEW e \in due \ found
      PROVE  \E f \in WithoutRow : Ev(f).type = "ProviderDeployed" /\ Ev(f).share = Ev(e).share
    <2>1. e \in Of(PerProvider) /\ e \in EventIds /\ e[1] <= current_block[p] /\ RowsOf(view, e) = {}
        BY WithinRange, OfTypes DEF InRange
    <2>2. PICK f \in Of({"ProviderDeployed"}) : Ev(f).share = Ev(e).share /\ f[1] <= e[1]
        BY <2>1, ContractsAssumption DEF PerProvider
    <2>3. f \in EventIds /\ Ev(f).type = "ProviderDeployed"
        BY OfTypes
    <2>4. f[1] <= CursorAt(state[p], f)
        <3>1. f[1] \in Nat /\ e[1] \in Nat /\ current_block[p] \in Nat
            BY <2>1, <2>3, EventBlocks DEF Control, Typed
        <3>2. CursorAt(state[p], f) = current_block[p]
            BY <1>1, <1>2, <2>3 DEF Level, CursorAt, PerProvider
        <3> QED BY <2>1, <2>2, <3>1, <3>2
    <2>5. Held(db, f) \/ Excused(f)
        BY <1>2, <2>3, <2>4 DEF Promise, Aware, Known, Done
    <2>6. ~Held(db, f)
        BY <1>2, <2>1, <2>2, <2>3 DEF Held, RowsOf
    <2>7. f \notin missed /\ NeedsRowOf(f) = {}
        BY <1>2, <2>3, OfTypes DEF NeedsRowOf, PerProvider
    <2>8. f \in WithoutRow
        BY <2>5, <2>6, <2>7 DEF Excused
    <2> QED BY <2>2, <2>3, <2>8
<1> HIDE DEF due, found
<1> QED BY <1>1, <1>3 DEF Explained

LEMMA StepExplained ==
    Control /\ DatabaseInv /\ Promise /\ CalmInv /\ Explained /\ [IndexerNext]_indexerVars
        => Explained'
<1> SUFFICES ASSUME Control, DatabaseInv, Promise, CalmInv, Explained, [IndexerNext]_indexerVars,
                    Calm'
             PROVE  Explained'
    BY DEF Explained
<1>1. CASE UNCHANGED indexerVars \/ Mine
    BY <1>1 DEF indexerVars, Mine, history, Explained, Calm
<1>2. ASSUME NEW p \in Processes, Launch(p) \/ Work(p) \/ Trouble(p) PROVE Explained'
    <2>1. Calm /\ ~Trouble(p) /\ Solo /\ Exactly
        BY <1>2, CalmBefore, NoTrouble DEF CalmInv
    <2>2. missed' = missed => Explained'
        BY <2>1 DEF Explained
    <2>3. CASE Launch(p) \/ Begin(p) \/ BeginFails(p) \/ BeginSave(p) \/ FinishSave(p) \/ Commit(p)
        BY <2>2, <2>3 DEF Launch, Begin, BeginFails, BeginSave, FinishSave, Commit, history
    <2>4. ASSUME NEW step \in CoreSteps, ExecuteCore(p, step) PROVE Explained'
        BY <2>1, <2>2, <2>4, CalmCore
    <2>5. CASE \/ ExecuteState(p, "core_state", "core")
               \/ ExecuteState(p, "per_provider_state", "per_provider")
        BY <2>1, <2>2, <2>5, CalmState
    <2>6. CASE ExecutePerProvider(p)
        BY <2>1, <2>6, PerProviderExplained
    <2> QED BY <1>2, <2>1, <2>3, <2>4, <2>5, <2>6 DEF Work
<1> QED BY <1>1, <1>2 DEF IndexerNext

LEMMA InitExplained == IndexerInit => Explained
    BY DEF IndexerInit, Explained

-----------------------------------------------------------------------------
(***************************************************************************)
(* What exact tables answer, when no sync runs and none has failed.  Their *)
(* events are those up to the saved cursor b.                              *)
(***************************************************************************)
AtRest(b) ==
    /\ Exact(db, Upon(b), missed) /\ Good(db)
    /\ db.sync_state.core = b /\ db.sync_state.per_provider = b
    /\ Regular => missed = {}

LEMMA SettledAtRest ==
    ASSUME Control, DatabaseInv, CalmInv, Explained, Settled
    PROVE  AtRest(file.core) /\ file.core \in Int
<1>1. Calm /\ Nobody
    BY DEF Settled, Calm, Nobody
<1>2. writer = NULL
    <2> SUFFICES ASSUME writer \in Processes PROVE FALSE
        BY <1>1 DEF CalmInv, Solo
    <2>1. executed[writer]
        BY <1>1 DEF CalmInv, Solo
    <2>2. Syncing(writer)
        BY <2>1, StepsAndNames DEF Control, OnCourse, Steps, Syncing
    <2> QED BY <1>1, <2>2 DEF Nobody
<1>3. Exact(db, Upon(file.core), missed) /\ db.sync_state = file /\ Good(db)
    BY <1>1, <1>2 DEF CalmInv, Exactly, DatabaseInv
<1>4. file.core = file.per_provider /\ file.core \in Int
    BY <1>1 DEF CalmInv, Solo, Control, Typed, Cursors
<1>5. Regular => missed = {}
    <2>1. \A f \in WithoutRow : Ev(f).type = "ProviderDeployed" => f \in Of({"ProviderDeployed"})
        BY OfTypes DEF WithoutRow
    <2> QED BY <1>1, <2>1 DEF Explained, Regular
<1> QED BY <1>3, <1>4, <1>5 DEF AtRest

\* Sets in one-to-one correspondence are of one size.
LEMMA SameSize ==
    ASSUME NEW S, IsFiniteSet(S), NEW T, NEW f \in [S -> T],
           \A x, y \in S : f[x] = f[y] => x = y, \A t \in T : \E x \in S : f[x] = t
    PROVE  IsFiniteSet(T) /\ Cardinality(T) = Cardinality(S)
<1>1. f \in Bijection(S, T)
    BY DEF Bijection, Injection, Surjection, IsInjective
<1>2. ExistsBijection(S, T)
    BY <1>1 DEF ExistsBijection
<1> QED BY <1>2, FS_Bijection

LEMMA SomeEvents == \A events : events \subseteq EventIds => IsFiniteSet(events)
    BY ContractsAssumption, FS_Subset

\* Each event that has its row has one row.
LEMMA RowsAtRest ==
    ASSUME NEW b, AtRest(b), NEW type \in AppendedTypes, NEW events, events \subseteq Of({type})
    PROVE  /\ SumOver(db, events) = Coins(events \cap Received(type, b))
           /\ CountOver(db, events) = Cardinality(events \cap Received(type, b))
           /\ RowsIn(db, events) = (events \cap Received(type, b)) \X {1}
           /\ type \notin PerProvider => Received(type, b) = Upto(type, b)
<1> DEFINE its == events \cap Received(type, b)
<1>1. /\ \A e \in Appended : DOMAIN db.rows[e] = IF e \in Upon(b) \ missed THEN {1} ELSE {}
      /\ missed \subseteq Of(PerProvider)
    BY DEF AtRest, Exact, ExactRows
<1>2. \A e \in events : e \in Appended /\ e \in EventIds /\ Ev(e).type = type
    BY OfTypes DEF Appended
<1>3. \A e \in events : e \in Noted
    BY <1>2 DEF Noted, AppendedTypes
<1>4. \A e \in events : e \in its <=> e \in Upon(b) \ missed
    BY <1>2, <1>3 DEF Upon, Received, Upto
<1>5. RowsIn(db, events) = its \X {1}
    <2>1. \A e \in events : DOMAIN db.rows[e] = IF e \in its THEN {1} ELSE {}
        BY <1>1, <1>2, <1>4
    <2>2. its \subseteq events
        OBVIOUS
    <2> HIDE DEF its
    <2> QED BY <2>1, <2>2 DEF RowsIn
<1>6. IsFiniteSet(its) /\ Cardinality(its) = Cardinality(its \X {1})
    <2>1. IsFiniteSet(its)
        BY <1>2, SomeEvents
    <2>2. IsFiniteSet({1}) /\ Cardinality({1}) = 1
        BY FS_Singleton
    <2>3. Cardinality(its) \in Nat /\ Cardinality(its \X {1}) = Cardinality(its) * Cardinality({1})
        BY <2>1, <2>2, FS_CardinalityType, FS_Product
    <2> QED BY <2>1, <2>2, <2>3
<1>7. type \notin PerProvider => Received(type, b) = Upto(type, b)
    BY <1>1, OfTypes DEF Received, Upto
<1> QED BY <1>5, <1>6, <1>7 DEF SumOver, CountOver, Coins

LEMMA TotalsAtRest == ASSUME NEW b, AtRest(b), Calm, Explained PROVE TotalsAgree(b)
<1> DEFINE staked(a) == Coins(By("Staked", a) \cap Upto("Staked", b))
           withdrawn(a) == Coins(By("Withdrawn", a) \cap Upto("Withdrawn", b))
           slashed(a) == Coins(By("Slashed", a) \cap Upto("Slashed", b))
           Stakers == {Ev(e).provider : e \in {f \in Of({"Staked"}) : db.rows[f] # <<>>}}
           Line(a) == [address |-> a,
                       net |-> SumOver(db, By("Staked", a)) - SumOver(db, By("Withdrawn", a)),
                       slashed |-> SumOver(db, By("Slashed", a))]
<1>1. \A type \in {"Staked", "Withdrawn", "Slashed"} : type \in AppendedTypes /\ type \notin PerProvider
    BY DEF AppendedTypes, PerProvider
<1>2. \A type \in {"Distributed", "Claimed"} : type \in AppendedTypes
    BY DEF AppendedTypes
<1>3. \A type : /\ Of({type}) \cap Upto(type, b) = Upto(type, b)
                /\ Of({type}) \cap Received(type, b) = Received(type, b)
    BY DEF Upto, Received
<1>4. ASSUME NEW type \in {"Staked", "Withdrawn", "Slashed"}
      PROVE  /\ SumOver(db, Of({type})) = Coins(Upto(type, b))
             /\ CountOver(db, Of({type})) = Cardinality(Upto(type, b))
             /\ \A a : SumOver(db, By(type, a)) = Coins(By(type, a) \cap Upto(type, b))
    <2>1. Received(type, b) = Upto(type, b)
        BY <1>1, RowsAtRest
    <2>2. \A a : By(type, a) \subseteq Of({type})
        BY DEF By
    <2>3. \A events : events \subseteq Of({type}) =>
              /\ SumOver(db, events) = Coins(events \cap Received(type, b))
              /\ CountOver(db, events) = Cardinality(events \cap Received(type, b))
        BY <1>1, RowsAtRest
    <2> QED BY <1>3, <2>1, <2>2, <2>3
<1>5. ASSUME NEW type \in {"Distributed", "Claimed"}
      PROVE  /\ SumOver(db, Of({type})) = Coins(Received(type, b))
             /\ \A s : LET its == OfShare(type, s) \cap Received(type, b)
                       IN  /\ SumOver(db, OfShare(type, s)) = Coins(its)
                           /\ CountOver(db, OfShare(type, s)) = Cardinality(its)
    <2>1. \A s : OfShare(type, s) \subseteq Of({type})
        BY DEF OfShare
    <2>2. \A events : events \subseteq Of({type}) =>
              /\ SumOver(db, events) = Coins(events \cap Received(type, b))
              /\ CountOver(db, events) = Cardinality(events \cap Received(type, b))
        BY <1>2, RowsAtRest
    <2> QED BY <1>3, <2>1, <2>2
<1>6. /\ Overview(db).total_staked = SumOver(db, Of({"Staked"})) - SumOver(db, Of({"Withdrawn"}))
      /\ Overview(db).slashes = CountOver(db, Of({"Slashed"}))
      /\ ChainOverview(b).total_staked = Coins(Upto("Staked", b)) - Coins(Upto("Withdrawn", b))
      /\ ChainOverview(b).slashes = Cardinality(Upto("Slashed", b))
    BY DEF Overview, ChainOverview
<1>7. /\ StakingSummary(db).net_staked = SumOver(db, Of({"Staked"})) - SumOver(db, Of({"Withdrawn"}))
      /\ StakingSummary(db).total_slashed = SumOver(db, Of({"Slashed"}))
      /\ StakingSummary(db).stakers = {Line(a) : a \in Stakers}
    BY DEF StakingSummary
<1>8. \A a : /\ Line(a).address = a /\ Line(a).net = staked(a) - withdrawn(a)
             /\ Line(a).slashed = slashed(a)
    BY <1>4
<1>9. Stakers = {Ev(e).provider : e \in Upto("Staked", b)}
    <2>1. \A e \in Of({"Staked"}) : db.rows[e] # <<>> <=> e \in Upto("Staked", b)
        <3> TAKE e \in Of({"Staked"})
        <3>1. e \in Appended /\ e \in EventIds /\ e \in Noted /\ e \notin Of(PerProvider)
            BY <1>1, OfTypes DEF Appended, AppendedTypes, Noted
        <3>2. DOMAIN db.rows[e] = IF e \in Upto("Staked", b) THEN {1} ELSE {}
            BY <3>1 DEF AtRest, Exact, ExactRows, Upon, Upto
        <3>3. db.rows[e] \in Seq(Ids)
            BY <3>1 DEF AtRest, Good, IsDb
        <3>4. db.rows[e] = <<>> <=> DOMAIN db.rows[e] = {}
            <4>1. CASE db.rows[e] = <<>>
                BY <4>1
            <4>2. CASE db.rows[e] # <<>>
                <5>1. Len(db.rows[e]) \in Nat \ {0} /\ DOMAIN db.rows[e] = 1 .. Len(db.rows[e])
                    BY <3>3, <4>2, EmptySeq, LenProperties
                <5>2. 1 \in DOMAIN db.rows[e]
                    BY <5>1
                <5> QED BY <4>2, <5>2
            <4> QED BY <4>1, <4>2
        <3> QED BY <3>2, <3>4
    <2>2. {f \in Of({"Staked"}) : db.rows[f] # <<>>} = Upto("Staked", b)
        BY <2>1 DEF Upto
    <2> QED BY <2>2
<1>10. RevenueSummary(db).total = SumOver(db, Of({"Distributed"}))
    BY DEF RevenueSummary
<1>11. \A s : /\ RsDetail(db, s).total_revenue = SumOver(db, OfShare("Distributed", s))
              /\ RsDetail(db, s).total_claimed = SumOver(db, OfShare("Claimed", s))
              /\ RsDetail(db, s).claim_count = CountOver(db, OfShare("Claimed", s))
    BY DEF RsDetail
<1>12. \A e \in missed : \E f \in WithoutRow : /\ Ev(f).type = "ProviderDeployed"
                                               /\ Ev(f).share = Ev(e).share
    BY DEF Explained
<1>13. {staker.address : staker \in StakingSummary(db).stakers} =
           {Ev(e).provider : e \in Upto("Staked", b)}
    <2>1. {staker.address : staker \in {Line(a) : a \in Stakers}} = {Line(a).address : a \in Stakers}
        <3> HIDE DEF Stakers, Line
        <3> QED BY Zenon
    <2>2. {Line(a).address : a \in Stakers} = Stakers
        <3> HIDE DEF Stakers, Line
        <3> QED BY <1>8
    <2> HIDE DEF Stakers, Line
    <2> QED BY <1>7, <1>9, <2>1, <2>2
<1>14. \A staker \in StakingSummary(db).stakers :
           /\ staker.net = staked(staker.address) - withdrawn(staker.address)
           /\ staker.slashed = slashed(staker.address)
    <2> HIDE DEF Stakers, Line, staked, withdrawn, slashed
    <2> QED BY <1>7, <1>8
<1> HIDE DEF Stakers, Line
<1> QED BY <1>4, <1>5, <1>6, <1>7, <1>10, <1>11, <1>12, <1>13, <1>14 DEF TotalsAgree

LEMMA UponUpto ==
    ASSUME NEW b, NEW type, type # "EndpointUpdated"
    PROVE  Upon(b) \cap Of({type}) = Upto(type, b)
    BY OfTypes DEF Upon, Upto, Noted

\* The table of the challenges is what the chain says of them.
LEMMA ChallengesAtRest ==
    ASSUME NEW b, AtRest(b)
    PROVE  /\ DOMAIN db.challenges = {Ev(e).id : e \in Upto("ChallengeOpened", b)}
           /\ \A id \in DOMAIN db.challenges : db.challenges[id].status = Verdict(id, b)
           /\ \A ep : Against(db, ep) = ChainChallenges({ep}, b)
           /\ \A eps : UNION {Against(db, ep) : ep \in eps} = ChainChallenges(eps, b)
           /\ \A s : WithStatus(db, s) =
                  {Ev(e).id : e \in {f \in Upto("ChallengeOpened", b) : Verdict(Ev(f).id, b) = s}}
<1> DEFINE Opened == Upto("ChallengeOpened", b)
<1>1. /\ DOMAIN db.challenges = {Ev(e).id : e \in Opened}
      /\ \A e \in Opened : db.challenges[Ev(e).id].endpoint = Ev(e).endpoint
      /\ \A id \in DOMAIN db.challenges : db.challenges[id].status = VerdictIn(id, Upon(b))
    <2>1. Upon(b) \cap Of({"ChallengeOpened"}) = Opened
        BY UponUpto
    <2> HIDE DEF Opened
    <2> QED BY <2>1 DEF AtRest, Exact, ExactChallenges
<1>2. ASSUME NEW id PROVE VerdictIn(id, Upon(b)) = Verdict(id, b)
    <2> DEFINE its == {e \in Upto("ChallengeResolved", b) : Ev(e).id = id}
               Result(S) == IF S = {} THEN 0 ELSE Ev(CHOOSE e \in S : TRUE).result
    <2>1. {e \in Upon(b) \cap Of({"ChallengeResolved"}) : Ev(e).id = id} = its
        BY UponUpto
    <2>2. VerdictIn(id, Upon(b)) =
              Result({e \in Upon(b) \cap Of({"ChallengeResolved"}) : Ev(e).id = id})
        BY DEF VerdictIn
    <2>3. Verdict(id, b) = Result(its)
        BY DEF Verdict
    <2> HIDE DEF Result, its
    <2> QED BY <2>1, <2>2, <2>3
<1>3. \A id \in DOMAIN db.challenges : db.challenges[id].status = Verdict(id, b)
    BY <1>1, <1>2
<1>4. ASSUME NEW eps
      PROVE  {id \in DOMAIN db.challenges : db.challenges[id].endpoint \in eps} =
                 ChainChallenges(eps, b)
    <2> HIDE DEF Opened
    <2>1. ChainChallenges(eps, b) = {Ev(e).id : e \in {f \in Opened : Ev(f).endpoint \in eps}}
        BY DEF ChainChallenges, Opened
    <2>2. ASSUME NEW id \in DOMAIN db.challenges, db.challenges[id].endpoint \in eps
          PROVE  id \in ChainChallenges(eps, b)
        <3>1. PICK e \in Opened : id = Ev(e).id
            BY <1>1, <2>2
        <3> QED BY <1>1, <2>1, <2>2, <3>1
    <2>3. ASSUME NEW id \in ChainChallenges(eps, b)
          PROVE  id \in DOMAIN db.challenges /\ db.challenges[id].endpoint \in eps
        <3>1. PICK e \in Opened : id = Ev(e).id /\ Ev(e).endpoint \in eps
            BY <2>1, <2>3
        <3> QED BY <1>1, <3>1
    <2> QED BY <2>2, <2>3
<1>5. \A ep : Against(db, ep) = ChainChallenges({ep}, b)
    <2> TAKE ep
    <2>1. Against(db, ep) = {id \in DOMAIN db.challenges : db.challenges[id].endpoint \in {ep}}
        BY DEF Against
    <2> QED BY <1>4, <2>1
<1>6. \A eps : UNION {Against(db, ep) : ep \in eps} = ChainChallenges(eps, b)
    <2> TAKE eps
    <2>1. UNION {Against(db, ep) : ep \in eps} =
              {id \in DOMAIN db.challenges : db.challenges[id].endpoint \in eps}
        BY DEF Against
    <2> QED BY <1>4, <2>1
<1>7. \A s : WithStatus(db, s) = {Ev(e).id : e \in {f \in Opened : Verdict(Ev(f).id, b) = s}}
    <2> TAKE s
    <2>1. ASSUME NEW id \in WithStatus(db, s)
          PROVE  id \in {Ev(e).id : e \in {f \in Opened : Verdict(Ev(f).id, b) = s}}
        <3>1. id \in DOMAIN db.challenges /\ db.challenges[id].status = s
            BY <2>1 DEF WithStatus
        <3>2. PICK e \in Opened : id = Ev(e).id
            BY <1>1, <3>1
        <3> QED BY <1>3, <3>1, <3>2
    <2>2. ASSUME NEW e \in Opened, Verdict(Ev(e).id, b) = s PROVE Ev(e).id \in WithStatus(db, s)
        BY <1>1, <1>3, <2>2 DEF WithStatus
    <2> HIDE DEF Opened
    <2> QED BY <2>1, <2>2
<1> QED BY <1>1, <1>3, <1>5, <1>6, <1>7

LEMMA LastBlockAtRest == ASSUME NEW b \in Int, AtRest(b) PROVE LastBlock(db) = b
    BY DEF LastBlock, Later, AtRest

LEMMA ChallengesAgreeAtRest == ASSUME NEW b \in Int, AtRest(b) PROVE ChallengesAgree(b)
<1> DEFINE Opened == Upto("ChallengeOpened", b)
           With(s) == {e \in Opened : Verdict(Ev(e).id, b) = s}
<1>1. \A e \in Opened : e \in EventIds /\ e \in Of({"ChallengeOpened"})
    BY OfTypes DEF Upto
<1>2. ASSUME NEW s PROVE Cardinality(WithStatus(db, s)) = Cardinality(With(s))
    <2> DEFINE f == [e \in With(s) |-> Ev(e).id]
    <2>1. WithStatus(db, s) = {Ev(e).id : e \in With(s)}
        BY ChallengesAtRest
    <2>2. /\ f \in [With(s) -> WithStatus(db, s)]
          /\ \A t \in WithStatus(db, s) : \E x \in With(s) : f[x] = t
        BY <2>1
    <2>3. \A x, y \in With(s) : f[x] = f[y] => x = y
        BY <1>1, ContractsAssumption
    <2>4. IsFiniteSet(With(s))
        BY <1>1, SomeEvents
    <2> HIDE DEF f, With
    <2> QED BY <2>2, <2>3, <2>4, SameSize
<1>3. Overview(db).challenges = ChainOverview(b).challenges
    <2>1. Overview(db).challenges = [s \in 0 .. 2 |-> Cardinality(WithStatus(db, s))]
        BY DEF Overview
    <2>2. ChainOverview(b).challenges = [s \in 0 .. 2 |-> Cardinality(With(s))]
        BY DEF ChainOverview
    <2> HIDE DEF With
    <2> QED BY <1>2, <2>1, <2>2
<1>4. ASSUME NEW ep PROVE GetEndpoint(db, ep) = [id \in ChainChallenges({ep}, b) |-> Verdict(id, b)]
    <2>1. GetEndpoint(db, ep) = [id \in Against(db, ep) |-> db.challenges[id].status]
        BY DEF GetEndpoint
    <2>2. Against(db, ep) \subseteq DOMAIN db.challenges
        BY DEF Against
    <2>3. /\ Against(db, ep) = ChainChallenges({ep}, b)
          /\ \A id \in Against(db, ep) : db.challenges[id].status = Verdict(id, b)
        BY <2>2, ChallengesAtRest
    <2> QED BY <2>1, <2>3
<1>5. ASSUME NEW s PROVE {ch.id : ch \in ListChallenges(db, s)} = {Ev(e).id : e \in With(s)}
    <2> DEFINE Line(id) ==
                   [id |-> id,
                    provider_id |->
                        LET ep == db.challenges[id].endpoint
                        IN  IF ep \in DOMAIN db.endpoints THEN db.endpoints[ep].provider_id ELSE NULL,
                    resolution_time |-> IF db.challenges[id].resolved = NULL THEN NULL
                                        ELSE db.challenges[id].resolved - db.challenges[id].opened]
    <2>1. ListChallenges(db, s) = {Line(id) : id \in WithStatus(db, s)}
        BY DEF ListChallenges
    <2>2. \A id : Line(id).id = id
        OBVIOUS
    <2> HIDE DEF Line
    <2>3. {ch.id : ch \in {Line(id) : id \in WithStatus(db, s)}} =
              {Line(id).id : id \in WithStatus(db, s)}
        BY Zenon
    <2>4. {Line(id).id : id \in WithStatus(db, s)} = WithStatus(db, s)
        BY <2>2
    <2> QED BY <2>1, <2>3, <2>4, ChallengesAtRest
<1>6. SyncStatus(db).last_indexed_block = b
    BY LastBlockAtRest DEF SyncStatus
<1> QED BY <1>3, <1>4, <1>5, <1>6 DEF ChallengesAgree

(***************************************************************************)
(* The providers: each deployment up to b has one row, which its           *)
(* registration has completed.                                             *)
(***************************************************************************)
IsRowOf(i, f) ==
    /\ db.providers[i].id = Ev(RegistrationOf(f)).id
    /\ db.providers[i].owner = Ev(RegistrationOf(f)).owner
    /\ db.providers[i].share = Ev(f).share

\* A deployment with its registration, as the chain's view pairs them.
LEMMA Paired ==
    ASSUME NEW b, Regular
    PROVE  /\ \A de \in Deployments(b) : /\ de[1] \in Upto("ProviderDeployed", b)
                                         /\ de[2] = RegistrationOf(de[1])
                                         /\ de = <<de[1], RegistrationOf(de[1])>>
           /\ \A f \in Upto("ProviderDeployed", b) :
                  /\ <<f, RegistrationOf(f)>> \in Deployments(b)
                  /\ RegistrationOf(f) \in Upto("ProviderRegistered", b)
<1>1. ASSUME NEW de \in Deployments(b)
      PROVE  /\ de[1] \in Upto("ProviderDeployed", b) /\ de[2] = RegistrationOf(de[1])
             /\ de = <<de[1], RegistrationOf(de[1])>>
    <2>1. /\ de \in Upto("ProviderDeployed", b) \X Upto("ProviderRegistered", b)
          /\ Ev(de[1]).tx = Ev(de[2]).tx
        BY DEF Deployments
    <2>2. /\ de[1] \in Upto("ProviderDeployed", b) /\ de[2] \in Upto("ProviderRegistered", b)
          /\ de = <<de[1], de[2]>>
        BY <2>1
    <2>3. de[1] \in Of({"ProviderDeployed"}) /\ de[2] \in Of({"ProviderRegistered"})
        BY <2>2 DEF Upto
    <2>4. de[2] = RegistrationOf(de[1])
        BY <2>1, <2>3, Registrations
    <2> QED BY <2>2, <2>4
<1>2. ASSUME NEW f \in Upto("ProviderDeployed", b)
      PROVE  /\ <<f, RegistrationOf(f)>> \in Deployments(b)
             /\ RegistrationOf(f) \in Upto("ProviderRegistered", b)
    <2>1. /\ RegistrationOf(f) \in Of({"ProviderRegistered"})
          /\ Ev(RegistrationOf(f)).tx = Ev(f).tx /\ RegistrationOf(f)[1] = f[1] /\ f[1] <= b
        BY Registrations DEF Upto
    <2>2. RegistrationOf(f) \in Upto("ProviderRegistered", b)
        BY <2>1 DEF Upto
    <2> QED BY <2>1, <2>2 DEF Deployments
<1> QED BY <1>1, <1>2

LEMMA RowsOfDeployments ==
    ASSUME NEW b \in Int, AtRest(b), Regular
    PROVE  /\ \A i \in DOMAIN db.providers : \E f \in Upto("ProviderDeployed", b) : IsRowOf(i, f)
           /\ \A f \in Upto("ProviderDeployed", b) : \E i \in DOMAIN db.providers : IsRowOf(i, f)
           /\ \A i \in DOMAIN db.providers, f, g \in Upto("ProviderDeployed", b) :
                  IsRowOf(i, f) /\ (IsRowOf(i, g) \/ Ev(f).share = Ev(g).share
                                        \/ Ev(RegistrationOf(f)).id = Ev(RegistrationOf(g)).id)
                      => f = g
           /\ \A i, j \in DOMAIN db.providers, f \in Upto("ProviderDeployed", b) :
                  IsRowOf(i, f) /\ IsRowOf(j, f) => i = j
           /\ Len(db.providers) \in Nat /\ DOMAIN db.providers = 1 .. Len(db.providers)
<1> DEFINE D == Upto("ProviderDeployed", b)
           HasTx(i, f) == db.providers[i].tx = Ev(f).tx
<1>1. /\ ExactProviders(db, Upon(b)) /\ db.providers \in Seq(ProviderRow)
    BY DEF AtRest, Exact, Good, IsDb
<1>2. /\ Upon(b) \subseteq EventIds /\ \A f \in Upon(b) : f[1] <= b
      /\ Upon(b) \cap Of({"ProviderDeployed"}) = D
    BY UponUpto DEF Upon, Noted
<1>3. Deployers(b) \cup {g \in Of({"ProviderRegistered"}) : g[1] <= b} \subseteq Upon(b)
    BY OfTypes DEF Deployers, Upon, Noted
<1>4. \A i \in DOMAIN db.providers : \E f \in D : HasTx(i, f) /\ IsRowOf(i, f)
    <2> HIDE DEF D
    <2> QED BY <1>1, <1>2, <1>3, CompleteRows DEF IsRowOf
<1>5. \A f \in D : f \in Of({"ProviderDeployed"}) /\ f \in EventIds
    BY OfTypes DEF Upto
<1>6. \A f, g \in D : Ev(f).tx = Ev(g).tx => f = g
    BY <1>5, Registrations
<1>7. \A f, g \in D : Ev(f).share = Ev(g).share => f = g
    BY <1>5, ContractsAssumption
<1>8. \A f, g \in D : Ev(RegistrationOf(f)).id = Ev(RegistrationOf(g)).id => f = g
    <2> TAKE f \in D, g \in D
    <2>1. /\ RegistrationOf(f) \in Of({"ProviderRegistered"}) /\ Ev(RegistrationOf(f)).tx = Ev(f).tx
          /\ RegistrationOf(g) \in Of({"ProviderRegistered"}) /\ Ev(RegistrationOf(g)).tx = Ev(g).tx
        BY <1>5, Registrations
    <2>2. Ev(RegistrationOf(f)).id = Ev(RegistrationOf(g)).id => RegistrationOf(f) = RegistrationOf(g)
        BY <2>1, IdsOrdered
    <2> QED BY <1>6, <2>1, <2>2
<1>9. \A i \in DOMAIN db.providers : \A f \in D : IsRowOf(i, f) <=> HasTx(i, f)
    <2> TAKE i \in DOMAIN db.providers
    <2> TAKE f \in D
    <2>1. PICK g \in D : HasTx(i, g) /\ IsRowOf(i, g)
        BY <1>4
    <2>2. HasTx(i, f) => f = g
        BY <1>6, <2>1
    <2>3. IsRowOf(i, f) => f = g
        BY <1>7, <2>1 DEF IsRowOf
    <2> QED BY <2>1, <2>2, <2>3
<1>10. \A f \in D : \E i \in DOMAIN db.providers : IsRowOf(i, f)
    <2> HIDE DEF D
    <2> QED BY <1>1, <1>2, <1>9 DEF ExactProviders
<1>11. Len(db.providers) \in Nat /\ DOMAIN db.providers = 1 .. Len(db.providers)
    BY <1>1, LenProperties
<1>12. ASSUME NEW i \in DOMAIN db.providers, NEW j \in DOMAIN db.providers, NEW f \in D,
              HasTx(i, f), HasTx(j, f), i < j
       PROVE  FALSE
    <2>1. ChainOrder(f, f)
        BY <1>1, <1>5, <1>12 DEF ExactProviders
    <2> QED BY <1>5, <2>1, Chain
<1>13. \A i, j \in DOMAIN db.providers, f \in D : IsRowOf(i, f) /\ IsRowOf(j, f) => i = j
    <2> TAKE i \in DOMAIN db.providers, j \in DOMAIN db.providers, f \in D
    <2>1. i \in Int /\ j \in Int
        BY <1>11
    <2> HIDE DEF D, HasTx
    <2> QED BY <1>9, <1>12, <2>1
<1>14. \A i \in DOMAIN db.providers, f, g \in D : IsRowOf(i, f) /\ IsRowOf(i, g) => f = g
    BY <1>7 DEF IsRowOf
<1> HIDE DEF D, HasTx
<1> QED BY <1>4, <1>7, <1>8, <1>10, <1>11, <1>13, <1>14 DEF D

LEMMA CountProviders ==
    ASSUME NEW b \in Int, AtRest(b), Regular
    PROVE  Len(db.providers) = Cardinality(Deployments(b))
<1> DEFINE D == Upto("ProviderDeployed", b)
           N == Len(db.providers)
           f == [i \in 1 .. N |-> CHOOSE g \in D : IsRowOf(i, g)]
           h == [i \in 1 .. N |-> <<f[i], RegistrationOf(f[i])>>]
<1>1. N \in Nat /\ DOMAIN db.providers = 1 .. N
    BY RowsOfDeployments
<1>2. \A i \in 1 .. N : f[i] \in D /\ IsRowOf(i, f[i])
    BY <1>1, RowsOfDeployments
<1> HIDE DEF f
<1>3. h \in [1 .. N -> Deployments(b)]
    BY <1>2, Paired
<1>4. \A i, j \in 1 .. N : h[i] = h[j] => i = j
    BY <1>1, <1>2, RowsOfDeployments
<1>5. ASSUME NEW de \in Deployments(b) PROVE \E i \in 1 .. N : h[i] = de
    <2>1. de[1] \in D /\ de = <<de[1], RegistrationOf(de[1])>>
        BY Paired
    <2>2. PICK i \in 1 .. N : IsRowOf(i, de[1])
        BY <1>1, <2>1, RowsOfDeployments
    <2>3. f[i] = de[1]
        BY <1>1, <1>2, <2>1, <2>2, RowsOfDeployments
    <2> QED BY <2>1, <2>3
<1>6. IsFiniteSet(1 .. N) /\ Cardinality(1 .. N) = N
    BY <1>1, FS_Interval
<1> HIDE DEF h, N
<1>7. Cardinality(Deployments(b)) = Cardinality(1 .. N)
    BY <1>3, <1>4, <1>5, <1>6, SameSize
<1> QED BY <1>6, <1>7 DEF N

\* The provider an endpoint has in the table is that of the registry, as far
\* as the factory deployed it.
LEMMA EndpointsProvider ==
    ASSUME NEW b \in Int, Regular, NEW f \in Upto("ProviderDeployed", b),
           NEW e \in Upto("EndpointRegistered", b)
    PROVE  Ev(e).provider_id = Ev(RegistrationOf(f)).id
               <=> FirstId(Ev(e).provider) = Ev(RegistrationOf(f)).id
<1> DEFINE g == RegistrationOf(f)
           rows == {h \in Of({"ProviderRegistered"}) \ WithoutRow : Ev(h).owner = Ev(e).provider}
<1>1. f \in Of({"ProviderDeployed"}) /\ e \in Of({"EndpointRegistered"})
    BY DEF Upto
<1>2. g \in Of({"ProviderRegistered"}) \ WithoutRow /\ Ev(g).id \in Nat
    BY <1>1, Registrations, IdsOrdered
<1> HIDE DEF g
<1>3. CASE rows # {}
    <2>1. PICK h \in rows : TRUE
        BY <1>3
    <2>2. FirstId(Ev(e).provider) = Ev(e).provider_id
        BY <1>1, <2>1, EndpointsFirst
    <2> QED BY <2>2 DEF g
<1>4. CASE rows = {}
    <2>1. FirstId(Ev(e).provider) = NULL
        BY <1>4 DEF FirstId
    <2>2. PICK h \in Of({"ProviderRegistered"}) :
              Ev(h).id = Ev(e).provider_id /\ Ev(h).owner = Ev(e).provider
        BY <1>1, ContractsAssumption
    <2>3. Ev(e).provider_id # Ev(g).id
        <3> SUFFICES ASSUME Ev(e).provider_id = Ev(g).id PROVE FALSE
            OBVIOUS
        <3>1. h = g
            BY <1>2, <2>2, IdsOrdered
        <3> QED BY <1>2, <1>4, <2>2, <3>1
    <2>4. NULL # Ev(g).id
        BY <1>2, ContractsAssumption
    <2> QED BY <2>1, <2>3, <2>4 DEF g
<1> QED BY <1>3, <1>4

LEMMA EndpointsAtRest ==
    ASSUME NEW b \in Int, AtRest(b), Regular
    PROVE  /\ DOMAIN db.endpoints = {Ev(e).endpoint : e \in Upto("EndpointRegistered", b)}
           /\ \A f \in Upto("ProviderDeployed", b) :
                  LET pid == Ev(RegistrationOf(f)).id
                  IN  EndpointsUnder(db, pid) = ChainEndpoints(pid, b)
<1> DEFINE E == Upto("EndpointRegistered", b)
<1>1. Upon(b) \cap Of({"EndpointRegistered"}) = E
    BY UponUpto
<1> HIDE DEF E
<1>2. /\ DOMAIN db.endpoints = {Ev(e).endpoint : e \in E}
      /\ \A e \in E : db.endpoints[Ev(e).endpoint].provider_id = FirstId(Ev(e).provider)
    BY <1>1 DEF AtRest, Exact, ExactEndpoints
<1>3. ASSUME NEW f \in Upto("ProviderDeployed", b)
      PROVE  LET pid == Ev(RegistrationOf(f)).id
             IN  EndpointsUnder(db, pid) = ChainEndpoints(pid, b)
    <2> DEFINE pid == Ev(RegistrationOf(f)).id
    <2>1. \A e \in E : Ev(e).provider_id = pid <=> FirstId(Ev(e).provider) = pid
        BY EndpointsProvider DEF E
    <2> HIDE DEF pid
    <2>2. ChainEndpoints(pid, b) = {Ev(e).endpoint : e \in {x \in E : Ev(x).provider_id = pid}}
        BY DEF ChainEndpoints, E
    <2>3. EndpointsUnder(db, pid) = {ep \in DOMAIN db.endpoints : db.endpoints[ep].provider_id = pid}
        BY DEF EndpointsUnder
    <2>4. ASSUME NEW ep \in EndpointsUnder(db, pid) PROVE ep \in ChainEndpoints(pid, b)
        <3>1. PICK e \in E : ep = Ev(e).endpoint
            BY <1>2, <2>3
        <3> QED BY <1>2, <2>1, <2>2, <2>3, <3>1
    <2>5. ASSUME NEW e \in E, Ev(e).provider_id = pid
          PROVE  Ev(e).endpoint \in EndpointsUnder(db, pid)
        BY <1>2, <2>1, <2>3, <2>5
    <2> QED BY <2>2, <2>4, <2>5 DEF pid
<1> QED BY <1>2, <1>3 DEF E

LEMMA CountEndpoints ==
    ASSUME NEW b \in Int, AtRest(b), Regular
    PROVE  Cardinality(DOMAIN db.endpoints) = Cardinality(Upto("EndpointRegistered", b))
<1> DEFINE E == Upto("EndpointRegistered", b)
           f == [e \in E |-> Ev(e).endpoint]
<1>1. \A e \in E : e \in EventIds /\ e \in Of({"EndpointRegistered"})
    BY OfTypes DEF Upto
<1>2. \A x, y \in E : f[x] = f[y] => x = y
    BY <1>1, ContractsAssumption
<1>3. IsFiniteSet(E)
    BY <1>1, SomeEvents
<1>4. DOMAIN db.endpoints = {Ev(e).endpoint : e \in E}
    BY EndpointsAtRest
<1>5. f \in [E -> DOMAIN db.endpoints] /\ \A t \in DOMAIN db.endpoints : \E x \in E : f[x] = t
    BY <1>4
<1> HIDE DEF f, E
<1>6. Cardinality(DOMAIN db.endpoints) = Cardinality(E)
    BY <1>2, <1>3, <1>5, SameSize
<1> QED BY <1>6 DEF E

\* The revenue written with a provider's id is that of its share.
LEMMA RevenueAtRest ==
    ASSUME NEW b \in Int, AtRest(b), Regular, NEW f \in Upto("ProviderDeployed", b)
    PROVE  LET id == Ev(RegistrationOf(f)).id
               its == OfShare("Distributed", Ev(f).share) \cap Upto("Distributed", b)
           IN  /\ RevenueOf(db, id) = Coins(its)
               /\ its # {} => RevenueSummary(db).by_provider[id] = Coins(its)
<1> DEFINE id == Ev(RegistrationOf(f)).id
           its == OfShare("Distributed", Ev(f).share) \cap Upto("Distributed", b)
           all == Upto("Distributed", b)
           rows == RowsIn(db, Of({"Distributed"}))
<1>1. missed = {} /\ ExactNames(db, Upon(b), missed)
    BY DEF AtRest, Exact
<1>2. rows = all \X {1}
    <2>1. "Distributed" \in AppendedTypes /\ Of({"Distributed"}) \cap Received("Distributed", b) = all
        BY <1>1 DEF AppendedTypes, Received, Upto
    <2> QED BY <2>1, RowsAtRest
<1>3. f \in Of({"ProviderDeployed"})
    BY DEF Upto
<1>4. ASSUME NEW e \in all PROVE db.rows[e][1] = id <=> e \in its
    <2>1. /\ e \in EventIds /\ e \in Of({"Distributed"}) /\ Ev(e).type = "Distributed" /\ e[1] <= b
          /\ e[1] \in Nat
        BY OfTypes, EventPairs DEF Upto
    <2>2. e \in (Upon(b) \cap Of(PerProvider)) \ missed
        BY <1>1, <2>1, OfTypes DEF Upon, Noted, PerProvider
    <2>3. PICK g \in Of({"ProviderDeployed"}) : Ev(g).share = Ev(e).share /\ g[1] <= e[1]
        <3>1. e \in Of({"Distributed", "Claimed"})
            BY <2>1, OfTypes
        <3> QED BY <3>1, ContractsAssumption
    <2>4. db.rows[e][1] = Ev(RegistrationOf(g)).id
        BY <1>1, <2>2, <2>3 DEF ExactNames
    <2>5. Ev(RegistrationOf(g)).id = id => g = f
        <3>1. /\ RegistrationOf(f) \in Of({"ProviderRegistered"}) /\ Ev(RegistrationOf(f)).tx = Ev(f).tx
              /\ RegistrationOf(g) \in Of({"ProviderRegistered"}) /\ Ev(RegistrationOf(g)).tx = Ev(g).tx
            BY <1>3, Registrations
        <3>2. Ev(RegistrationOf(g)).id = id => RegistrationOf(g) = RegistrationOf(f)
            BY <3>1, IdsOrdered
        <3> QED BY <1>3, <3>1, <3>2, Registrations
    <2>6. e \in its <=> Ev(e).share = Ev(f).share
        BY <2>1 DEF OfShare
    <2>7. Ev(g).share = Ev(f).share => g = f
        BY <1>3, ContractsAssumption
    <2> QED BY <2>3, <2>4, <2>5, <2>6, <2>7
<1>5. its \subseteq all
    OBVIOUS
<1> HIDE DEF id, its, all, rows
<1>6. \A row \in rows : row = <<row[1], 1>> /\ row[1] \in all /\ row[2] = 1
    BY <1>2
<1>7. {row \in rows : db.rows[row[1]][row[2]] = id} = its \X {1}
    <2>1. ASSUME NEW row \in rows, db.rows[row[1]][row[2]] = id PROVE row \in its \X {1}
        BY <1>4, <1>6, <2>1
    <2>2. ASSUME NEW row \in its \X {1} PROVE row \in rows /\ db.rows[row[1]][row[2]] = id
        BY <1>2, <1>4, <1>5, <2>2
    <2> QED BY <2>1, <2>2
<1>8. \A pid : RevenueOf(db, pid) = SumOf({row \in rows : db.rows[row[1]][row[2]] = pid})
    BY DEF RevenueOf, rows
<1>9. RevenueOf(db, id) = Coins(its)
    BY <1>7, <1>8 DEF Coins
<1>10. ASSUME its # {} PROVE RevenueSummary(db).by_provider[id] = Coins(its)
    <2> DEFINE ids == {db.rows[row[1]][row[2]] : row \in rows}
    <2>1. id \in ids
        <3>1. PICK e \in its : TRUE
            BY <1>10
        <3>2. <<e, 1>> \in rows /\ db.rows[<<e, 1>>[1]][<<e, 1>>[2]] = id
            BY <1>7
        <3> QED BY <3>2
    <2>2. RevenueSummary(db).by_provider = [pid \in ids |-> RevenueOf(db, pid)]
        BY DEF RevenueSummary, rows
    <2> HIDE DEF ids
    <2> QED BY <1>9, <2>1, <2>2
<1> QED BY <1>9, <1>10 DEF id, its

\* The sums of the providers' view, with no payment passed over.
LEMMA SumsAtRest ==
    ASSUME NEW b, AtRest(b), Regular
    PROVE  /\ SumOver(db, Of({"Distributed"})) = Coins(Upto("Distributed", b))
           /\ \A s : SumOver(db, OfShare("Distributed", s)) =
                         Coins({e \in Upto("Distributed", b) : Ev(e).share = s})
           /\ \A a : CountOver(db, By("Slashed", a)) =
                         Cardinality({e \in Upto("Slashed", b) : Ev(e).provider = a})
<1>1. missed = {}
    BY DEF AtRest
<1>2. {"Distributed", "Slashed"} \subseteq AppendedTypes
    BY DEF AppendedTypes
<1>3. \A type : Received(type, b) = Upto(type, b)
    BY <1>1 DEF Received
<1>4. SumOver(db, Of({"Distributed"})) = Coins(Upto("Distributed", b))
    <2>1. Of({"Distributed"}) \cap Received("Distributed", b) = Upto("Distributed", b)
        BY <1>3 DEF Upto
    <2> QED BY <1>2, <2>1, RowsAtRest
<1>5. ASSUME NEW s
      PROVE  SumOver(db, OfShare("Distributed", s)) =
                 Coins({e \in Upto("Distributed", b) : Ev(e).share = s})
    <2>1. OfShare("Distributed", s) \cap Received("Distributed", b) =
              {e \in Upto("Distributed", b) : Ev(e).share = s}
        BY <1>3 DEF OfShare, Upto
    <2>2. OfShare("Distributed", s) \subseteq Of({"Distributed"})
        BY DEF OfShare
    <2> QED BY <1>2, <2>1, <2>2, RowsAtRest
<1>6. ASSUME NEW a
      PROVE  CountOver(db, By("Slashed", a)) =
                 Cardinality({e \in Upto("Slashed", b) : Ev(e).provider = a})
    <2>1. By("Slashed", a) \cap Received("Slashed", b) =
              {e \in Upto("Slashed", b) : Ev(e).provider = a}
        BY <1>3 DEF By, Upto
    <2>2. By("Slashed", a) \subseteq Of({"Slashed"})
        BY DEF By
    <2> QED BY <1>2, <2>1, <2>2, RowsAtRest
<1> QED BY <1>4, <1>5, <1>6

LEMMA OverviewAgrees ==
    ASSUME NEW b \in Int, AtRest(b), Regular, TotalsAgree(b), ChallengesAgree(b)
    PROVE  Overview(db) = ChainOverview(b)
<1>1. /\ Overview(db).total_staked = ChainOverview(b).total_staked
      /\ Overview(db).slashes = ChainOverview(b).slashes
      /\ Overview(db).challenges = ChainOverview(b).challenges
    BY DEF TotalsAgree, ChallengesAgree
<1>2. /\ Overview(db).providers = Len(db.providers)
      /\ Overview(db).endpoints = Cardinality(DOMAIN db.endpoints)
      /\ Overview(db).total_revenue = SumOver(db, Of({"Distributed"}))
      /\ Overview(db).last_indexed_block = LastBlock(db)
      /\ ChainOverview(b).providers = Cardinality(Deployments(b))
      /\ ChainOverview(b).endpoints = Cardinality(Upto("EndpointRegistered", b))
      /\ ChainOverview(b).total_revenue = Coins(Upto("Distributed", b))
      /\ ChainOverview(b).last_indexed_block = b
    BY DEF Overview, ChainOverview
<1>3. /\ Overview(db).providers = ChainOverview(b).providers
      /\ Overview(db).endpoints = ChainOverview(b).endpoints
      /\ Overview(db).total_revenue = ChainOverview(b).total_revenue
      /\ Overview(db).last_indexed_block = ChainOverview(b).last_indexed_block
    BY <1>2, CountProviders, CountEndpoints, SumsAtRest, LastBlockAtRest
<1> DEFINE Same(v) == v = [providers |-> v.providers, endpoints |-> v.endpoints,
                           total_staked |-> v.total_staked, total_revenue |-> v.total_revenue,
                           challenges |-> v.challenges, slashes |-> v.slashes,
                           last_indexed_block |-> v.last_indexed_block]
<1>4. Same(Overview(db)) /\ Same(ChainOverview(b))
    BY DEF Overview, ChainOverview
<1> QED BY <1>1, <1>3, <1>4

LEMMA ProvidersListed ==
    ASSUME NEW b \in Int, AtRest(b), Regular
    PROVE  ListProviders(db) = ChainProviders(b)
<1> DEFINE D == Upto("ProviderDeployed", b)
           Listed(i) ==
               LET row == db.providers[i]
               IN  [id |-> row.id, owner |-> row.owner, share |-> row.share,
                    endpoint_count |-> Cardinality(EndpointsUnder(db, row.id)),
                    total_revenue |-> SumOver(db, OfShare("Distributed", row.share)),
                    challenge_count |->
                        Cardinality(UNION {Against(db, ep) : ep \in EndpointsUnder(db, row.id)}),
                    slash_count |-> CountOver(db, By("Slashed", row.owner))]
           OnChain(f, g) ==
               LET id == Ev(g).id
                   share == Ev(f).share
               IN  [id |-> id, owner |-> Ev(g).owner, share |-> share,
                    endpoint_count |-> Cardinality(ChainEndpoints(id, b)),
                    total_revenue |-> Coins({e \in Upto("Distributed", b) : Ev(e).share = share}),
                    challenge_count |-> Cardinality(ChainChallenges(ChainEndpoints(id, b), b)),
                    slash_count |->
                        Cardinality({e \in Upto("Slashed", b) : Ev(e).provider = Ev(g).owner})]
<1>1. ListProviders(db) = {Listed(i) : i \in DOMAIN db.providers}
    BY DEF ListProviders
<1>2. ChainProviders(b) = {OnChain(de[1], de[2]) : de \in Deployments(b)}
    BY DEF ChainProviders
<1>3. ASSUME NEW i \in DOMAIN db.providers, NEW f \in D, IsRowOf(i, f)
      PROVE  Listed(i) = OnChain(f, RegistrationOf(f))
    <2> DEFINE row == db.providers[i]
               g == RegistrationOf(f)
    <2>1. row.id = Ev(g).id /\ row.owner = Ev(g).owner /\ row.share = Ev(f).share
        BY <1>3 DEF IsRowOf
    <2>0. EndpointsUnder(db, Ev(g).id) = ChainEndpoints(Ev(g).id, b)
        BY EndpointsAtRest
    <2> HIDE DEF row, g
    <2>2. Cardinality(EndpointsUnder(db, row.id)) = Cardinality(ChainEndpoints(Ev(g).id, b))
        BY <2>0, <2>1
    <2>3. SumOver(db, OfShare("Distributed", row.share)) =
              Coins({e \in Upto("Distributed", b) : Ev(e).share = Ev(f).share})
        BY <2>1, SumsAtRest
    <2>4. Cardinality(UNION {Against(db, ep) : ep \in EndpointsUnder(db, row.id)}) =
              Cardinality(ChainChallenges(ChainEndpoints(Ev(g).id, b), b))
        BY <2>0, <2>1, ChallengesAtRest
    <2>5. CountOver(db, By("Slashed", row.owner)) =
              Cardinality({e \in Upto("Slashed", b) : Ev(e).provider = Ev(g).owner})
        BY <2>1, SumsAtRest
    <2> QED BY <2>1, <2>2, <2>3, <2>4, <2>5 DEF row, g
<1> HIDE DEF Listed, OnChain
<1>4. ASSUME NEW i \in DOMAIN db.providers
      PROVE  Listed(i) \in {OnChain(de[1], de[2]) : de \in Deployments(b)}
    <2>1. PICK f \in D : IsRowOf(i, f)
        BY RowsOfDeployments
    <2>2. <<f, RegistrationOf(f)>> \in Deployments(b)
        BY Paired
    <2>3. Listed(i) = OnChain(<<f, RegistrationOf(f)>>[1], <<f, RegistrationOf(f)>>[2])
        BY <1>3, <2>1
    <2> QED BY <2>2, <2>3
<1>5. ASSUME NEW de \in Deployments(b)
      PROVE  OnChain(de[1], de[2]) \in {Listed(i) : i \in DOMAIN db.providers}
    <2>1. de[1] \in D /\ de[2] = RegistrationOf(de[1])
        BY Paired
    <2>2. PICK i \in DOMAIN db.providers : IsRowOf(i, de[1])
        BY <2>1, RowsOfDeployments
    <2>3. Listed(i) = OnChain(de[1], de[2])
        BY <1>3, <2>1, <2>2
    <2> QED BY <2>3
<1>6. {Listed(i) : i \in DOMAIN db.providers} = {OnChain(de[1], de[2]) : de \in Deployments(b)}
    BY <1>4, <1>5
<1> QED BY <1>1, <1>2, <1>6

LEMMA ProvidersAgreeAtRest ==
    ASSUME NEW b \in Int, AtRest(b), Regular, TotalsAgree(b), ChallengesAgree(b)
    PROVE  ProvidersAgree(b)
<1>1. ASSUME NEW de \in Deployments(b)
      PROVE  LET id == Ev(de[2]).id
                 its == OfShare("Distributed", Ev(de[1]).share) \cap Upto("Distributed", b)
             IN  /\ GetProvider(db, id) = [rows |-> {Ev(de[1]).share}, timeline |-> Coins(its),
                                           endpoints |-> ChainEndpoints(id, b)]
                 /\ RsDetail(db, Ev(de[1]).share).providers = {id}
                 /\ its # {} => RevenueSummary(db).by_provider[id] = Coins(its)
                 /\ \A ep \in ListEndpoints(db, id) :
                       ep.challenge_count = Cardinality(ChainChallenges({ep.endpoint}, b))
    <2> DEFINE f == de[1]
               id == Ev(de[2]).id
               share == Ev(f).share
               its == OfShare("Distributed", share) \cap Upto("Distributed", b)
    <2>1. f \in Upto("ProviderDeployed", b) /\ id = Ev(RegistrationOf(f)).id
        BY Paired
    <2>2. /\ RevenueOf(db, id) = Coins(its)
          /\ its # {} => RevenueSummary(db).by_provider[id] = Coins(its)
        BY <2>1, RevenueAtRest
    <2>3. PICK i \in DOMAIN db.providers : IsRowOf(i, f)
        BY <2>1, RowsOfDeployments
    <2>4. ASSUME NEW j \in DOMAIN db.providers,
                 db.providers[j].id = id \/ db.providers[j].share = share
          PROVE  j = i
        <3>1. PICK g \in Upto("ProviderDeployed", b) : IsRowOf(j, g)
            BY RowsOfDeployments
        <3>2. Ev(g).share = share \/ Ev(RegistrationOf(g)).id = Ev(RegistrationOf(f)).id
            BY <2>1, <2>4, <3>1 DEF IsRowOf
        <3>3. g = f
            BY <2>1, <3>1, <3>2, RowsOfDeployments
        <3> QED BY <2>1, <2>3, <3>1, <3>3, RowsOfDeployments
    <2>5. db.providers[i].id = id /\ db.providers[i].share = share
        BY <2>1, <2>3 DEF IsRowOf
    <2> HIDE DEF f, id, share, its
    <2>6. /\ {j \in DOMAIN db.providers : db.providers[j].id = id} = {i}
          /\ {j \in DOMAIN db.providers : db.providers[j].share = share} = {i}
        BY <2>4, <2>5
    <2>7. /\ {db.providers[j].share : j \in {i}} = {share}
          /\ {db.providers[j].id : j \in {i}} = {id}
        BY <2>5
    <2>8. GetProvider(db, id) = [rows |-> {share}, timeline |-> Coins(its),
                                 endpoints |-> ChainEndpoints(id, b)]
        <3>1. GetProvider(db, id) = [rows |-> {share}, endpoints |-> EndpointsUnder(db, id),
                                     timeline |-> RevenueOf(db, id)]
            BY <2>6, <2>7 DEF GetProvider
        <3>2. EndpointsUnder(db, id) = ChainEndpoints(id, b)
            BY <2>1, EndpointsAtRest
        <3> QED BY <2>2, <3>1, <3>2
    <2>9. RsDetail(db, share).providers = {id}
        BY <2>6, <2>7 DEF RsDetail
    <2>10. \A ep \in ListEndpoints(db, id) :
               ep.challenge_count = Cardinality(ChainChallenges({ep.endpoint}, b))
        <3> TAKE ep \in ListEndpoints(db, id)
        <3>1. ep.challenge_count = Cardinality(Against(db, ep.endpoint))
            BY DEF ListEndpoints
        <3> QED BY <3>1, ChallengesAtRest
    <2> QED BY <2>2, <2>8, <2>9, <2>10 DEF f, id, share, its
<1> QED BY <1>1, OverviewAgrees, ProvidersListed DEF ProvidersAgree

(***************************************************************************)
(* Whenever no sync runs, none has failed and no two ran at once, the API  *)
(* answers like the chain up to the saved cursor, however many syncs have  *)
(* filled the tables: sums and challenges for every history the contracts  *)
(* allow; providers, their endpoints and their shares of the revenue for   *)
(* the Regular ones, where the registry has each endpoint under the        *)
(* provider the indexer takes it for.                                      *)
(***************************************************************************)
THEOREM ViewsAgreeWithChain == IndexerSpec => []ViewsAgree
<1>1. IndexerInit => Control /\ DatabaseInv /\ Promise /\ CalmInv /\ Explained
    BY InitControl, InitDatabase, InitPromise, InitCalm, InitExplained
<1>2. Control /\ DatabaseInv /\ Promise /\ CalmInv /\ Explained /\ [IndexerNext]_indexerVars
          => (Control /\ DatabaseInv /\ Promise /\ CalmInv /\ Explained)'
    BY StepControl, StepDatabase, StepPromise, StepCalm, StepExplained
<1>3. Control /\ DatabaseInv /\ Promise /\ CalmInv /\ Explained => ViewsAgree
    <2> SUFFICES ASSUME Control, DatabaseInv, Promise, CalmInv, Explained, Settled
                 PROVE  /\ TotalsAgree(file.core) /\ ChallengesAgree(file.core)
                        /\ Regular => ProvidersAgree(file.core)
        BY DEF ViewsAgree
    <2>1. AtRest(file.core) /\ file.core \in Int /\ Calm
        BY SettledAtRest DEF Settled, Calm
    <2> QED BY <2>1, TotalsAtRest, ChallengesAgreeAtRest, ProvidersAgreeAtRest
<1> QED BY <1>1, <1>2, <1>3, PTL DEF IndexerSpec
=============================================================================
