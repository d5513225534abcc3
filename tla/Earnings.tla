------------------------------ MODULE Earnings ------------------------------
(***************************************************************************)
(* What a service has earned (internal/collectors, internal/exchange,      *)
(* payouts.go, the earnings and payouts tables, the summary of app.go): a  *)
(* collection asks the provider request by request and records a balance;  *)
(* the summary adds up what balances gained from day to day, and what was  *)
(* cashed out.  One service whose balance is in a token; a price of one.   *)
(***************************************************************************)
EXTENDS Integers, SequencesExt

CONSTANTS
  Attempts,   \* maxAttempts
  Retention,  \* days that readings are kept
  Window,     \* daysBack: days that the summary reads
  MaxDay,     \* bound: days that pass
  Scenarios   \* the service, and how often each thing may happen

VARIABLES
  acct,     \* the account at the provider: balance, all it ever earned, what of its cash-outs is not recorded, devices
  moves,    \* history: changes of the balance so far
  day,
  uuid,     \* the device id among the saved credentials
  plan,     \* the service's collector
  coll,     \* the collections under way, by what started them
  reg,      \* registerDevice after a deploy
  devs,     \* Registry.devices and App.addedDevices
  noted,    \* history: the newest id ever noted, and whether an older one was noted after it
  rows,     \* the earnings table, in the order of ids
  kept,     \* history: moves at the newest balance that was recorded
  crossed,  \* history: a balance was recorded after one that was read later, or one the answer did not state
  payouts,  \* the payouts table
  rates,    \* the cached rates: whether they price the token, and their age
  fetch,    \* the refreshes under way
  quota     \* what remains of the events allowed

account    == <<acct, moves, day>>
devices    == <<uuid, reg, devs, noted>>
table      == <<rows, kept, crossed>>
exchange   == <<rates, fetch>>
earnings   == <<account, devices, table, payouts, exchange, plan, coll, quota>>

Starters == {"cycle", "deploy", "hand"}
Fetchers == {"ticker", "summary"}
NoFetch  == [pc |-> "idle", known |-> FALSE]
Takes(k) == quota[k] > 0 /\ quota' = [quota EXCEPT ![k] = @ - 1]

----------------------------------------------------------------------------
(* The collectors: which requests they make, and whether one that fails is *)
(* the end of it or the next is made all the same.  A balance is "shown"   *)
(* when an answer without one is an error, and a "figure" when it is zero. *)

Must(r) == [req |-> r, fails |-> "error"]
May(r)  == [req |-> r, fails |-> "next"]

\* One request, with a token or a session cookie; the sum over all relays or none; what
\* the page shows.
collectAnyone         == <<Must("shown")>>
collectBytelixir      == <<May("shown"), Must("partial")>>
collectPacketStream   == <<Must("shown")>>
collectSalad          == <<Must("figure")>>
collectTraffmonetizer == <<Must("figure")>>
collectVast           == <<Must("figure")>>
\* A login first.
collectBitping        == <<Must("login"), Must("figure")>>
collectHoneygain      == <<Must("login"), Must("figure")>>
collectEarnFM         == <<Must("login"), Must("figure")>>
collectIPRoyal        == <<Must("login"), Must("figure")>>
collectRepocket       == <<Must("login"), Must("figure")>>
\* A second place to ask: when the first does not answer, or says zero.
collectStorj          == <<May("figure"), Must("figure")>>
collectGrass          == <<Must("figure"), Must("estimate")>>
\* The figure is the nodes' own where they are read; the breakdown never fails the whole.
collectMystPerNode    == May("detail")
collectMystNodes      == <<Must("login"), Must("figure"), collectMystPerNode>>
\* And whether the deployed device is on the account.
checkDevice           == <<May("note"), May("devices")>>
collectProxyRack      == <<Must("figure")>> \o checkDevice
collectEarnApp        == <<Must("login"), Must("figure")>> \o checkDevice

Collectors ==
  [anyone |-> collectAnyone, bytelixir |-> collectBytelixir, packetstream |-> collectPacketStream,
   salad |-> collectSalad, traffmonetizer |-> collectTraffmonetizer, vast |-> collectVast,
   bitping |-> collectBitping, honeygain |-> collectHoneygain, earnfm |-> collectEarnFM,
   iproyal |-> collectIPRoyal, repocket |-> collectRepocket, storj |-> collectStorj, grass |-> collectGrass,
   mysterium |-> collectMystNodes, proxyrack |-> collectProxyRack, earnapp |-> collectEarnApp]

Figures    == {"shown", "figure", "estimate"}
Asks(c, r) == coll[c].pc = "ask" /\ Head(coll[c].todo).req \in r
None       == -1
NoCollection       == [pc |-> "idle", todo |-> <<>>, tries |-> 0, id |-> 0, read |-> FALSE, bal |-> 0, earned |-> 0, at |-> 0]

\* A collection begins by reading the credentials; one cycle at a time.
BeginCollect(c) ==
  /\ c # "deploy" /\ coll[c].pc = "idle" /\ Takes("collect")
  /\ coll' = [coll EXCEPT ![c] = [NoCollection EXCEPT !.pc = "ask", !.todo = plan, !.id = uuid]]
  /\ UNCHANGED <<account, devices, table, payouts, exchange, plan>>

\* On to the next request, or to the recording of what was read.
Advance(r) == [r EXCEPT !.tries = 0, !.pc = IF r.todo = <<>> THEN "save" ELSE "ask"]
\* What is left to ask once a figure has been read: no other place to read it, unless it
\* was zero.
Rest(c, bal) ==
  SelectSeq(Tail(coll[c].todo), LAMBDA s : ~(s.req \in {"shown", "figure", "partial"} \/ (s.req = "estimate" /\ bal > 0)))
\* The collection with the balance b, which was read after n changes of it.
Holds(c, b, n) ==
  Advance([coll[c] EXCEPT !.todo = Rest(c, b), !.read = TRUE, !.bal = b, !.earned = acct.earned, !.at = n])
Answered(c) ==
  /\ coll[c].pc = "ask" /\ ~Asks(c, {"note", "devices"})
  /\ coll' = [coll EXCEPT ![c] = IF Asks(c, Figures) THEN Holds(c, acct.bal, moves) ELSE Advance([@ EXCEPT !.todo = Tail(@)])]
  /\ UNCHANGED <<account, devices, table, payouts, exchange, plan, quota>>
\* A 200 without the field, or with one that is no number; of Mysterium's nodes, the sum of
\* those that could be read.
AnsweredBlank(c) ==
  /\ Asks(c, {"figure", "estimate"}) /\ Takes("blank")
  /\ \E part \in {0} \cup {b \in 1 .. acct.bal - 1 : plan = collectMystNodes} :
       coll' = [coll EXCEPT ![c] = Holds(c, part, None)]
  /\ UNCHANGED <<account, devices, table, payouts, exchange, plan>>
\* The request has failed: refused, or for good.
Failed(r) ==
  IF Head(r.todo).fails = "next" THEN Advance([r EXCEPT !.todo = Tail(@)])
  ELSE [r EXCEPT !.pc = "save", !.read = FALSE, !.todo = <<>>]
Refused(c) ==
  /\ coll[c].pc = "ask" /\ ~Asks(c, {"note"}) /\ Takes("fail")
  /\ coll' = [coll EXCEPT ![c] = Failed(@)]
  /\ UNCHANGED <<account, devices, table, payouts, exchange, plan>>
\* doWithRetry: no answer, a 429 or a 5xx is tried again, so many times.
doWithRetry(c) ==
  /\ coll[c].pc = "ask" /\ ~Asks(c, {"note"}) /\ Takes("fail")
  /\ coll' = [coll EXCEPT ![c] = IF @.tries + 1 < Attempts THEN [@ EXCEPT !.tries = @ + 1] ELSE Failed(@)]
  /\ UNCHANGED <<account, devices, table, payouts, exchange, plan>>

\* A cycle ends with the purge.
AfterSave(c) == IF c = "cycle" THEN [NoCollection EXCEPT !.pc = "purge"] ELSE NoCollection
\* Collect: a row of what was read, or of the error.
SaveEarnings(c) ==
  LET r == coll[c] IN
  /\ r.pc = "save"
  /\ coll' = [coll EXCEPT ![c] = AfterSave(c)]
  /\ rows' = Append(rows, [day |-> day, ok |-> r.read, bal |-> IF r.read THEN r.bal ELSE 0, earned |-> r.earned])
  /\ kept' = IF r.read THEN r.at ELSE kept
  /\ crossed' = (crossed \/ (r.read /\ (r.at = None \/ r.at < kept)))
  /\ UNCHANGED <<account, devices, payouts, exchange, plan, quota>>
\* The row is not written; the app says so.
SaveFails(c) ==
  /\ coll[c].pc = "save" /\ Takes("fail")
  /\ coll' = [coll EXCEPT ![c] = AfterSave(c)]
  /\ UNCHANGED <<account, devices, table, payouts, exchange, plan>>

----------------------------------------------------------------------------
(* The devices of the account (devices.go, registerDevice).                *)

\* noteDevice: the answer about another device is dropped.
Note(id) ==
  /\ devs' = [devs EXCEPT !.current = id, !.unlinked = IF devs.current = id THEN @ ELSE 0]
  /\ noted' = [newest |-> IF id < noted.newest THEN noted.newest ELSE id, older |-> id < noted.newest]
\* recordDeviceCheck: only about the device that is current.
Judged(id, linked) == IF linked THEN 0 ELSE id
RecordAnyDevice(id, linked) == [devs EXCEPT !.unlinked = Judged(id, linked)]   \* mutant: whichever device it is about
recordDeviceCheck(id, linked) == [devs EXCEPT !.unlinked = IF devs.current = id THEN Judged(id, linked) ELSE @]

NoteDevice(c) ==
  /\ Asks(c, {"note"}) /\ Note(coll[c].id)
  /\ coll' = [coll EXCEPT ![c] = Advance([@ EXCEPT !.todo = Tail(@)])]
  /\ UNCHANGED <<account, uuid, reg, table, payouts, exchange, plan, quota>>
CheckDevice(c) ==
  /\ Asks(c, {"devices"})
  /\ devs' = recordDeviceCheck(coll[c].id, coll[c].id \in acct.linked)
  /\ coll' = [coll EXCEPT ![c] = Advance([@ EXCEPT !.todo = Tail(@)])]
  /\ UNCHANGED <<account, uuid, reg, noted, table, payouts, exchange, plan, quota>>

\* A deploy, with the device id it had or a new one; then RegisterDevice, for ProxyRack.
Redeploy(id) ==
  /\ reg.pc = "idle" /\ coll["deploy"].pc = "idle" /\ Takes("deploy")
  /\ uuid' = id
  /\ reg' = [pc |-> IF plan = collectProxyRack THEN "note" ELSE "collect", id |-> id]
  /\ UNCHANGED <<account, devs, noted, table, payouts, exchange, plan, coll>>
RegisterNotes ==
  /\ reg.pc = "note" /\ Note(reg.id) /\ reg' = [reg EXCEPT !.pc = "add"]
  /\ UNCHANGED <<account, uuid, table, payouts, exchange, plan, coll, quota>>
\* The device is added, or the add is refused and it turns out to be there already; anything
\* else leaves it to the user.
RegisterDevice ==
  /\ reg.pc = "add"
  /\ \E linked \in {TRUE, reg.id \in acct.linked, FALSE} :
       /\ acct' = [acct EXCEPT !.linked = IF linked THEN @ \cup {reg.id} ELSE @]
       /\ devs' = [(IF linked THEN recordDeviceCheck(reg.id, TRUE) ELSE devs) EXCEPT !.added = IF linked THEN reg.id ELSE 0]
  /\ reg' = [reg EXCEPT !.pc = "collect"]
  /\ UNCHANGED <<moves, day, uuid, noted, table, payouts, exchange, plan, coll, quota>>
\* The balance is fetched right after the deploy.
collectOne ==
  /\ reg.pc = "collect" /\ reg' = [reg EXCEPT !.pc = "idle"]
  /\ coll' = [coll EXCEPT !["deploy"] = [NoCollection EXCEPT !.pc = "ask", !.todo = plan, !.id = uuid]]
  /\ UNCHANGED <<account, uuid, devs, noted, table, payouts, exchange, plan, quota>>

----------------------------------------------------------------------------
(* The table and its summary.                                              *)

\* PurgeOldData, at the end of a cycle: old rows go, but for the newest of the service.
\* The rows are in the order of their days.
Recent(i)     == rows[i].day >= day - Retention
KeptRows      == {i \in DOMAIN rows : Recent(i) \/ i = Len(rows)}
PurgeOldData ==
  /\ coll["cycle"].pc = "purge"
  /\ coll' = [coll EXCEPT !["cycle"] = NoCollection]
  /\ rows' = SubSeq(rows, Min(KeptRows \cup {Len(rows) + 1}), Len(rows))
  /\ UNCHANGED <<account, devices, kept, crossed, payouts, exchange, plan, quota>>

\* ListDailyBalances: the good rows of the last days; the last of a day stands for it.
UpTo(d)  == SelectSeq(rows, LAMBDA r : r.ok /\ r.day \in day - Window .. d)
\* computeEarningsSummary: the balance carried forward, what a day gained, the total.
asOf(d)       == Last(UpTo(d)).bal
DeltaFromZero(from, to) ==                       \* mutant: a first balance counts as that day's earnings
  IF UpTo(to) = <<>> THEN 0
  ELSE Max({0, asOf(to) - (IF UpTo(from) = <<>> THEN 0 ELSE asOf(from))})
platformDelta(from, to) ==
  IF UpTo(from) = <<>> THEN 0 ELSE Max({0, asOf(to) - asOf(from)})
Daily         == [d \in 1..day |-> platformDelta(d - 1, d)]
Observed      == UpTo(day) # <<>>
Total         == IF Observed /\ rates.known THEN asOf(day) ELSE 0
TotalKnown    == rates.known \/ ~Observed
\* addLifetime: what was cashed out, where it has a price.
PaidOut       == FoldLeft(LAMBDA sum, p : IF p.priced THEN sum + p.amount ELSE sum, 0, payouts)
EarnedAllTime == Total + PaidOut

----------------------------------------------------------------------------
(* The ledger of cash-outs.                                                *)

\* recordPayout: a cash-out of today has today's price, if there is one; an older one none.
RecordPayout(amount, today) ==
  /\ Takes("record")
  /\ payouts' = Append(payouts, [amount |-> amount, priced |-> today /\ rates.known])
  /\ acct' = [acct EXCEPT !.owed = @ - amount]
  /\ UNCHANGED <<moves, day, devices, table, exchange, plan, coll>>
removePayout(i) ==
  /\ Takes("unrecord")
  /\ payouts' = RemoveAt(payouts, i)
  /\ acct' = [acct EXCEPT !.owed = @ + payouts[i].amount]
  /\ UNCHANGED <<moves, day, devices, table, exchange, plan, coll>>

----------------------------------------------------------------------------
(* Exchange rates (exchange.go).                                           *)

\* Refresh, from the ticker; EnsureFresh, from the summary, unless one of its own is under
\* way or the rates are fresh.
Refresh(f) ==
  /\ fetch[f].pc = "idle" /\ Takes("refresh")
  /\ f = "summary" => rates.old
  /\ fetch' = [fetch EXCEPT ![f].pc = "crypto"]
  /\ UNCHANGED <<account, devices, table, payouts, rates, plan, coll>>
\* The answer names the token's price, or leaves it out.
fetchCrypto(f) ==
  /\ fetch[f].pc = "crypto"
  /\ \E known \in BOOLEAN : fetch' = [fetch EXCEPT ![f] = [pc |-> "fiat", known |-> known]]
  /\ UNCHANGED <<account, devices, table, payouts, rates, plan, coll, quota>>
\* Both answers are there: the cache is replaced.
fetchFiat(f) ==
  /\ fetch[f].pc = "fiat"
  /\ rates' = [known |-> fetch[f].known, old |-> FALSE]
  /\ fetch' = [fetch EXCEPT ![f] = NoFetch]
  /\ UNCHANGED <<account, devices, table, payouts, plan, coll, quota>>
\* One of them fails: the cache stays as it was.
FetchFails(f) ==
  /\ fetch[f].pc # "idle" /\ Takes("fail")
  /\ fetch' = [fetch EXCEPT ![f] = NoFetch]
  /\ UNCHANGED <<account, devices, table, payouts, rates, plan, coll>>
RatesAge ==
  /\ ~rates.old /\ Takes("age") /\ rates' = [rates EXCEPT !.old = TRUE]
  /\ UNCHANGED <<account, devices, table, payouts, fetch, plan, coll>>

----------------------------------------------------------------------------
(* The provider, and the days.                                             *)

Earn ==
  /\ Takes("earn") /\ moves' = moves + 1
  /\ acct' = [acct EXCEPT !.bal = @ + 1, !.earned = @ + 1]
  /\ UNCHANGED <<day, devices, table, payouts, exchange, plan, coll>>
CashOut ==
  /\ Takes("cashout") /\ acct.bal > 0 /\ moves' = moves + 1
  /\ acct' = [acct EXCEPT !.bal = 0, !.owed = @ + acct.bal]
  /\ UNCHANGED <<day, devices, table, payouts, exchange, plan, coll>>
LinkDevice(id) ==
  /\ Takes("link")
  /\ acct' = [acct EXCEPT !.linked = IF id \in @ THEN @ \ {id} ELSE @ \cup {id}]
  /\ UNCHANGED <<moves, day, devices, table, payouts, exchange, plan, coll>>
DayPasses ==
  /\ day < MaxDay /\ Takes("day") /\ day' = day + 1
  /\ UNCHANGED <<acct, moves, devices, table, payouts, exchange, plan, coll>>

----------------------------------------------------------------------------
EarningsInit ==
  /\ acct = [bal |-> 1, earned |-> 1, owed |-> 0, linked |-> {}] /\ moves = 0 /\ day = 0
  /\ uuid = 1 /\ reg = [pc |-> "idle", id |-> 0]
  /\ devs = [current |-> 0, unlinked |-> 0, added |-> 0] /\ noted = [newest |-> 0, older |-> FALSE]
  /\ coll = [c \in Starters |-> NoCollection]
  /\ rows = <<>> /\ kept = None /\ crossed = FALSE
  /\ payouts = <<>>
  /\ \E known \in BOOLEAN : rates = [known |-> known, old |-> TRUE]   \* of the token; a price in USD is always known
  /\ fetch = [f \in Fetchers |-> NoFetch]
  /\ \E s \in Scenarios : plan = Collectors[s.service] /\ quota = s.quota

Collecting(c) ==
  \/ BeginCollect(c) \/ Answered(c) \/ AnsweredBlank(c) \/ Refused(c) \/ doWithRetry(c)
  \/ SaveEarnings(c) \/ SaveFails(c) \/ NoteDevice(c) \/ CheckDevice(c)
Registering == \/ \E id \in {uuid, uuid + 1} : Redeploy(id)
             \/ RegisterNotes \/ RegisterDevice \/ collectOne
Ledger    == \/ \E amount \in 1..2, today \in BOOLEAN : RecordPayout(amount, today)
             \/ \E i \in DOMAIN payouts : removePayout(i)
Fetching  == RatesAge \/ \E f \in Fetchers : Refresh(f) \/ fetchCrypto(f) \/ fetchFiat(f) \/ FetchFails(f)
Provider  == Earn \/ CashOut \/ DayPasses \/ \E id \in {1, uuid} : LinkDevice(id)
EarningsNext ==
  \/ \E c \in Starters : Collecting(c)
  \/ PurgeOldData \/ Registering \/ Ledger \/ Fetching \/ Provider

EarningsSpec == EarningsInit /\ [][EarningsNext]_earnings

----------------------------------------------------------------------------
\* The chart never shows more than was earned: over the days that the summary reads, gains add
\* up to at most what the account earned between the first and the last reading, through
\* cash-outs, failed readings, days without one and the purge (platformDelta).
NothingInvented ==
  ~crossed /\ Observed => SumFunction(Daily) <= Last(UpTo(day)).earned - Head(UpTo(day)).earned

\* Once the newest balance is read and every cash-out is recorded, and was recorded with a
\* price, the lifetime figure is what the account has earned (addLifetime, PurgeOldData), for
\* as long as that reading is not older than the days the summary reads.
LifetimeIsEarned ==
  kept = moves /\ Observed /\ TotalKnown /\ acct.owed = 0 /\ (\A i \in DOMAIN payouts : payouts[i].priced)
    => EarnedAllTime = acct.earned

\* What the app says was earned was earned, by day and over the lifetime (computeEarningsSummary,
\* addLifetime).
EarningsAreTrue == NothingInvented /\ LifetimeIsEarned

\* A device is reported as missing from the account only while it is the one deployed last
\* that anybody has asked about: the answer of a check that outlived a redeploy is dropped.
\* Unless that check was noted after the new device was: a collection reads the id it asks
\* about long before (BeginCollect, NoteDevice).
UnlinkedIsCurrent == devs.unlinked \in {0, noted.newest} \/ noted.older

\* False of the code (README): "an answer about an id that is no longer current (a check that
\* outlived a redeploy) is ignored".
OutlivedAnswersAreIgnored == devs.unlinked \in {0, noted.newest}
\* False of the code (README): "Total / Points from each platform's LATEST cumulative balance".
TotalIsOfLatest ==
  LET good == SelectSeq(rows, LAMBDA r : r.ok) IN good # <<>> /\ rates.known => Total = Last(good).bal
=============================================================================
