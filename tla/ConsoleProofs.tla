---------------------------- MODULE ConsoleProofs ----------------------------
(***************************************************************************)
(* What BotConsole and RiskConsole show, for any bots, limits, answers and *)
(* bounds.  Both rest on what the operations of QueryCache keep of an      *)
(* entry, which comes first.                                               *)
(***************************************************************************)
EXTENDS BotConsole, RiskConsole, TLAPS

(* An entry of the cache. *)

\* The operations on an entry keep its type, and only an answer changes its data.
LEMMA EntryKeeps ==
  ASSUME NEW D, NEW e \in EntryOf(D)
  PROVE  /\ Ask(e) \in EntryOf(D) /\ Ask(e).data = e.data /\ Ask(e).fetch = "asked"
         /\ Join(e) \in EntryOf(D) /\ Join(e).data = e.data /\ Join(e).joined
         /\ Observe(e) \in EntryOf(D) /\ Observe(e).data = e.data
         /\ Invalidate(e) \in EntryOf(D) /\ Invalidate(e).data = e.data
         /\ Fail(e) \in EntryOf(D) /\ Fail(e).data = e.data
         /\ Fail(e).failed /\ Fail(e).fetch = "idle"
         /\ Arrive(e) \in EntryOf(D) /\ Arrive(e).data = e.answer
         /\ Arrive(e).fetch = "idle" /\ Arrive(e).joined = e.joined
<1>1. Ask(e) \in EntryOf(D) /\ Ask(e).data = e.data /\ Ask(e).fetch = "asked"
  BY DEF Ask, EntryOf, FetchStep
<1>2. Join(e) \in EntryOf(D) /\ Join(e).data = e.data /\ Join(e).joined
  BY DEF Join, EntryOf
<1>3. /\ Fail(e) \in EntryOf(D) /\ Fail(e).data = e.data
      /\ Fail(e).failed /\ Fail(e).fetch = "idle"
  BY DEF Fail, EntryOf, FetchStep
<1>4. /\ Arrive(e) \in EntryOf(D) /\ Arrive(e).data = e.answer
      /\ Arrive(e).fetch = "idle" /\ Arrive(e).joined = e.joined
  BY DEF Arrive, EntryOf, FetchStep
<1> QED BY <1>1, <1>2, <1>3, <1>4 DEF Observe, Invalidate

\* An observer or an invalidation leaves the entry out, or on the way to, a newer answer.
LEMMA EntryAsked ==
  ASSUME NEW D, NEW e \in EntryOf(D)
  PROVE  /\ Observe(e).joined \/ Observe(e).fetch = "asked"
         /\ Invalidate(e).joined \/ Invalidate(e).fetch = "asked"
  BY EntryKeeps DEF Observe, Invalidate

LEMMA EntryReads ==
  ASSUME NEW D, NEW e \in EntryOf(D), NEW r \in D
  PROVE  /\ Read(e, r) \in EntryOf(D) /\ Read(e, r).data = e.data
         /\ Read(e, r).answer = r /\ Read(e, r).fetch = "read"
  BY DEF Read, EntryOf, FetchStep

LEMMA FreshEntry ==
  ASSUME NEW D
  PROVE  /\ Fresh \in EntryOf(D) /\ Fresh.data = NoData /\ Fresh.fetch = "idle"
         /\ Ask(Fresh) \in EntryOf(D) /\ Ask(Fresh).data = NoData
         /\ Ask(Fresh).fetch = "asked"
  BY DEF Fresh, Ask, EntryOf, FetchStep

-----------------------------------------------------------------------------
(* The bots. *)

\* The cache has an entry for each key.
CacheKeys == cache = [k \in Key |-> cache[k]]

\* Versions grow with the writes, and what the user was told is in the table.
Versions ==
  /\ \A b \in Bot : own[b] <= row[b].version /\ row[b].version <= writes
  /\ \A c \in Command : call[c].at = "done" =>
       call[c].bot \in Bot /\ call[c].version <= row[call[c].bot].version

\* A command under way was offered for the status seen.
OfferedCalls ==
  \A c \in Command : c # "create" /\ call[c].at = "sent" =>
    call[c].bot \in Bot /\ Permitted(c, call[c].seen)

\* What is read, or was answered, for an observed key is as new as what the user was told.
UpToDate(k) ==
  ~cache[k].joined =>
    \A b \in Covers(k) :
      /\ cache[k].fetch = "read" => cache[k].answer[b].version >= own[b]
      /\ Settled(cache[k]) => cache[k].data[b].version >= own[b]

ConsoleInv == /\ ConsoleTypeOK /\ CacheKeys /\ Versions /\ OfferedCalls
              /\ \A k \in Key : Observed(k) => UpToDate(k)

\* A button offers a command for a status only where the API permits it.
LEMMA OfferedIsPermitted ==
  ASSUME NEW c, NEW s, Offered(c, s)
  PROVE  Permitted(c, s)
  BY DEF Offered, Permitted

LEMMA KeyFacts == /\ "all" \in Key /\ Bot \subseteq Key /\ NoBot \notin Bot
                  /\ \A k \in Key : Covers(k) \subseteq Bot
                  /\ \A b \in Bot : b \in Key /\ b \in Covers(b)
                  /\ MaxWrites \in Nat
  BY ConsoleAssumption DEF Key, Covers, ConsoleAssumption

LEMMA TargetIsStatus == \A c : Target(c) \in BotStatus
  BY DEF Target, BotStatus

\* A write gives one bot a new row, of a version above all others.
LEMMA WriteTypes ==
  ASSUME ConsoleTypeOK, NEW b \in Bot, NEW s \in BotStatus, Write(b, s)
  PROVE  /\ row' \in [Bot -> Row] /\ writes' \in Version /\ writes' = writes + 1
         /\ row'[b] = [status |-> s, version |-> writes']
         /\ \A d \in Bot : d # b => row'[d] = row[d]
<1>1. writes' = writes + 1 /\ writes' \in Version
  BY KeyFacts DEF Write, Version, ConsoleTypeOK
<1>2. [status |-> s, version |-> writes'] \in Row
  BY <1>1 DEF Row
<1>3. row' = [row EXCEPT ![b] = [status |-> s, version |-> writes']] /\ row \in [Bot -> Row]
  BY DEF Write, ConsoleTypeOK
<1> HIDE DEF Row
<1> QED BY <1>1, <1>2, <1>3

LEMMA VersionNats ==
  ASSUME ConsoleTypeOK
  PROVE  Version \subseteq Nat /\ \A b \in Bot : row[b].version \in Nat /\ own[b] \in Nat
<1>1. \A b \in Bot : row[b] \in Row /\ own[b] \in Version
  BY DEF ConsoleTypeOK
<1>2. Version \subseteq Nat
  BY KeyFacts DEF Version
<1> QED BY <1>1, <1>2 DEF Row

LEMMA WriteVersions ==
  ASSUME ConsoleTypeOK, Versions, NEW b \in Bot, NEW s \in BotStatus, Write(b, s)
  PROVE  /\ \A d \in Bot : own[d] <= row'[d].version /\ row'[d].version <= writes'
         /\ \A d \in Bot : row[d].version <= row'[d].version
<1>0. /\ writes' = writes + 1 /\ row'[b] = [status |-> s, version |-> writes']
      /\ \A d \in Bot : d # b => row'[d] = row[d]
  BY WriteTypes
<1>1. \A d \in Bot : /\ row[d].version \in Nat /\ own[d] \in Nat
                     /\ own[d] <= row[d].version /\ row[d].version <= writes
  BY VersionNats DEF Versions
<1>2. writes \in Nat /\ writes' = writes + 1
  BY <1>0, KeyFacts DEF ConsoleTypeOK, Version
<1>3. \A d \in Bot : row'[d].version = IF d = b THEN writes' ELSE row[d].version
  BY <1>0
<1> QED BY <1>1, <1>2, <1>3

\* A call with a new record of its own.
LEMMA CallTypes ==
  ASSUME ConsoleTypeOK, NEW c \in Command, NEW a \in {"none", "sent", "done", "refused"},
         NEW b \in Bot \cup {NoBot}, NEW s \in BotStatus \cup {"none"}, NEW v \in Version,
         call' = [call EXCEPT ![c] = [at |-> a, bot |-> b, seen |-> s, version |-> v]]
  PROVE  /\ call' \in [Command -> [at : {"none", "sent", "done", "refused"}, bot : Bot \cup {NoBot},
                                   seen : BotStatus \cup {"none"}, version : Version]]
         /\ call'[c] = [at |-> a, bot |-> b, seen |-> s, version |-> v]
         /\ \A d \in Command : d # c => call'[d] = call[d]
<1>1. call \in [Command -> [at : {"none", "sent", "done", "refused"}, bot : Bot \cup {NoBot},
                            seen : BotStatus \cup {"none"}, version : Version]]
  BY DEF ConsoleTypeOK
<1>2. [at |-> a, bot |-> b, seen |-> s, version |-> v]
        \in [at : {"none", "sent", "done", "refused"}, bot : Bot \cup {NoBot},
             seen : BotStatus \cup {"none"}, version : Version]
  OBVIOUS
<1> QED BY <1>1, <1>2

LEMMA ConsoleInitInv == ConsoleInit => ConsoleInv
<1> SUFFICES ASSUME ConsoleInit PROVE ConsoleInv
  OBVIOUS
<1>1. PICK s \in FirstStatus :
        row = [b \in Bot |-> [status |-> IF b \in First THEN s ELSE "none", version |-> 0]]
  BY DEF ConsoleInit
<1>2. s \in BotStatus /\ 0 \in Version
  BY ConsoleAssumption DEF ConsoleAssumption, Version
<1>3. row \in [Bot -> Row]
  BY <1>1, <1>2 DEF Row
<1>4. \A k \in Key : /\ cache[k] \in EntryOf([Covers(k) -> Row])
                     /\ cache[k].fetch # "read" /\ ~Settled(cache[k])
  BY FreshEntry DEF ConsoleInit, Settled
<1>5. ConsoleTypeOK
  BY <1>2, <1>3, <1>4 DEF ConsoleInit, ConsoleTypeOK, NoCall
<1>6. CacheKeys
  BY DEF ConsoleInit, CacheKeys
<1>7. Versions /\ OfferedCalls
  BY <1>1, <1>2 DEF ConsoleInit, Versions, OfferedCalls, NoCall, Version
<1>8. \A k \in Key : UpToDate(k)
  BY <1>4 DEF UpToDate
<1> QED BY <1>5, <1>6, <1>7, <1>8 DEF ConsoleInv

\* A step that leaves rows and calls alone.
LEMMA QueryStep ==
  ASSUME ConsoleInv, CacheKeys', UNCHANGED <<row, writes, call, own>>,
         selected' \in Bot \cup {NoBot},
         \A k \in Key : cache'[k] \in EntryOf([Covers(k) -> Row]),
         \A k \in Key : Observed(k)' => UpToDate(k)'
  PROVE  ConsoleInv'
  BY DEF ConsoleInv, ConsoleTypeOK, Versions, OfferedCalls

\* A step on the entry of one key.
LEMMA EntryStep ==
  ASSUME ConsoleInv, NEW k \in Key, NEW e \in EntryOf([Covers(k) -> Row]),
         cache' = [cache EXCEPT ![k] = e]
  PROVE  /\ CacheKeys' /\ cache'[k] = e
         /\ \A j \in Key : /\ j # k => cache'[j] = cache[j]
                           /\ cache'[j] \in EntryOf([Covers(j) -> Row])
<1>1. DOMAIN cache = Key /\ \A j \in Key : cache[j] \in EntryOf([Covers(j) -> Row])
  BY DEF ConsoleInv, CacheKeys, ConsoleTypeOK
<1> QED BY <1>1 DEF CacheKeys

\* What is said of a key stays when its entry does.
LEMMA UpToDateStays ==
  ASSUME NEW k \in Key, UpToDate(k), cache'[k] = cache[k], own' = own
  PROVE  UpToDate(k)'
  BY DEF UpToDate, Settled

LEMMA ReadRowsStep ==
  ASSUME ConsoleInv, NEW k \in Key, ReadRows(k)
  PROVE  ConsoleInv'
<1> DEFINE r == [b \in Covers(k) |-> row[b]]
           e == Read(cache[k], r)
<1>1. cache' = [cache EXCEPT ![k] = e] /\ UNCHANGED <<row, writes, selected, call, own>>
  BY DEF ReadRows
<1>2. r \in [Covers(k) -> Row] /\ \A b \in Covers(k) : r[b] = row[b] /\ own[b] <= row[b].version
  BY KeyFacts DEF ConsoleInv, ConsoleTypeOK, Versions
<1>3. cache[k] \in EntryOf([Covers(k) -> Row])
  BY DEF ConsoleInv, ConsoleTypeOK
<1> HIDE DEF r
<1>4. e \in EntryOf([Covers(k) -> Row]) /\ e.answer = r /\ e.fetch = "read"
  BY <1>2, <1>3, EntryReads
<1> HIDE DEF e
<1>5. /\ CacheKeys' /\ cache'[k] = e
      /\ \A j \in Key : /\ j # k => cache'[j] = cache[j]
                        /\ cache'[j] \in EntryOf([Covers(j) -> Row])
  BY <1>1, <1>4, EntryStep
<1>6. \A b \in Covers(k) : r[b].version >= own[b]
  <2>1. \A b \in Covers(k) : own[b] \in Nat /\ row[b].version \in Nat
    BY KeyFacts, VersionNats DEF ConsoleInv
  <2> QED BY <1>2, <2>1
<1>7. UpToDate(k)'
  BY <1>1, <1>4, <1>5, <1>6 DEF UpToDate, Settled
<1>8. \A j \in Key : Observed(j)' => UpToDate(j)'
  BY <1>1, <1>5, <1>7, UpToDateStays DEF ConsoleInv, Observed
<1> QED BY <1>1, <1>5, <1>8, QueryStep DEF ConsoleInv, ConsoleTypeOK

LEMMA AnswerStep ==
  ASSUME ConsoleInv, NEW k \in Key, AnswerArrives(k) \/ FetchFails(k)
  PROVE  ConsoleInv'
<1>0. cache[k] \in EntryOf([Covers(k) -> Row]) /\ UNCHANGED <<row, writes, selected, call, own>>
  BY DEF ConsoleInv, ConsoleTypeOK, AnswerArrives, FetchFails
<1>1. ASSUME NEW e \in EntryOf([Covers(k) -> Row]), cache' = [cache EXCEPT ![k] = e],
             UpToDate(k) /\ ~e.joined =>
               \A b \in Covers(k) : /\ e.fetch = "read" => e.answer[b].version >= own[b]
                                    /\ Settled(e) => e.data[b].version >= own[b]
      PROVE  ConsoleInv'
  <2>1. /\ CacheKeys' /\ cache'[k] = e
        /\ \A j \in Key : /\ j # k => cache'[j] = cache[j]
                          /\ cache'[j] \in EntryOf([Covers(j) -> Row])
    BY <1>1, EntryStep
  <2>2. UpToDate(k) => UpToDate(k)'
    BY <1>0, <1>1, <2>1 DEF UpToDate, Settled
  <2>3. \A j \in Key : Observed(j)' => UpToDate(j)'
    BY <1>0, <2>1, <2>2, UpToDateStays DEF ConsoleInv, Observed
  <2> QED BY <1>0, <2>1, <2>3, QueryStep DEF ConsoleInv, ConsoleTypeOK
<1>2. CASE AnswerArrives(k)
  <2> DEFINE e == Arrive(cache[k])
  <2>1. /\ e \in EntryOf([Covers(k) -> Row]) /\ e.data = cache[k].answer
        /\ e.fetch = "idle" /\ e.joined = cache[k].joined
    BY <1>0, EntryKeeps
  <2>2. cache' = [cache EXCEPT ![k] = e] /\ cache[k].fetch = "read"
    BY <1>2 DEF AnswerArrives
  <2> HIDE DEF e
  <2> QED BY <1>1, <2>1, <2>2 DEF UpToDate
<1>3. CASE FetchFails(k)
  <2> DEFINE e == Fail(cache[k])
  <2>1. e \in EntryOf([Covers(k) -> Row]) /\ e.failed /\ e.fetch = "idle"
    BY <1>0, EntryKeeps
  <2>2. cache' = [cache EXCEPT ![k] = e]
    BY <1>3 DEF FetchFails
  <2> HIDE DEF e
  <2> QED BY <1>1, <2>1, <2>2 DEF Settled
<1> QED BY <1>2, <1>3

LEMMA SelectStep ==
  ASSUME ConsoleInv, NEW b \in Bot, Select(b)
  PROVE  ConsoleInv'
<1> DEFINE e == Observe(cache[b])
<1>0. /\ cache[b] \in EntryOf([Covers(b) -> Row]) /\ UNCHANGED <<row, writes, call, own>>
      /\ cache' = [cache EXCEPT ![b] = e] /\ selected' = b
  BY KeyFacts DEF ConsoleInv, ConsoleTypeOK, Select
<1>1. e \in EntryOf([Covers(b) -> Row]) /\ (e.joined \/ e.fetch = "asked")
  BY <1>0, EntryKeeps, EntryAsked
<1> HIDE DEF e
<1>2. /\ CacheKeys' /\ cache'[b] = e
      /\ \A j \in Key : /\ j # b => cache'[j] = cache[j]
                        /\ cache'[j] \in EntryOf([Covers(j) -> Row])
  BY <1>0, <1>1, EntryStep, KeyFacts
<1>3. UpToDate(b)'
  BY <1>1, <1>2 DEF UpToDate, Settled
<1>4. \A j \in Key : Observed(j)' => UpToDate(j)'
  BY <1>0, <1>2, <1>3, UpToDateStays DEF ConsoleInv, Observed
<1> QED BY <1>0, <1>2, <1>4, QueryStep

\* A step that leaves the cache and what the user was told alone.
LEMMA CallStep ==
  ASSUME ConsoleInv, UNCHANGED <<cache, selected, own>>, row' \in [Bot -> Row], writes' \in Version,
         call' \in [Command -> [at : {"none", "sent", "done", "refused"}, bot : Bot \cup {NoBot},
                                seen : BotStatus \cup {"none"}, version : Version]],
         Versions', OfferedCalls'
  PROVE  ConsoleInv'
<1>1. \A k \in Key : Observed(k)' => UpToDate(k)'
  BY UpToDateStays DEF ConsoleInv, Observed
<1> QED BY <1>1 DEF ConsoleInv, ConsoleTypeOK, CacheKeys

LEMMA ClickStep ==
  ASSUME ConsoleInv, NEW c \in Command, Click(c)
  PROVE  ConsoleInv'
<1>1. /\ UNCHANGED <<row, writes, cache, selected, own>>
      /\ call' = [call EXCEPT ![c] = [at |-> "sent", bot |-> selected, seen |-> ShownStatus,
                                      version |-> 0]]
      /\ ShownStatus # "none" /\ Offered(c, ShownStatus)
  BY DEF Click
<1>2. selected \in Bot /\ cache[selected].data # NoData
  BY <1>1 DEF ShownStatus, ConsoleInv, ConsoleTypeOK
<1>3. ShownStatus \in BotStatus \cup {"none"}
  <2>1. cache[selected] \in EntryOf([Covers(selected) -> Row])
    BY <1>2, KeyFacts DEF ConsoleInv, ConsoleTypeOK
  <2>2. cache[selected].data \in [Covers(selected) -> Row]
    BY <1>2, <2>1 DEF EntryOf
  <2>3. cache[selected].data[selected] \in Row
    BY <1>2, <2>2, KeyFacts
  <2> QED BY <1>1, <1>2, <2>3 DEF ShownStatus, Row
<1>4. 0 \in Version
  BY KeyFacts DEF Version
<1> HIDE DEF ShownStatus
<1>5. /\ call' \in [Command -> [at : {"none", "sent", "done", "refused"}, bot : Bot \cup {NoBot},
                                seen : BotStatus \cup {"none"}, version : Version]]
      /\ call'[c] = [at |-> "sent", bot |-> selected, seen |-> ShownStatus, version |-> 0]
      /\ \A d \in Command : d # c => call'[d] = call[d]
  BY <1>1, <1>2, <1>3, <1>4, CallTypes DEF ConsoleInv
<1>6. Versions'
  BY <1>1, <1>5 DEF ConsoleInv, Versions
<1>7. OfferedCalls'
  BY <1>1, <1>2, <1>5, OfferedIsPermitted DEF ConsoleInv, OfferedCalls
<1> QED BY <1>1, <1>5, <1>6, <1>7, CallStep DEF ConsoleInv, ConsoleTypeOK

LEMMA SubmitStep ==
  ASSUME ConsoleInv, SubmitForm
  PROVE  ConsoleInv'
<1>0. "create" \in Command
  BY DEF Command
<1>1. /\ UNCHANGED <<row, writes, cache, selected, own>>
      /\ call' = [call EXCEPT !["create"] = [call["create"] EXCEPT !.at = "sent"]]
  BY DEF SubmitForm
<1>2. /\ call' \in [Command -> [at : {"none", "sent", "done", "refused"}, bot : Bot \cup {NoBot},
                                seen : BotStatus \cup {"none"}, version : Version]]
      /\ call'["create"].at = "sent"
      /\ \A d \in Command : d # "create" => call'[d] = call[d]
  BY <1>0, <1>1 DEF ConsoleInv, ConsoleTypeOK
<1> QED BY <1>1, <1>2, CallStep DEF ConsoleInv, ConsoleTypeOK, Versions, OfferedCalls

LEMMA HandleCommandStep ==
  ASSUME ConsoleInv, NEW c \in Command, HandleCommand(c)
  PROVE  ConsoleInv'
<1> DEFINE b == call[c].bot
<1>0. /\ UNCHANGED <<cache, selected, own>> /\ c # "create" /\ call[c].at = "sent"
      /\ call \in [Command -> [at : {"none", "sent", "done", "refused"}, bot : Bot \cup {NoBot},
                               seen : BotStatus \cup {"none"}, version : Version]]
      /\ ConsoleTypeOK /\ Versions /\ OfferedCalls /\ b \in Bot
  BY DEF HandleCommand, ConsoleInv, ConsoleTypeOK, OfferedCalls
<1>1. CASE /\ Write(b, Target(c))
           /\ call' = [call EXCEPT ![c].at = "done", ![c].version = writes']
  <2>0. /\ row' \in [Bot -> Row] /\ writes' \in Version
        /\ row'[b] = [status |-> Target(c), version |-> writes']
    <3> HIDE DEF b
    <3> QED BY <1>0, <1>1, WriteTypes, TargetIsStatus
  <2>1. /\ row' \in [Bot -> Row] /\ writes' \in Version /\ row'[b].version = writes'
    BY <2>0
  <2>2. /\ \A d \in Bot : own[d] <= row'[d].version /\ row'[d].version <= writes'
        /\ \A d \in Bot : row[d].version <= row'[d].version
        /\ \A d \in Bot : row[d].version \in Nat /\ row'[d].version \in Nat
    <3>1. \A d \in Bot : row'[d] \in Row
      BY <2>1
    <3>2. \A d \in Bot : row'[d].version \in Nat
      BY <1>0, <3>1, VersionNats DEF Row
    <3> QED BY <1>0, <1>1, <3>2, WriteVersions, VersionNats, TargetIsStatus
  <2>3. /\ call' \in [Command -> [at : {"none", "sent", "done", "refused"}, bot : Bot \cup {NoBot},
                                  seen : BotStatus \cup {"none"}, version : Version]]
        /\ call'[c].at = "done" /\ call'[c].bot = b /\ call'[c].version = writes'
        /\ \A d \in Command : d # c => call'[d] = call[d]
    <3> DEFINE new == [call[c] EXCEPT !.at = "done", !.version = writes']
    <3>1. /\ new \in [at : {"none", "sent", "done", "refused"}, bot : Bot \cup {NoBot},
                      seen : BotStatus \cup {"none"}, version : Version]
          /\ new.at = "done" /\ new.bot = b /\ new.version = writes'
      BY <1>0, <2>1
    <3>2. call' = [call EXCEPT ![c] = new]
      BY <1>0, <1>1
    <3> HIDE DEF new, b
    <3> QED BY <1>0, <3>1, <3>2
  <2>4. \A d \in Command : call[d].version \in Nat /\ writes' \in Nat
    BY <1>0, <2>1, VersionNats
  <2> HIDE DEF b
  <2>5. Versions'
    BY <1>0, <2>1, <2>2, <2>3, <2>4 DEF Versions
  <2>6. OfferedCalls'
    BY <1>0, <2>3 DEF OfferedCalls
  <2> QED BY <1>0, <2>1, <2>3, <2>5, <2>6, CallStep
<1>2. CASE call' = [call EXCEPT ![c].at = "refused"] /\ UNCHANGED <<row, writes>>
  <2>1. /\ call' \in [Command -> [at : {"none", "sent", "done", "refused"}, bot : Bot \cup {NoBot},
                                  seen : BotStatus \cup {"none"}, version : Version]]
        /\ call'[c].at = "refused"
        /\ \A d \in Command : d # c => call'[d] = call[d]
    BY <1>0, <1>2
  <2>2. Versions' /\ OfferedCalls'
    BY <1>0, <1>2, <2>1 DEF Versions, OfferedCalls
  <2> QED BY <1>0, <1>2, <2>1, <2>2, CallStep DEF ConsoleTypeOK
<1> QED BY <1>1, <1>2 DEF HandleCommand

LEMMA HandleCreateStep ==
  ASSUME ConsoleInv, NEW b \in Bot, HandleCreate(b)
  PROVE  ConsoleInv'
<1>0. /\ UNCHANGED <<cache, selected, own>> /\ "create" \in Command /\ "draft" \in BotStatus
      /\ call \in [Command -> [at : {"none", "sent", "done", "refused"}, bot : Bot \cup {NoBot},
                               seen : BotStatus \cup {"none"}, version : Version]]
      /\ ConsoleTypeOK /\ Versions /\ OfferedCalls
      /\ Write(b, "draft")
      /\ call' = [call EXCEPT !["create"] =
                    [call["create"] EXCEPT !.at = "done", !.bot = b, !.version = writes']]
  BY DEF HandleCreate, ConsoleInv, ConsoleTypeOK, Command, BotStatus
<1>1. /\ row' \in [Bot -> Row] /\ writes' \in Version /\ row'[b].version = writes'
  <2>1. /\ row' \in [Bot -> Row] /\ writes' \in Version
        /\ row'[b] = [status |-> "draft", version |-> writes']
    BY <1>0, WriteTypes
  <2> QED BY <2>1
<1>2. /\ \A d \in Bot : own[d] <= row'[d].version /\ row'[d].version <= writes'
      /\ \A d \in Bot : row[d].version <= row'[d].version
      /\ \A d \in Bot : row[d].version \in Nat /\ row'[d].version \in Nat
  <2>1. \A d \in Bot : row'[d] \in Row
    BY <1>1
  <2>2. \A d \in Bot : row'[d].version \in Nat
    BY <1>0, <2>1, VersionNats DEF Row
  <2> QED BY <1>0, <2>2, WriteVersions, VersionNats
<1>3. /\ call' \in [Command -> [at : {"none", "sent", "done", "refused"}, bot : Bot \cup {NoBot},
                                seen : BotStatus \cup {"none"}, version : Version]]
      /\ call'["create"].at = "done" /\ call'["create"].bot = b /\ call'["create"].version = writes'
      /\ \A d \in Command : d # "create" => call'[d] = call[d]
  <2> DEFINE new == [call["create"] EXCEPT !.at = "done", !.bot = b, !.version = writes']
  <2>1. /\ new \in [at : {"none", "sent", "done", "refused"}, bot : Bot \cup {NoBot},
                    seen : BotStatus \cup {"none"}, version : Version]
        /\ new.at = "done" /\ new.bot = b /\ new.version = writes'
    BY <1>0, <1>1
  <2>2. call' = [call EXCEPT !["create"] = new]
    BY <1>0
  <2> HIDE DEF new
  <2> QED BY <1>0, <2>1, <2>2
<1>4. \A d \in Command : call[d].version \in Nat /\ writes' \in Nat
  BY <1>0, <1>1, VersionNats
<1>5. Versions'
  BY <1>0, <1>1, <1>2, <1>3, <1>4 DEF Versions
<1>6. OfferedCalls'
  BY <1>0, <1>3 DEF OfferedCalls
<1> QED BY <1>0, <1>1, <1>3, <1>5, <1>6, CallStep

LEMMA ErrorStep ==
  ASSUME ConsoleInv, NEW c \in Command, Error(c)
  PROVE  ConsoleInv'
<1>1. UNCHANGED <<row, writes, cache, selected, own>> /\ call' = [call EXCEPT ![c] = NoCall]
  BY DEF Error
<1>2. 0 \in Version
  BY KeyFacts DEF Version
<1>3. /\ call' \in [Command -> [at : {"none", "sent", "done", "refused"}, bot : Bot \cup {NoBot},
                                seen : BotStatus \cup {"none"}, version : Version]]
      /\ call'[c].at = "none" /\ \A d \in Command : d # c => call'[d] = call[d]
  BY <1>1, <1>2, CallTypes DEF ConsoleInv, NoCall
<1>4. Versions' /\ OfferedCalls'
  BY <1>1, <1>3 DEF ConsoleInv, Versions, OfferedCalls
<1> QED BY <1>1, <1>3, <1>4, CallStep DEF ConsoleInv, ConsoleTypeOK

\* The user is told: every observed key is asked for again, or joins a fetch.
LEMMA SucceedStep ==
  ASSUME ConsoleInv, NEW c \in Command, Succeed(c)
  PROVE  ConsoleInv'
<1> DEFINE b == call[c].bot
           v == call[c].version
<1>0. /\ UNCHANGED <<row, writes, selected>> /\ call' = [call EXCEPT ![c] = NoCall]
      /\ own' = [own EXCEPT ![b] = IF own[b] < v THEN v ELSE own[b]]
      /\ cache' = [k \in Key |-> IF Observed(k) /\ k \in Invalidated(c, b)
                                   THEN Invalidate(cache[k]) ELSE cache[k]]
      /\ call[c].at = "done"
  BY DEF Succeed
<1>1. /\ b \in Bot /\ v <= row[b].version /\ v \in Version
      /\ ConsoleTypeOK /\ Versions /\ OfferedCalls
  BY <1>0 DEF ConsoleInv, Versions, ConsoleTypeOK
<1>2. 0 \in Version
  BY KeyFacts DEF Version
<1>3. /\ call' \in [Command -> [at : {"none", "sent", "done", "refused"}, bot : Bot \cup {NoBot},
                                seen : BotStatus \cup {"none"}, version : Version]]
      /\ call'[c].at = "none" /\ \A d \in Command : d # c => call'[d] = call[d]
  BY <1>0, <1>2, CallTypes DEF ConsoleInv, NoCall
<1> HIDE DEF b, v
<1>4. own' \in [Bot -> Version] /\ \A d \in Bot : own'[d] <= row[d].version
  BY <1>0, <1>1 DEF ConsoleTypeOK, Versions
<1>5. ASSUME NEW k \in Key
      PROVE  /\ cache'[k] \in EntryOf([Covers(k) -> Row])
             /\ Observed(k) => cache'[k].joined \/ cache'[k].fetch = "asked"
  <2>1. cache[k] \in EntryOf([Covers(k) -> Row])
    BY <1>1 DEF ConsoleTypeOK
  <2>2. cache'[k] = IF Observed(k) THEN Invalidate(cache[k]) ELSE cache[k]
    BY <1>0 DEF Invalidated
  <2> QED BY <2>1, <2>2, EntryKeeps, EntryAsked
<1>6. \A k \in Key : Observed(k)' => UpToDate(k)'
  BY <1>0, <1>5 DEF Observed, UpToDate, Settled
<1>7. CacheKeys'
  BY <1>0 DEF CacheKeys
<1>8. Versions' /\ OfferedCalls'
  BY <1>0, <1>1, <1>3, <1>4 DEF Versions, OfferedCalls
<1>9. ConsoleTypeOK'
  BY <1>0, <1>1, <1>3, <1>4, <1>5 DEF ConsoleTypeOK
<1> QED BY <1>6, <1>7, <1>8, <1>9 DEF ConsoleInv

LEMMA ElsewhereStep ==
  ASSUME ConsoleInv, NEW b \in Bot, WrittenElsewhere(b)
  PROVE  ConsoleInv'
<1>1. /\ UNCHANGED <<cache, selected, call, own>> /\ ConsoleTypeOK /\ Versions /\ OfferedCalls
      /\ Write(b, "paused") \/ Write(b, "live_active")
      /\ "paused" \in BotStatus /\ "live_active" \in BotStatus
  BY DEF WrittenElsewhere, ConsoleInv, BotStatus
<1>2. row' \in [Bot -> Row] /\ writes' \in Version
  BY <1>1, WriteTypes
<1>3. /\ \A d \in Bot : own[d] <= row'[d].version /\ row'[d].version <= writes'
      /\ \A d \in Bot : row[d].version <= row'[d].version
  BY <1>1, WriteVersions
<1>4. \A d \in Bot : row[d].version \in Nat /\ row'[d].version \in Nat
  <2>1. \A d \in Bot : row'[d] \in Row
    BY <1>2
  <2> QED BY <1>1, <2>1, VersionNats DEF Row
<1>5. \A d \in Command : call[d].version \in Nat
  BY <1>1, VersionNats DEF ConsoleTypeOK
<1>6. Versions' /\ OfferedCalls'
  BY <1>1, <1>3, <1>4, <1>5 DEF Versions, OfferedCalls
<1> QED BY <1>1, <1>2, <1>6, CallStep DEF ConsoleTypeOK

\* The invariant of the bots' pages.
THEOREM ConsoleInvariance == ConsoleSpec => []ConsoleInv
<1>1. ConsoleInv /\ [ConsoleNext]_consoleVars => ConsoleInv'
  <2>1. ConsoleInv /\ UNCHANGED consoleVars => ConsoleInv'
    BY DEF consoleVars, ConsoleInv, ConsoleTypeOK, CacheKeys, Versions, OfferedCalls, Observed,
           UpToDate, Settled
  <2> QED BY <2>1, ReadRowsStep, AnswerStep, SelectStep, ClickStep, SubmitStep,
             HandleCommandStep, HandleCreateStep, ErrorStep, SucceedStep, ElsewhereStep
          DEF ConsoleNext
<1> QED BY <1>1, ConsoleInitInv, PTL DEF ConsoleSpec

\* Rows, entries and calls keep their types.
THEOREM ConsoleTypes == ConsoleSpec => []ConsoleTypeOK
<1>1. ConsoleInv => ConsoleTypeOK
  BY DEF ConsoleInv
<1> QED BY <1>1, ConsoleInvariance, PTL

\* A page never shows less than what the user was told has succeeded.
THEOREM PagesKeepUp == ConsoleSpec => []ReadYourWrites
<1>1. ConsoleInv => ReadYourWrites
  BY DEF ConsoleInv, ReadYourWrites, UpToDate
<1> QED BY <1>1, ConsoleInvariance, PTL

\* The API refuses what a button offered only if the bot has changed.
THEOREM RefusalsAreStale == ConsoleSpec => RefusedOnlyWhenStale
<1>1. ASSUME ConsoleInv, [ConsoleNext]_consoleVars
      PROVE  [\A c \in Command : call[c].at = "sent" /\ call'[c].at = "refused" =>
                row[call[c].bot].status # call[c].seen]_consoleVars
  <2> SUFFICES ASSUME NEW c \in Command, call[c].at = "sent", call'[c].at = "refused"
               PROVE  row[call[c].bot].status # call[c].seen
    OBVIOUS
  <2>0. call \in [Command -> [at : {"none", "sent", "done", "refused"}, bot : Bot \cup {NoBot},
                              seen : BotStatus \cup {"none"}, version : Version]]
    BY <1>1 DEF ConsoleInv, ConsoleTypeOK
  <2>1. \A d \in Command : Click(d) \/ Error(d) \/ Succeed(d) =>
          call'[c].at \in {"sent", "none", call[c].at}
    BY <2>0 DEF Click, Error, Succeed, NoCall
  <2>2. SubmitForm => call'[c].at \in {"sent", call[c].at}
    BY <2>0 DEF SubmitForm
  <2>3. \A b \in Bot : HandleCreate(b) => call'[c].at \in {"done", call[c].at}
    BY <2>0 DEF HandleCreate
  <2>4. \A d \in Command : HandleCommand(d) /\ d # c => call'[c].at = call[c].at
    BY <2>0 DEF HandleCommand
  <2>5. HandleCommand(c)
    BY <1>1, <2>1, <2>2, <2>3, <2>4
       DEF ConsoleNext, consoleVars, ReadRows, AnswerArrives, FetchFails, Select,
           WrittenElsewhere
  <2>6. c # "create" /\ ~Permitted(c, row[call[c].bot].status)
    BY <2>0, <2>5 DEF HandleCommand
  <2> QED BY <1>1, <2>6 DEF ConsoleInv, OfferedCalls
<1> QED BY <1>1, ConsoleInvariance, PTL DEF ConsoleSpec, RefusedOnlyWhenStale

-----------------------------------------------------------------------------
(* The risk settings. *)

\* Without settings the form is empty, and else it is of the bot selected.
FormInv == FormIsOfChosenBot /\ (Now = NoData => form = Empty)

\* A stop that was set since a save had read the row is known as a race.
SaveInv ==
  save.at = "read" => save.bot \in BotId /\ (policy[save.bot].stop => save.found.stop \/ raced)

\* The bots of requests exist.
RequestInv ==
  /\ save.at # "none" => save.bot \in BotId
  /\ toggle.at # "none" => toggle.bot \in BotId

RiskInv == RiskTypeOK /\ FormInv /\ RequestInv /\ SaveInv

\* What the page shows of an entry is of the type of the entry.
LEMMA PlainKeeps ==
  ASSUME NEW D, NEW e \in EntryOf(D)
  PROVE  Plain(e) \in EntryOf(D) /\ Plain(e).data = e.data
  BY DEF Plain, EntryOf

\* Settings do not change with entries that keep their data.
LEMMA SettingsSame ==
  ASSUME NEW d1, NEW r1, NEW d2, NEW r2, NEW b \in BotId \cup {NoBotId},
         \A c \in BotId : d1[c].data = d2[c].data /\ r1[c].data = r2[c].data
  PROVE  Settings(d1, r1, b) = Settings(d2, r2, b)
  BY DEF Settings

LEMMA RiskInitInv == RiskInit => RiskInv
<1> SUFFICES ASSUME RiskInit PROVE RiskInv
  OBVIOUS
<1>1. FirstPolicy \in Policy /\ 0 \in 0..MaxChanges /\ 0 \in 0..MaxChoices
  BY RiskAssumption DEF RiskAssumption, FirstPolicy, Policy
<1>2. RiskTypeOK
  BY <1>1, FreshEntry DEF RiskInit, RiskTypeOK, NoSave, NoToggle
<1>3. FormInv
  BY DEF RiskInit, FormInv, FormIsOfChosenBot
<1>4. RequestInv /\ SaveInv
  BY DEF RiskInit, RequestInv, SaveInv, NoSave, NoToggle
<1> QED BY <1>2, <1>3, <1>4 DEF RiskInv

LEMMA SettingsType ==
  ASSUME NEW d \in [BotId -> EntryOf(Policy)], NEW r \in [BotId -> EntryOf(Policy)],
         NEW b \in BotId \cup {NoBotId}
  PROVE  Settings(d, r, b) \in Policy \cup {NoData}
<1>1. \A c \in BotId : d[c].data \in Policy \cup {NoData} /\ r[c].data \in Policy \cup {NoData}
  BY DEF EntryOf
<1> QED BY <1>1 DEF Settings

\* What is shown keeps the form's invariant, if the effect runs whenever it has to.
LEMMA ShowStep ==
  ASSUME RiskInv, NEW d \in [BotId -> EntryOf(Policy)], NEW r \in [BotId -> EntryOf(Policy)],
         NEW b \in BotId \cup {NoBotId}, NEW another \in BOOLEAN, Show(d, r, b, another),
         another \/ Now = NoData \/ (b = chosen /\ Settings(d, r, b) = Now)
  PROVE  /\ FormInv' /\ form' \in Limit \cup {Empty} /\ formOf' \in BotId \cup {NoBotId}
         /\ details' = d /\ risks' = r /\ chosen' = b
<1> DEFINE s == Settings(d, r, b)
<1>1. details' = d /\ risks' = r /\ chosen' = b /\ Now' = s
  BY DEF Show, Now
<1>2. s \in Policy \cup {NoData}
  BY SettingsType
<1>3. another => /\ form' = Filled(s)
                 /\ formOf' = IF s = NoData THEN formOf ELSE b
  BY DEF Show
<1>4. ~another => form' = form /\ formOf' = formOf
  BY DEF Show
<1>5. ~another => Now = NoData \/ (b = chosen /\ s = Now)
  OBVIOUS
<1> HIDE DEF s
<1>6. CASE another
  <2>1. s # NoData => s.limit \in Limit
    BY <1>2 DEF Policy
  <2>2. b = NoBotId => s = NoData
    BY DEF s, Settings
  <2> QED BY <1>1, <1>3, <1>6, <2>1, <2>2
          DEF Filled, FormInv, FormIsOfChosenBot, RiskInv, RiskTypeOK
<1>7. CASE ~another
  BY <1>1, <1>4, <1>5, <1>7 DEF FormInv, FormIsOfChosenBot, RiskInv, RiskTypeOK
<1> QED BY <1>1, <1>6, <1>7

\* A step of the page that shows something.
LEMMA ShowingStep ==
  ASSUME RiskInv, [RiskNext]_riskVars,
         \E b \in BotId : Choose(b) \/ DetailArrives(b) \/ RiskArrives(b)
  PROVE  RiskInv'
<1>0. /\ details \in [BotId -> EntryOf(Policy)] /\ risks \in [BotId -> EntryOf(Policy)]
      /\ chosen \in BotId \cup {NoBotId}
  BY DEF RiskInv, RiskTypeOK
<1>1. ASSUME FormInv', form' \in Limit \cup {Empty}, formOf' \in BotId \cup {NoBotId},
             details' \in [BotId -> EntryOf(Policy)], risks' \in [BotId -> EntryOf(Policy)],
             chosen' \in BotId \cup {NoBotId}, choices' \in 0..MaxChoices,
             UNCHANGED <<policy, changes, save, toggle, raced>>
      PROVE  RiskInv'
  BY <1>1 DEF RiskInv, RiskTypeOK, RequestInv, SaveInv
<1>2. ASSUME NEW b \in BotId, Choose(b) PROVE RiskInv'
  <2> DEFINE d == [details EXCEPT ![b] = Plain(Observe(details[b]))]
             r == [risks EXCEPT ![b] = Plain(Observe(risks[b]))]
             another == Now # NoData \/ Settings(details, risks, b) # NoData
  <2>1. d \in [BotId -> EntryOf(Policy)] /\ r \in [BotId -> EntryOf(Policy)]
    BY <1>0, EntryKeeps, PlainKeeps
  <2>2. Show(d, r, b, another) /\ choices' \in 0..MaxChoices
    BY <1>2, RiskAssumption DEF Choose, RiskInv, RiskTypeOK, RiskAssumption
  <2>3. UNCHANGED <<policy, changes, save, toggle, raced>>
    BY <1>2 DEF Choose
  <2>4. another \/ Now = NoData
    OBVIOUS
  <2>5. another \in BOOLEAN
    OBVIOUS
  <2> HIDE DEF d, r, another
  <2> QED BY <1>1, <2>1, <2>2, <2>3, <2>4, <2>5, ShowStep
<1>3. ASSUME NEW b \in BotId, DetailArrives(b) PROVE RiskInv'
  <2> DEFINE d == [details EXCEPT ![b] = Arrive(details[b])]
             another == b = chosen /\ risks[b].data = NoData
  <2>1. d \in [BotId -> EntryOf(Policy)] /\ another \in BOOLEAN
    BY <1>0, EntryKeeps
  <2>2. /\ Show(d, risks, chosen, another)
        /\ UNCHANGED <<policy, changes, choices, save, toggle, raced>>
    BY <1>3 DEF DetailArrives
  <2>3. another \/ Settings(d, risks, chosen) = Now
    BY <1>0 DEF Settings, Now
  <2>4. choices \in 0..MaxChoices
    BY DEF RiskInv, RiskTypeOK
  <2> HIDE DEF d, another
  <2> QED BY <1>0, <1>1, <2>1, <2>2, <2>3, <2>4, ShowStep
<1>4. ASSUME NEW b \in BotId, RiskArrives(b) PROVE RiskInv'
  <2> DEFINE r == [risks EXCEPT ![b] = Arrive(risks[b])]
             another == b = chosen
  <2>1. r \in [BotId -> EntryOf(Policy)] /\ another \in BOOLEAN
    BY <1>0, EntryKeeps
  <2>2. /\ Show(details, r, chosen, another)
        /\ UNCHANGED <<policy, changes, choices, save, toggle, raced>>
    BY <1>4 DEF RiskArrives
  <2>3. another \/ Settings(details, r, chosen) = Now
    BY <1>0 DEF Settings, Now
  <2>4. choices \in 0..MaxChoices
    BY DEF RiskInv, RiskTypeOK
  <2> HIDE DEF r, another
  <2>5. /\ FormInv' /\ form' \in Limit \cup {Empty} /\ formOf' \in BotId \cup {NoBotId}
        /\ details' = details /\ risks' = r /\ chosen' = chosen
    BY <1>0, <2>1, <2>2, <2>3, ShowStep
  <2> QED BY <1>0, <1>1, <2>1, <2>2, <2>4, <2>5
<1> QED BY <1>2, <1>3, <1>4

\* A step on entries that keep their data.
LEMMA EntriesStep ==
  ASSUME RiskInv, NEW d \in [BotId -> EntryOf(Policy)], NEW r \in [BotId -> EntryOf(Policy)],
         \A b \in BotId : d[b].data = details[b].data /\ r[b].data = risks[b].data,
         details' = d, risks' = r, UNCHANGED <<chosen, form, formOf>>
  PROVE  /\ FormInv'
         /\ details' \in [BotId -> EntryOf(Policy)] /\ risks' \in [BotId -> EntryOf(Policy)]
<1>1. Now' = Now
  <2>1. chosen \in BotId \cup {NoBotId}
    BY DEF RiskInv, RiskTypeOK
  <2> QED BY <2>1, SettingsSame DEF Now
<1> QED BY <1>1 DEF FormInv, FormIsOfChosenBot, RiskInv

LEMMA RefetchedKeeps ==
  ASSUME NEW q \in [BotId -> EntryOf(Policy)], NEW b \in BotId
  PROVE  /\ Refetched(q, b) \in [BotId -> EntryOf(Policy)]
         /\ \A c \in BotId : Refetched(q, b)[c].data = q[c].data
  BY EntryKeeps, PlainKeeps DEF Refetched

\* A query that is read or fails changes nothing the page shows.
LEMMA QueriesStep ==
  ASSUME RiskInv, \E b \in BotId : ReadsDetail(b) \/ ReadsRisk(b) \/ QueryFails(b)
  PROVE  RiskInv'
<1>0. /\ details \in [BotId -> EntryOf(Policy)] /\ risks \in [BotId -> EntryOf(Policy)]
      /\ policy \in [BotId -> Policy]
  BY DEF RiskInv, RiskTypeOK
<1>1. UNCHANGED <<policy, changes, chosen, choices, form, formOf, save, toggle, raced>>
  BY DEF ReadsDetail, ReadsRisk, QueryFails
<1>2. PICK b \in BotId : ReadsDetail(b) \/ ReadsRisk(b) \/ QueryFails(b)
  OBVIOUS
<1> DEFINE d1 == [details EXCEPT ![b] = Read(details[b], policy[b])]
           d2 == [details EXCEPT ![b] = Plain(Fail(details[b]))]
           r1 == [risks EXCEPT ![b] = Read(risks[b], policy[b])]
           r2 == [risks EXCEPT ![b] = Plain(Fail(risks[b]))]
<1>3. /\ details' \in {details, d1, d2} /\ risks' \in {risks, r1, r2}
  BY <1>2 DEF ReadsDetail, ReadsRisk, QueryFails
<1>4. \A d \in {details, d1, d2} :
        d \in [BotId -> EntryOf(Policy)] /\ \A c \in BotId : d[c].data = details[c].data
  <2>1. /\ d1 \in [BotId -> EntryOf(Policy)] /\ \A c \in BotId : d1[c].data = details[c].data
    BY <1>0, EntryReads
  <2>2. /\ d2 \in [BotId -> EntryOf(Policy)] /\ \A c \in BotId : d2[c].data = details[c].data
    BY <1>0, EntryKeeps, PlainKeeps
  <2> HIDE DEF d1, d2
  <2> QED BY <1>0, <2>1, <2>2
<1>5. \A r \in {risks, r1, r2} :
        r \in [BotId -> EntryOf(Policy)] /\ \A c \in BotId : r[c].data = risks[c].data
  <2>1. /\ r1 \in [BotId -> EntryOf(Policy)] /\ \A c \in BotId : r1[c].data = risks[c].data
    BY <1>0, EntryReads
  <2>2. /\ r2 \in [BotId -> EntryOf(Policy)] /\ \A c \in BotId : r2[c].data = risks[c].data
    BY <1>0, EntryKeeps, PlainKeeps
  <2> HIDE DEF r1, r2
  <2> QED BY <1>0, <2>1, <2>2
<1> HIDE DEF d1, d2, r1, r2
<1>6. /\ FormInv' /\ details' \in [BotId -> EntryOf(Policy)]
      /\ risks' \in [BotId -> EntryOf(Policy)]
  BY <1>1, <1>3, <1>4, <1>5, EntriesStep
<1> QED BY <1>1, <1>6 DEF RiskInv, RiskTypeOK, RequestInv, SaveInv

\* The network returns: the queries of the bot selected are asked again.
LEMMA OnlineStep ==
  ASSUME RiskInv, OnlineAgain
  PROVE  RiskInv'
<1>0. /\ details \in [BotId -> EntryOf(Policy)] /\ risks \in [BotId -> EntryOf(Policy)]
      /\ chosen \in BotId /\ choices \in 0..MaxChoices
  BY DEF RiskInv, RiskTypeOK, OnlineAgain
<1> DEFINE d == [details EXCEPT ![chosen] = Plain(Observe(details[chosen]))]
           r == [risks EXCEPT ![chosen] = Plain(Observe(risks[chosen]))]
<1>1. /\ details' = d /\ risks' = r /\ choices < MaxChoices /\ choices' = choices + 1
      /\ UNCHANGED <<policy, changes, chosen, form, formOf, save, toggle, raced>>
  BY DEF OnlineAgain
<1>2. /\ d \in [BotId -> EntryOf(Policy)] /\ \A c \in BotId : d[c].data = details[c].data
  BY <1>0, EntryKeeps, PlainKeeps
<1>3. /\ r \in [BotId -> EntryOf(Policy)] /\ \A c \in BotId : r[c].data = risks[c].data
  BY <1>0, EntryKeeps, PlainKeeps
<1> HIDE DEF d, r
<1>4. /\ FormInv' /\ details' \in [BotId -> EntryOf(Policy)]
      /\ risks' \in [BotId -> EntryOf(Policy)]
  BY <1>1, <1>2, <1>3, EntriesStep
<1>5. choices' \in 0..MaxChoices
  BY <1>0, <1>1, RiskAssumption DEF RiskAssumption
<1> QED BY <1>1, <1>4, <1>5 DEF RiskInv, RiskTypeOK, RequestInv, SaveInv

\* The form is typed in, or a request is made.
LEMMA InputStep ==
  ASSUME RiskInv, Submit \/ PressToggle \/ \E v \in Limit \cup {Empty} : Type(v)
  PROVE  RiskInv'
<1>0. FormShown => chosen \in BotId /\ Now # NoData
  BY DEF FormShown, Now, Settings, RiskInv, RiskTypeOK
<1>1. UNCHANGED <<policy, changes, details, risks, chosen, choices, raced>> /\ FormShown
  BY DEF Submit, PressToggle, Type
<1>2. Now' = Now
  BY <1>1 DEF Now
<1>3. ASSUME NEW v \in Limit \cup {Empty}, Type(v) PROVE RiskInv'
  BY <1>0, <1>1, <1>2, <1>3
     DEF Type, RiskInv, RiskTypeOK, RequestInv, SaveInv, FormInv, FormIsOfChosenBot
<1>4. CASE Submit
  <2>1. FirstPolicy \in Policy
    BY RiskAssumption DEF RiskAssumption, FirstPolicy, Policy
  <2> QED BY <1>0, <1>1, <1>2, <1>4, <2>1
          DEF Submit, RiskInv, RiskTypeOK, RequestInv, SaveInv, FormInv, FormIsOfChosenBot
<1>5. CASE PressToggle
  <2>1. (Now = NoData \/ ~Now.stop) \in BOOLEAN
    OBVIOUS
  <2> QED BY <1>0, <1>1, <1>2, <1>5, <2>1
          DEF PressToggle, RiskInv, RiskTypeOK, RequestInv, SaveInv, FormInv, FormIsOfChosenBot
<1> QED BY <1>3, <1>4, <1>5

\* A step that leaves the page alone has to keep only the rows and the requests.
LEMMA PageAlone ==
  ASSUME RiskInv, UNCHANGED <<details, risks, chosen, choices, form, formOf>>,
         policy' \in [BotId -> Policy], changes' \in 0..MaxChanges, raced' \in BOOLEAN,
         save' \in [at : {"none", "sent", "read", "done"}, bot : BotId \cup {NoBotId},
                    limit : Limit \cup {Empty}, found : Policy],
         toggle' \in [at : {"none", "sent", "checked", "done"}, bot : BotId \cup {NoBotId},
                      stop : BOOLEAN],
         RequestInv', SaveInv'
  PROVE  RiskInv'
<1>1. FormInv'
  BY DEF RiskInv, FormInv, FormIsOfChosenBot, Now
<1> QED BY <1>1 DEF RiskInv, RiskTypeOK

\* The idle requests have their types.
LEMMA NoRequests ==
  /\ FirstPolicy \in Policy
  /\ NoSave \in [at : {"none", "sent", "read", "done"}, bot : BotId \cup {NoBotId},
                 limit : Limit \cup {Empty}, found : Policy]
  /\ NoToggle \in [at : {"none", "sent", "checked", "done"}, bot : BotId \cup {NoBotId},
                   stop : BOOLEAN]
<1>1. FirstPolicy \in Policy
  BY RiskAssumption DEF RiskAssumption, FirstPolicy, Policy
<1> QED BY <1>1 DEF NoSave, NoToggle

\* What a statement writes is a row, and the other rows stay.
LEMMA WriteRowTypes ==
  ASSUME RiskInv, NEW b \in BotId, NEW p \in Policy, WriteRow(b, p)
  PROVE  /\ policy' \in [BotId -> Policy] /\ changes' \in 0..MaxChanges /\ raced' \in BOOLEAN
         /\ policy'[b] = p /\ \A c \in BotId : c # b => policy'[c] = policy[c]
         /\ raced => raced'
         /\ save.at = "read" /\ save.bot = b /\ p.stop /\ ~policy[b].stop => raced'
<1>1. policy \in [BotId -> Policy] /\ changes \in 0..MaxChanges /\ raced \in BOOLEAN
  BY DEF RiskInv, RiskTypeOK
<1>2. policy' = [policy EXCEPT ![b] = p]
  BY DEF WriteRow
<1>3. changes' \in 0..MaxChanges
  BY <1>1, RiskAssumption DEF WriteRow, RiskAssumption
<1>4. raced' = (raced \/ (save.at = "read" /\ save.bot = b /\ p.stop /\ ~policy[b].stop))
  BY DEF WriteRow
<1> QED BY <1>1, <1>2, <1>3, <1>4

\* A row written while the save waits keeps what is known of a race.
LEMMA WrittenBesideSave ==
  ASSUME RiskInv, NEW b \in BotId, NEW p \in Policy, WriteRow(b, p), save' = save
  PROVE  SaveInv'
<1>1. SaveInv /\ save.bot = save'.bot
  BY DEF RiskInv
<1>2. CASE save.bot = b
  BY <1>1, <1>2, WriteRowTypes DEF SaveInv
<1>3. CASE save.bot # b
  BY <1>1, <1>3, WriteRowTypes DEF SaveInv
<1> QED BY <1>2, <1>3

\* The API takes its steps for a save.
LEMMA SaveStep ==
  ASSUME RiskInv, SaveReads \/ SaveWrites
  PROVE  RiskInv'
<1>0. /\ policy \in [BotId -> Policy] /\ changes \in 0..MaxChanges
      /\ save \in [at : {"none", "sent", "read", "done"}, bot : BotId \cup {NoBotId},
                   limit : Limit \cup {Empty}, found : Policy]
      /\ toggle \in [at : {"none", "sent", "checked", "done"}, bot : BotId \cup {NoBotId},
                     stop : BOOLEAN]
      /\ RequestInv /\ SaveInv
  BY DEF RiskInv, RiskTypeOK
<1>1. save.at # "none" /\ save.bot \in BotId
  BY <1>0 DEF SaveReads, SaveWrites, RequestInv
<1>2. CASE SaveReads
  <2>1. /\ save' \in [at : {"none", "sent", "read", "done"}, bot : BotId \cup {NoBotId},
                      limit : Limit \cup {Empty}, found : Policy]
        /\ save'.bot = save.bot /\ save'.found = policy[save.bot]
    BY <1>0, <1>1, <1>2 DEF SaveReads
  <2>2. /\ UNCHANGED <<policy, changes, toggle, details, risks, chosen, choices, form, formOf>>
        /\ raced' = FALSE
    BY <1>2 DEF SaveReads
  <2>3. RequestInv' /\ SaveInv'
    BY <1>0, <1>1, <2>1, <2>2 DEF RequestInv, SaveInv
  <2> QED BY <1>0, <2>1, <2>2, <2>3, PageAlone
<1>3. CASE SaveWrites
  <2> DEFINE p == MergeRiskSettings(save.found, save.limit)
  <2>1. p \in Policy
    BY <1>0 DEF MergeRiskSettings, Policy
  <2>2. /\ WriteRow(save.bot, p)
        /\ UNCHANGED <<toggle, details, risks, chosen, choices, form, formOf>>
    BY <1>3 DEF SaveWrites
  <2>3. /\ save' \in [at : {"none", "sent", "read", "done"}, bot : BotId \cup {NoBotId},
                      limit : Limit \cup {Empty}, found : Policy]
        /\ save'.at = "done" /\ save'.bot = save.bot
    BY <1>1, <1>3, NoRequests DEF SaveWrites, NoSave
  <2> HIDE DEF p
  <2>4. RequestInv' /\ SaveInv'
    BY <1>0, <1>1, <2>2, <2>3 DEF RequestInv, SaveInv
  <2>5. policy' \in [BotId -> Policy] /\ changes' \in 0..MaxChanges /\ raced' \in BOOLEAN
    BY <1>1, <2>1, <2>2, WriteRowTypes
  <2> QED BY <1>0, <2>2, <2>3, <2>4, <2>5, PageAlone
<1> QED BY <1>2, <1>3

\* The API takes its steps for the emergency stop, or others set or clear it.
LEMMA StopStep ==
  ASSUME RiskInv, ToggleReads \/ ToggleWrites \/
         \E b \in BotId, stop \in BOOLEAN : SetElsewhere(b, stop)
  PROVE  RiskInv'
<1>0. /\ policy \in [BotId -> Policy] /\ changes \in 0..MaxChanges /\ raced \in BOOLEAN
      /\ save \in [at : {"none", "sent", "read", "done"}, bot : BotId \cup {NoBotId},
                   limit : Limit \cup {Empty}, found : Policy]
      /\ toggle \in [at : {"none", "sent", "checked", "done"}, bot : BotId \cup {NoBotId},
                     stop : BOOLEAN]
      /\ RequestInv /\ SaveInv
  BY DEF RiskInv, RiskTypeOK
<1>1. UNCHANGED <<details, risks, chosen, choices, form, formOf, save>>
  BY DEF ToggleReads, ToggleWrites, SetElsewhere
<1>2. CASE ToggleReads
  <2>1. /\ toggle' \in [at : {"none", "sent", "checked", "done"}, bot : BotId \cup {NoBotId},
                        stop : BOOLEAN]
        /\ toggle'.at # "none" => toggle'.bot = toggle.bot /\ toggle.at # "none"
    <3>1. toggle.at = "sent" /\ (toggle' = NoToggle \/ toggle' = [toggle EXCEPT !.at = "checked"])
      BY <1>2 DEF ToggleReads
    <3>2. NoToggle.at = "none"
      BY DEF NoToggle
    <3> QED BY <1>0, <3>1, <3>2, NoRequests
  <2>2. UNCHANGED <<policy, changes, raced>>
    BY <1>2 DEF ToggleReads
  <2>3. RequestInv' /\ SaveInv'
    BY <1>0, <1>1, <2>1, <2>2 DEF RequestInv, SaveInv
  <2> QED BY <1>0, <1>1, <2>1, <2>2, <2>3, PageAlone
<1>3. ASSUME NEW b \in BotId, NEW p \in Policy, WriteRow(b, p), RequestInv',
             toggle' \in [at : {"none", "sent", "checked", "done"}, bot : BotId \cup {NoBotId},
                          stop : BOOLEAN]
      PROVE  RiskInv'
  BY <1>0, <1>1, <1>3, WriteRowTypes, WrittenBesideSave, PageAlone
<1>4. CASE ToggleWrites
  <2>1. toggle.bot \in BotId
    BY <1>0, <1>4 DEF ToggleWrites, RequestInv
  <2>2. [policy[toggle.bot] EXCEPT !.stop = toggle.stop] \in Policy
    BY <1>0, <2>1 DEF Policy
  <2>3. /\ toggle' \in [at : {"none", "sent", "checked", "done"}, bot : BotId \cup {NoBotId},
                        stop : BOOLEAN]
        /\ toggle'.bot = toggle.bot
    BY <1>4, <2>1, NoRequests DEF ToggleWrites, NoToggle
  <2>4. RequestInv'
    BY <1>0, <1>1, <2>1, <2>3 DEF RequestInv
  <2> QED BY <1>3, <1>4, <2>1, <2>2, <2>3, <2>4 DEF ToggleWrites
<1>5. ASSUME NEW b \in BotId, NEW stop \in BOOLEAN, SetElsewhere(b, stop) PROVE RiskInv'
  <2>1. [policy[b] EXCEPT !.stop = stop] \in Policy
    BY <1>0 DEF Policy
  <2>2. toggle' = toggle /\ WriteRow(b, [policy[b] EXCEPT !.stop = stop])
    BY <1>5 DEF SetElsewhere
  <2>3. RequestInv'
    BY <1>0, <1>1, <2>2 DEF RequestInv
  <2> QED BY <1>0, <1>3, <2>1, <2>2, <2>3
<1> QED BY <1>2, <1>4, <1>5

\* A request is answered or fails.
LEMMA AnsweredStep ==
  ASSUME RiskInv, SaveSucceeds \/ ToggleSucceeds \/ CallFails
  PROVE  RiskInv'
<1>0. RiskTypeOK /\ RequestInv /\ SaveInv
  BY DEF RiskInv
<1>1. /\ UNCHANGED <<policy, changes, chosen, choices, form, formOf>>
      /\ save' = save \/ save' = NoSave
      /\ toggle' = toggle \/ toggle' = NoToggle
      /\ (save' = NoSave /\ raced' = FALSE) \/ (save' = save /\ raced' = raced)
  BY DEF SaveSucceeds, ToggleSucceeds, CallFails
<1>2. NoSave.at = "none" /\ NoToggle.at = "none"
  BY DEF NoSave, NoToggle
<1>3. RequestInv' /\ SaveInv'
  BY <1>0, <1>1, <1>2 DEF RequestInv, SaveInv
<1>4. /\ save' \in [at : {"none", "sent", "read", "done"}, bot : BotId \cup {NoBotId},
                    limit : Limit \cup {Empty}, found : Policy]
      /\ toggle' \in [at : {"none", "sent", "checked", "done"}, bot : BotId \cup {NoBotId},
                      stop : BOOLEAN]
      /\ raced' \in BOOLEAN
  BY <1>0, <1>1, NoRequests DEF RiskTypeOK
<1>5. /\ details' \in [BotId -> EntryOf(Policy)] /\ risks' \in [BotId -> EntryOf(Policy)]
      /\ \A b \in BotId : details'[b].data = details[b].data /\ risks'[b].data = risks[b].data
  <2>1. details \in [BotId -> EntryOf(Policy)] /\ risks \in [BotId -> EntryOf(Policy)]
    BY <1>0 DEF RiskTypeOK
  <2>2. CASE SaveSucceeds
    <3>1. save.bot \in BotId
      BY <1>0, <2>2 DEF SaveSucceeds, RequestInv
    <3> QED BY <2>1, <2>2, <3>1, RefetchedKeeps DEF SaveSucceeds
  <2>3. CASE ToggleSucceeds
    <3>1. toggle.bot \in BotId
      BY <1>0, <2>3 DEF ToggleSucceeds, RequestInv
    <3> QED BY <2>1, <2>3, <3>1, RefetchedKeeps DEF ToggleSucceeds
  <2>4. CASE CallFails
    BY <2>1, <2>4 DEF CallFails
  <2> QED BY <2>2, <2>3, <2>4
<1>6. FormInv'
  BY <1>1, <1>5, EntriesStep
<1> QED BY <1>0, <1>1, <1>3, <1>4, <1>5, <1>6 DEF RiskInv, RiskTypeOK

\* The invariant of the risk settings.
THEOREM RiskInvariance == RiskSpec => []RiskInv
<1>1. ASSUME RiskInv, [RiskNext]_riskVars PROVE RiskInv'
  <2>1. UNCHANGED riskVars => RiskInv'
    BY <1>1 DEF riskVars, RiskInv, RiskTypeOK, FormInv, FormIsOfChosenBot, Now, RequestInv, SaveInv
  <2> QED BY <1>1, <2>1, ShowingStep, QueriesStep, OnlineStep, InputStep, SaveStep, StopStep,
             AnsweredStep
          DEF RiskNext
<1> QED BY <1>1, RiskInitInv, PTL DEF RiskSpec

\* Rows, entries and requests keep their types.
THEOREM RiskTypes == RiskSpec => []RiskTypeOK
<1>1. RiskInv => RiskTypeOK
  BY DEF RiskInv
<1> QED BY <1>1, RiskInvariance, PTL

\* A form is never saved for another bot than the one it was filled in or typed for.
THEOREM FormOfChosenBot == RiskSpec => []FormIsOfChosenBot
<1>1. RiskInv => FormIsOfChosenBot
  BY DEF RiskInv, FormInv
<1> QED BY <1>1, RiskInvariance, PTL

\* An emergency stop is lifted by a request that says so, here or elsewhere, or by a save
\* that raced with it.
THEOREM StopLiftedKnowingly == RiskSpec => LiftedOnlyByRequestOrRace
<1>1. ASSUME RiskInv, [RiskNext]_riskVars
      PROVE  [\A b \in BotId : policy[b].stop /\ ~policy'[b].stop =>
                \/ toggle.at = "checked" /\ toggle.bot = b /\ ~toggle.stop /\ toggle'.at = "done"
                \/ SetElsewhere(b, FALSE)
                \/ save.at = "read" /\ save.bot = b /\ save'.at = "done" /\ raced]_riskVars
  <2> SUFFICES ASSUME NEW b \in BotId, policy[b].stop, ~policy'[b].stop
               PROVE  \/ /\ toggle.at = "checked" /\ toggle.bot = b /\ ~toggle.stop
                         /\ toggle'.at = "done"
                      \/ SetElsewhere(b, FALSE)
                      \/ save.at = "read" /\ save.bot = b /\ save'.at = "done" /\ raced
    OBVIOUS
  <2>0. /\ policy \in [BotId -> Policy] /\ RequestInv /\ SaveInv
    BY <1>1 DEF RiskInv, RiskTypeOK
  <2>1. policy' # policy
    OBVIOUS
  <2>2. SaveWrites \/ ToggleWrites \/ \E c \in BotId, stop \in BOOLEAN : SetElsewhere(c, stop)
    BY <1>1, <2>1 DEF RiskNext, riskVars, Choose, ReadsDetail, ReadsRisk, DetailArrives,
          RiskArrives, QueryFails, OnlineAgain, Type, Submit, PressToggle, SaveReads, SaveSucceeds,
          ToggleReads, ToggleSucceeds, CallFails
  <2>3. CASE SaveWrites
    <3>1. save.at = "read" /\ save'.at = "done" /\ save.bot \in BotId
      BY <2>0, <2>3 DEF SaveWrites, RequestInv, NoSave
    <3>2. policy' = [policy EXCEPT ![save.bot] = MergeRiskSettings(save.found, save.limit)]
      BY <2>3 DEF SaveWrites, WriteRow
    <3>3. save.bot = b /\ ~save.found.stop
      BY <2>0, <3>1, <3>2 DEF MergeRiskSettings
    <3> QED BY <2>0, <3>1, <3>3 DEF SaveInv
  <2>4. CASE ToggleWrites
    <3>1. toggle.at = "checked" /\ toggle'.at = "done" /\ toggle.bot \in BotId
      BY <2>0, <2>4 DEF ToggleWrites, RequestInv, NoToggle
    <3>2. policy' = [policy EXCEPT ![toggle.bot] =
                       [policy[toggle.bot] EXCEPT !.stop = toggle.stop]]
      BY <2>4 DEF ToggleWrites, WriteRow
    <3>3. policy[toggle.bot] \in Policy
      BY <2>0, <3>1
    <3> QED BY <2>0, <3>1, <3>2, <3>3 DEF Policy
  <2>5. ASSUME NEW c \in BotId, NEW stop \in BOOLEAN, SetElsewhere(c, stop)
        PROVE  SetElsewhere(b, FALSE)
    <3>1. policy' = [policy EXCEPT ![c] = [policy[c] EXCEPT !.stop = stop]]
      BY <2>5 DEF SetElsewhere, WriteRow
    <3>2. policy[c] \in Policy
      BY <2>0
    <3>3. c = b /\ stop = FALSE
      BY <2>0, <3>1, <3>2 DEF Policy
    <3> QED BY <2>5, <3>3
  <2> QED BY <2>2, <2>3, <2>4, <2>5
<1> QED BY <1>1, RiskInvariance, PTL DEF RiskSpec, LiftedOnlyByRequestOrRace
=============================================================================
