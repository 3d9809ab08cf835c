# Memnox: TLA+ models, checks and proofs

Memnox rules on every tool call of a coding agent: allow, ask a person, or deny. It has no
server of its own on the machine. Hooks, shell wrappers, MCP proxies, `memnox` commands and a
daemon are separate processes that share JSON files under `~/.memnox`, and what can go wrong
is what these processes do to each other's files, and what a handler does with something it
read before an await. This directory models that, and the rules themselves.

Paths below are relative to `packages/core/src` unless they start with a package's name.

## 1. The system's parts

| Part | State | Operations | Interacts by | Hard because |
|---|---|---|---|---|
| Directory mutex and record files (`store/`) | a `.lock` directory per store; one file per record, replaced by rename | `exclusively`, `reclaimStale`, record read, write, remove | every store's read-change-write | crashes, staleness by clock, retries |
| Held calls (`gate/hold`, `pending`, `routed-prompt`, `tty-prompt`) | a record and a claim file per question | `hold`, `raise`, `answer`, `park`, `clear`, `waitForAnswer` | the asking process polls; anybody answers | no lock, two routes at once, deadlines, retries |
| Session grants (`gate/session-grants`) | grants, counted yeses, single yeses | `covers`, `grant`, `approved`, `allowOnce`, `takeOnce` | written by answerers, read by the next call | a yes used twice |
| Chat approval (`gate/chat-approval`, `interceptors tool-hook`, `in-session`, `held-picker`) | the same pending records; pickers seen opening | `holdInChat`, `withChatAnswer`, `markTold`, the picker | the agent's next turn | every hook writes back a copy it read |
| Leases (`coordination/lease*`, `region-overlap`) | one record per lease | `take`, `takeOver`, `release`, `releaseSession`, `renewSession`, `forget` | every writing tool call | overlapping paths, expiry, deaths |
| Lease gate (`coordination/lease-gate`, `shared-leases`) | a claim in flight | `claim`, `confirmShared`, `waitOut`, `takeOver` | the register, a person, the workspace | the register moves between its calls |
| Proposals and confirmation (`gate/proposals`, `cli daemon/confirm*`, `cli protect/merge-rules`) | one record per card; the policy file | `confirmAnswer`, `answer`, `ran`, carrying out | the daemon, for the Mac and phones | no claim, crashes half way, authority taken away |
| Pairing (`cli remote/pairing`, `pairings`) | a book of pairings in memory | `open`, handshake, `accept`, `decline`, expiry | device, person, cloud, registry | state used after awaits |
| Devices and capabilities (`gate/devices`) | one registry file | add, revoke, grant, ungrant, bringing the Mac in line | every remote request | whole-file writes without the mutex |
| Remote sessions and the voice (`cli remote/endpoint`, `drive`, `voice-hold`) | sessions, drives, streams, who holds the voice | handshake, dispatch, subscribe, ask, drive, timers | phones, the Mac, the registry | a revoke crossing a request, late timers |
| Policy engine (`policy/`) | rules, facts in force | `evaluate` | every call | an index that must miss nothing, relaxing, windows |
| Local gate (`gate/local-gate`, containment, self-protection, allowances) | a session's options, allowances | `ruled` | every call | the order of the layers |
| Notices (`notice/`) | a session's signals, an agent's seen keys | `consider`, `learn`, `taint`, `clear` | hooks of one session | two unlocked files |
| Sync (`cli sync/`, `sync/account`) | cursor, account, bundle, conditions | pull, push, reports, beat, revocation | the workspace, two processes | lost answers, late events, restarts, logins |
| Event ledger (`event/`) | a database of events | append, query | seams, sync | what a limited query leaves out |
| Relay link, MCP proxy, breaker, budget, missions, keeper, retention, recovery, discovery, classifiers, SDK, native | see PROJECT.json | | | |

What makes them correct: a store loses no change; a call runs only because a person said so or
the rules allow it, each yes counts once, and every hold ends; a refusal and a workspace's
question stand whatever else is in force; two sessions are never both told to write the same
code; what was revoked acts no more; everything the ledger holds arrives and nothing else does;
and a lock, lease, question, pairing or half-written bundle left behind stops nobody for good.

## 2. Modules

| Module | Models | State and actions |
|---|---|---|
| `ExclusiveLock` | `store/exclusive.ts` around a record read and write | `lock`, `stale` are the directory and its age, `pc` and `attempt` the place in `exclusively()`. One action per file operation; `Crash`, `FileFails` and `Age` are the environment. |
| `HeldCalls` | `gate/hold.ts`, `pending.ts`, `routed-prompt.ts`, `tty-prompt.ts`, the grants they touch, and the project boundary's second check | `record` and `claimed` are the two files of a question; `pc`, `polling`, `got`, `on`, `kept` a caller in `hold()`, `answering` the threads in `answer()`. A caller's terminal is such a thread. |
| `Consent` | what a hold promises, with no file in it | `said`, `ran`, `ranOn`: a person answers once, a call runs on a yes, a "once" runs one call unless storage failed |
| `ChatApproval` | the hooks of a session that hold a call in its chat, the picker, and answers from elsewhere | `record`, `claimed`, `granted`, `opened` are the files; `pc`, `at`, `copy` a hook's place and what it read. `Promise` instantiates `Consent`. |
| `LeaseRegister` | `coordination/lease-store.ts`, `lease.ts`, `region-overlap.ts` | `leases`; each operation is one action, because each runs whole inside the mutex |
| `LeaseGate` | `coordination/lease-gate.ts` over the register, and what `shared-leases.ts` answers | `stage`, `want`, `mine`, `holding`, `tries` per session, and `made`, the lease its claim made; extends `LeaseRegister` and steps its actions. `Asks` is what each session comes to write, `Elsewhere` the paths the workspace may at any time say another machine has. |
| `Confirm` | `confirmAnswer` and the carrying out of every kind of change | `card`, `held`, `claim`, `rules`, `registered`, `paused`, `devices` are files; `req` a request's place, its copy and the authority it had |
| `VoiceHold` | `cli remote/voice-hold.ts` | `phones`, `recent`, `current`, `due`; operations as formulas, no actions of its own |
| `RemoteEndpoint` | `endpoint.ts`, `drive.ts`, `gate/devices.ts`; extends `VoiceHold` | `registry`, sessions, streams, `request` and `change` with what each read; steps the voice with every event |
| `Pairing` | `pairings.ts`, `pairing.ts`, the registry | `state`, `stage`, `speaker`, `phone`, `wrong` are the book; `call` an accept across its awaits |
| `PolicyEngine` | `policy-engine.ts`, `pattern-matcher.ts`, `time-window.ts`, `agent-freeze.ts` | operators only |
| `LocalGate` | `local-gate.ts` and the layers under the rules; extends `PolicyEngine` | `rules`, `facts`, `now`, `allowances`, `session`; actions are what people, the workspace and time change; `ruled(r)` is the verdict |
| `Notice` | `unusual-notice.ts`, `unusual.ts`, `notice-store.ts`, `turn.ts`, the mode of `open-notice.ts` | `signals`, `seen` are the files, `seam` each process with the copies it read, `mode` what its config said when it opened, `asked` the calls it keeps for an answer |
| `PushCursor` | `push-cursor.ts`, `push.ts`'s choice of rows, the ledger's query | operators only |
| `Sync` | a pass (pull, push, reports, beat) in two processes; extends `PushCursor` | `cursor`, `account`, `config`, `files` are the machine's files, `pass` each process, `published`, `told`, `refused`, `got` the workspaces |
| `MC*` | | constants and symmetry for TLC |
| `*Proofs` | | theorems of the module named before it; `LeaseProofs` of `LeaseRegister`, `LeaseGate` and `ExclusiveLock`, `GateProofs` of `LocalGate` and `Notice`, `RemoteProofs` of `VoiceHold` too |

`LeaseRegister` uses an operation of a store as one step. That is what `ExclusiveLock` shows of
the mutex until a lock grows stale. The stores without a mutex (pending records, cards, the
registry, signals, the cursor) are modelled with their reads and writes apart.

Abstractions. A message, a path, a fingerprint or a person is a model value. A record is what
somebody acts on: a question is its answer, who gave it and whether it is parked or told. Times
are flags (a deadline passed, a lock is stale, a grace is over) or small counts of ticks.
Signatures are the device whose key they verify under. Line ranges are sets of lines. A
text a rule matches is a tuple of symbols, the dot among them, and a pattern is the texts between
its stars, which is how `compile()` cuts it; a star spans any symbols, dots included. Of a call a
process asked about, the order and the repetitions in `asked` are left out; which one is let go
when there are too many is any of the others. All held callers are tries of
one call in one session; all paths are in one repository. Which paths are protected, inside the
repository or quiet is a constant set. `resultOf` grants and counts a session yes in two
changes under the mutex; they are one step, since nothing reads the count of a granted subject.

History variables record what no file does (who said what, whether two handlers overlapped,
whether a write was lost), and only properties read them.

## 3. Runs

| Run | Instance | Shows |
|---|---|---|
| `lock` | 3 processes, 2 attempts, 1 fault | until a lock grows stale there is one writer and no lost update; a lock left behind is reclaimed |
| `held` | 2 tries side by side (one with a terminal) of a destructive call, 1 remote answer, parking, 1 death | one answer per question while it is there; nothing runs without a yes; a single yes passes the project boundary once; every hold and every answer ends |
| `held_serial` | 3 tries one after another, 2 remote answers, learning, no terminal | a single yes runs one call; the record decides |
| `register` | 2 sessions, 3 lease ids, a directory, a file of 3 lines and 2 declarations | only a take-over makes leases overlap; what is over stays over |
| `gate` | 2 sessions, a directory and a file of 2 lines in it, which another machine has now and then; 2 lease ids, 2 polls | writers are apart, of directories and parts of files alike; a refused claim leaves no lease it made; every claim ends |
| `chat` | 3 tries, 2 other hooks of the session, 1 answer from elsewhere, 2 milliseconds, 1 failing file operation or death | one question is open at a time; an answer is told once; the hooks implement `Consent`, so a "once" runs one call and nothing runs on an answer the agent filled in itself |
| `confirm` | 2 requests from the Mac and 1 phone, one of each 10 kinds of change that are handled differently, 1 fault | what is carried out was signed by a device that may; a card is acted on twice only by requests handled at the same time; a rule somebody was told is in place is; an answer stays |
| `remote` | 2 phones, connected or not, 2 requests, 1 change of the registry, 1 drop | a revoked phone acts no more; the counts behind the voice are true; the Mac keeps the voice once spoken to |
| `pairing` | 1 QR, 2 devices, 2 accepts, 2 tries of the digits, 1 fault | only the device that proved its keys is registered; a pairing has one end; everything begun ends |
| `rules` | every set of at most 2 of 17 rules, each there for one way of deciding, a star inside a segment and one across dots among them, 9 calls, 4 sessions, 3 facts, 1 allowance, days of 3 hours and weeks of 2 days | the index misses no rule; refusals and a workspace's question stand; publishing only tightens; a window is its hours |
| `notice` | 2 processes, each enforcing, observing or off, 3 things begun, a clock of 3, windows of 1, 2 calls kept for an answer, 1 failing write | a taint asks for its whole window; taking and then sending is noticed; what is new needs a yes of its own; in observe the call passes and its shadow says so |
| `sync` | the daemon and one command, 7 histories with their own share of 4 events, 2 reports, logins, revocations, publications, lost requests and deaths; 3 rows a post, 2 posts a report | no event is skipped; none is sent twice without a cause; none from before an enrolment; a bundle is applied whole; the ledger arrives |

Each property has a mutant in PROJECT.json: a definition changed the way a plausible slip in the
code would change it, under which the run finds the property violated. The type invariants
are proved, on their own or within the invariant of the module (section 4).

Properties that stop short of a comment in the code do so where the code does. The exception
is written into the property, by a history variable that names it, so that the rest is checked:

* `OneWriterUntilStale`, `NoLostUpdateUntilStale`: a crash leaves a lock, two waiters find it stale,
  and the slower `rm` removes the lock the faster has just made (`exclusive.ts:41`; "One writer
  at a time across processes", line 5).
* `OneAnswerWhileHeld` stops at `clear()`, which removes the claim before the record: an answer
  that read the question before is taken too, and writes the question back (`pending.ts:213`).
  `park()` writes back its copy and loses an answer that landed (`pending.ts:184`).
* `EachOnceRunsOneCall` and `RecordDecides` are about tries that follow one another with nobody
  at a terminal: side by side, two read one parked "once" (`routed-prompt.ts:108`), and a
  terminal answer decides though it lost the claim (`routed-prompt.ts:130`).
* `OnlyForceOverlaps` needs `NamesFollowLines`: `mergedRegion` drops a lease's names when it grows
  by a part without any (`region-overlap.ts:86`). What a take-over lands on is excepted (`forced`).
* `WritersApart` counts a session as writing by a lease that holds what it asked (`Holds`). The
  register may give it another: claiming a directory, which the shell does for what a command
  writes (`interceptors shell-seam.ts:317`, `coordination/writes.ts:48`), renews the session's lease on one file in it
  (`lease-store.ts:231`), and the session is told "taken" for the whole directory; and a lease
  may have lost its names, as above. Without `Holds` TLC finds two sessions in one file.
* `RefusedLeavesNothing` is about a lease the claim made. When the workspace refuses a claim that
  renewed a lease, the release takes what the session held before with it (`lease-gate.ts:228`).
  After a wait the workspace is not asked (`lease-gate.ts:303`), so a session that waited may
  write what another machine has; no property says it does not.
* `ImplementsConsent` is for hooks that follow one another, as a host runs them, and lets a
  "once" be used again after a file operation failed.
* `OneActsUnlessCrowded`, `ConfirmedRuleHolds`: `Proposals.answer` has no claim, so two requests
  handled at the same time both carry a card out (`proposals.ts:195`, whose comment is "First
  answer wins"), and two `mergeRules` lose one rule (`merge-rules.ts:24`). A card whose held call
  was denied meanwhile is told let through all the same (`applyHeldAnswer`).
* `RevokedActsNoMore`, `OneEnd`: a reader that brings the Mac's entry in line writes back what it
  read, and with it a device revoked since (`devices.ts:123`: `crossed`); `accept()` does not look
  at the pairing again after its awaits (`pairings.ts:202`: `raced`).
* `NoMatchIsFilteredOut`: a rule whose `actions` are exclusions only is filed under "!..." and is
  never a candidate. `RefusalsStand`, `WorkspaceAskStands`: hidden code's question replaces the
  rules' verdict, a deny or a freeze included, and an allowance may answer it. Containment's own
  refusals are not in `RefusalsStand`: strain is looked at first and asks in their place
  (`local-gate.ts:126`).
* `PublishingOnlyTightens`: containment looks only at what the rules allow, so a new ask lifts its
  refusal. Of two equally strict answers in the line of agents one stands alone, and whether the
  workspace asked is read off that one (`local-gate.ts:168`); so a new rule can put another
  question in the place of the workspace's, and an allowance answers that. It happens to a
  parent's question, when the agent gets one of its own; and to the agent's own, when a parent's
  answer comes to stand: a workspace allow had lifted it, or it is about hidden code. The last
  two were found where the proof of the property failed, and TLC then showed them. It is narrower
  than the comments: "a child never does what its parent may not" (`local-gate.ts:156`), and a
  workspace's ask is "the team's question, so a local allowance never answers it" (`local-gate.ts:302`), which
  `WorkspaceAskStands` therefore says of the agent that asks and not of those that started it.
* `TaintHolds`, `ChainIsNoticed`, `NewNeedsAYes` say of an enforcing process what the effect is,
  and of one that observes, the default, that the call passes and that its shadow is what enforce
  would have done (`unusual.ts:66`). A process whose notice is off looks at nothing
  (`unusual-notice.ts:103`). What passes in observe is learned, and so has gone ahead as far as
  `NewNeedsAYes` goes; and so has every call of a process that a yes covers, which is the one it
  names where the proxy, the egress seam or the interceptor passes it on
  (`proxy firewall-session.ts:273`, `interceptors egress-seam.ts:217`, `interceptor.ts:167`), and everything the
  process still keeps where a shell line or a prompt is answered (`shell-seam.ts:295`,
  `prompt-answers.ts:252`, both of `interceptors`). A call that was refused is kept, too.
* `TaintHolds`, `ChainIsNoticed`: signals are written without a lock, and a copy written over a
  taint loses it (`lost`; `notice-store.ts:102` says a lost write costs a question, here it
  costs one fewer). Lifting a taint also forgets the reads and the change outside; and where the
  rules already ask, the chain's refusal of a credential is not reached.
* `NothingSkipped`, `LedgerArrives`: the ledger's query gives the newest rows, so of a backlog
  larger than a post the oldest are passed over (`overfull`); a pass that crosses a logout and a
  login sends to the old workspace (`strayed`); `applyMode` and `markRevoked` write back an account
  that is gone (`revived`). `SentOnce`: a late event takes the cursor back past what it remembers
  as sent (`rewound`). `WholeBundle`: a death between the rename and the list or the conditions
  leaves rules unlisted that later pulls call unchanged, and two pulls share one staging
  file (`torn`). `Served` needs the daemon's loop, which ends on a revocation and is not started
  again in that daemon.

So some of the hazards in PROJECT.json are met only in part: their notes say what the code does
in the excepted part, and what the property shows of the rest.

Bounds, and why they are enough. Two waiters and one holder show every order of stat, rm and
mkdir, so three processes; one attempt less than the bound and the last one are both reached
with two. Two tries and one remote answer give every pair of actors on one question; the third
try is for a yes learned, or a "once" already used by the second. Two sessions and three lease
ids allow a holder, a taker-over and the record left behind. Two requests are what two people
can do to one card; two devices what can share a QR; two phones what can contend for the voice.
Two rules are what relaxing relates. A cursor needs an event before it, one at it, one behind
it and one more than a post takes. `MaxFaults`, `MaxCrashes`, `MaxDrops`, `MaxFails`, `MaxMs`, `MaxBegun`,
`MaxTime` and `Budgets` bound what the environment does; `ATTEMPTS`, `Attempts`, `MaxMinutes`, `DIGIT_TRIES`,
`TURN_AFTER_READS`, `MOST_ASKED_KEPT`, the windows, `OVERLAP`, `MAX_POST`, `HOURS_IN_A_DAY` and `DAYS_PER_WEEK` are the code's
own numbers, made small. The histories of `sync` are separate because together they exceed TLC;
each holds what meets in one property. Symmetry is used where the members are interchangeable
and no liveness is checked.

Deadlock is checked for the mutex and the register, which can always go on. It is not checked
elsewhere: calls, requests, pairings and histories are finite and end.

Fairness. In `ExclusiveLock` each live process keeps taking its next step, because its file
operations return and its timer fires, and time passes over a lock; no fault is ever owed.
In `HeldCalls` callers and answerers under way keep going and a hold's deadline comes, because
the loop compares with the clock; nobody owes an answer, except that the terminal's own clock
gives up. In `LeaseGate` a claim under way goes on; the clock need not advance, because the code
counts its polls for exactly that reason. In `Pairing` handlers go on from their awaits and the
timer of a pairing fires; no device and no person owes anything. In `Sync` the daemon begins
passes while its loop runs and a pass goes on; requests fail only as often as a history says.

## 4. Refinement and proofs

`ChatApproval` implements `Consent` (`ImplementsConsent`): the calls that ran, who they ran on and
what people said are mapped to themselves, and every other file operation is a stutter. TLC
checks it on a small instance; `ChatKeepsPromise` proves it for every instance in which the hooks
of a session follow one another, and `PromiseIsKept` says, from the promise alone, what that is
worth.

Proved with TLAPS for every value of the constants that satisfies the named assumptions in
the modules. Those assumptions give types to the constants, say that `None` (`Nobody` of
a lock, `Nothing` of a notice) is not one of the things it stands in for the lack of, and that
paths are ordered as in a tree: of two directories above one file, one is above the other. A
directory is asked for whole, because only one file is read for its parts (`git-region.ts:48`). What a theorem assumes beyond them is
in its statement and is named here.

* `LeaseProofs`, its last part: `LockTypeCorrect`, `LockExclusive`, `LockLosesNothing`. One writer is not
  inductive: nothing in it says who may remove the lock. `LockInv` adds that until the first
  lock grows stale nobody is about to reclaim, so whoever is between mkdir and rm made the
  lock that is there, and every copy about to be written is fresh. `CounterInv` bounds the
  counter inside the loop, hence every wait.
* `HeldCallsProofs`: `HeldTypeCorrect`, `HeldTakesOneAnswer`, `HeldFailsClosed`, `HeldRecordDecides`,
  `HeldOnceRunsOneCall`, `HeldOncePassesOneBoundary`. `HeldInv` is four parts: types at each place of
  the two programs (`TypeInv`); the claim of an uncleared question has exactly one creator
  (`ClaimInv`); an answer in a record, in a copy about to be written or in a caller's hands was
  said about that question by the thread named (`VoiceInv`); and grants and counted yeses come
  from such answers or from calls let run (`YesInv`). The last needs care: a learned grant counts
  calls, so the invariant relates the counter to callers already allowed. That a "once" runs one
  call is proved where the calls of a session do not overlap (`~Overlap`); that it passes one
  boundary, whether they do or not. Both count calls, so the threads are finitely many
  (`IsFiniteSet(Thread)`).
* `ChatApprovalProofs`: `ChatInvariant`, `OneQuestionAtATime`, `HeardAtMostOnce`, `ChatKeepsPromise`,
  `PromiseIsKept`, all under `Serial`: a chat starts its next hook when the last one ended. People's
  answers from elsewhere still interleave with every step of a hook. `ChatInv` has five layers:
  what a hook holds, that it is the only one, and that a picker the agent filled in answers nothing
  (`ControlOK`, `SerialInv`, `FilledInv`); every copy of an answer is what its giver said of that question
  (`VoiceInv`); the answer a call ran on is in no file and no hook's hands any more, until a file
  operation fails (`GoneInv`); where a question may be written unanswered, no other is open
  (`QuestionInv`); an answer about to be told was not heard (`ToldInv`). The refinement needs the
  second and the third: a call runs on a yes, and no second one on the same.
* `LeaseProofs`: `RegisterTypeCorrect`, `RegisterKeepsApart`, `OverIsFinal` of the register, `GateInvariant`,
  `GateKeepsWritersApart`, `RefusalLeavesNothing` of the gate over it. Keeping apart needs, besides itself,
  that the names and lines of a lease come from places claimed (`LeasesFollowLines`), so that
  merging two regions of a session cannot meet what neither met (`GrownMeets`). It is proved under
  `NamesFollowLines`, which holds while nobody moves the lines of another session's declarations.
  Writers are apart because their leases are: a lease on a directory is of the whole of it
  (`LeasesWhole`, which renewing and merging keep); what a session was told to write is covered by
  the lease it was given, while that is in force and on the same path (`WritingOK`); and a slot
  kept for a take-over is nobody else's (`ForcingOK`). A lease above the path covers it because it
  is whole, and two leases that cover places that meet do meet, which is where the paths have to
  be a tree (`CoversMeet`). These hold of directories and files alike; what a renewal leaves
  uncovered is in the property (`Holds`), not in a hypothesis. That a refusal leaves nothing rests
  on `MadeOK`: only a claim still to be confirmed has made a lease, and that is the one it would give
  back.
* `ConfirmProofs`: `ConfirmInvariant`, `NothingUnsigned`, `OnceUnlessCrowded`, `ToldRuleIsThere`,
  `CardStaysAnswered`. That a yes was signed is known where `consentFor` lets a request past and used
  where the change is carried out, with the file operations of others between. `YesInv` carries
  the reason along; it rests on authority only shrinking (`AuthorityInv`), on the copies of the held
  call agreeing about its session (`WithinInv`) and on the card still being about the change
  consented to (`CardInv`). For acting once, what a request acted on is extended to what it is about
  to act on (`ActInv`): whoever reads an unanswered card excludes those further on (`AnsweredInv`), and
  the rest are still under way, hence crowded (`AloneInv`). `RuleInv` follows a merged rule through
  every copy about to be written.
* `PairingProofs`: `PairingInvariant`, `OnlyProvedKeysRegister`, `EachPairingOneEnd`. Once a device
  answered, the handshake is over and its speaker stays; accepts, entries and the copies a handler
  holds across an await carry that device (`KeysInv`). While an unraced accept is in flight its
  pairing is still answered and no other accept of it is, and an entry of a pairing still answered
  is that of the one accept past its write (`EndInv`).
* `RemoteProofs`: `RemoteTypeCorrect`, `RevokedIsOut`, `CountsAreTrue`, `MacKeepsIt`. The registry keeps a
  revoke from its write on, and the write precedes the answer that makes a request late
  (`RevokedInv`). The counts are right also of a phone the hold does not know yet, which counts as
  nothing (`CountInv`; `IsFiniteSet(Request)`, since they are counts). The Mac keeps the voice because
  every phone the hold knows has yielded (`VoiceInv`).
* `SyncProofs`: `SyncInvariant`, `NoneSkipped`, `SentTwiceHasACause`, `FloorHolds`, `BundleIsWhole`.
  Every step is first shown to be of one of a few kinds, and `CoreInv` to be kept: types, whose
  account a copy is, times, ids, what a batch and a copy of the cursor hold. Then one invariant each. `SkipInv`: no copy of
  the cursor and no merge under way is past an unsent event; it holds because a batch is a
  beginning of what is fresh, because an event stamped before the cursor moved is appended within
  `OVERLAP` of it, and because the last enrolment is the latest. `OnceInv`: what arrived is behind
  the cursor or in the hands of the one pass under way. `GotInv`: what arrived is of an event after
  the enrolment. `WholeInv`: the files are as far as the pull that is alone in them.
* `GateProofs`: `GateTypeCorrect`, `IndexMissesNothing`, `RefusalsAreFinal`, `WorkspaceIsAsked`,
  `WindowsAreTheirHours`, `MoreRulesOnlyTighten` of the local gate. The verdict is a function of the
  state, so the invariant (`GateInv`) is the state's shape and the work is in lemmas about the
  operators: the index hands over whatever matches (`IndexHandsOver`: a pattern whose first star
  comes after its first dot begins, before that dot, as whatever it matches does); of the line of agents the
  first of the strictest answers stands (`SomebodyStands`); neither layers nor allowances undo a
  refusal (`LayersKeepRefusals`); a rule that relaxes nothing keeps all that decided before
  (`MoreDecide`); quotients and remainders are what they are divided into (`DividesOneWay`), on
  which the windows rest for any length of day and week.
* `GateProofs`, second part: `NoticeTypeCorrect`, `SuspicionHolds`, `ExfiltrationIsNoticed`,
  `FirstTimesAreAsked` of `Notice`, for any number of processes. `NoticeInv`: until a write is lost,
  the session's file says what was taken and until when suspicion stands, or that this time has
  passed (`FileTells`); and what is known, in the file or in a process's hands, did go ahead. A
  copy in hand is stale at will, so the properties rest on the one file each look reads last. The
  theorems say what a look answers in enforce and what it says in observe (`NoticesGo`).

A proof that failed also corrected the model: guards of a `CASE` that overlap are an arbitrary
choice in TLA+, where the code's `if`s are in order. Such guards are now disjoint or an `IF`.

Every invariant and every action property of a passing run is so proved. Only
model-checked are the liveness properties (`CrashNeverWedges`, `EveryHoldEnds`, `EveryClaimEnds`,
`EveryPairingEnds`, `LedgerArrives`), since fairness and `ENABLED` are beyond the prover. Theorems
that need a hypothesis on the inputs have it in their statement, as above: `Serial`, `~Overlap`,
`NamesFollowLines`. The hooks of a chat are neither checked nor proved
about where they overlap. No property here is about a recursively defined operator.

## 5. Not modelled

PROJECT.json lists every part with its reason. In the modelled parts: a record that will not
parse (read as absent); the text of refusals, cards and rows; how a region is read off a diff;
pid reuse; two checkouts of one project, and old records without `project`; the workspace's own
register, which appears as paths another machine has now and then; the Noise channel, of which a
handshake is who spoke and whether it proved its keys; parsing of policy files, overlays and
conditions; the sync of memory, approvals and spend; two changes of the allowances' file at once.
Smaller things left out where they are modelled: bringing the Mac's entry in line as a pairing
begins, which reads and may write the registry (`pairings.ts:93`, `devices.ts:123`), as it does
elsewhere in `Pairing`; that two tries held in one millisecond share an id in `HeldCalls`
(`pending.ts:77`; `ChatApproval` has it); a death in a hook's pause, and a file operation that
fails at its second ask or at the grant, in `ChatApproval`; that the cursor remembers only so many
of the events it sent (`push.ts:156`), and that a batch of none from no cursor leaves the field
out where the model writes 0 (`push.ts:188`), in `PushCursor`.
Most of the repository's lines are outside: tables of verbs and classifiers, prompts and
screens, scanners for other tools' configurations, adapters for agents and editors, and native
code, which are data, text or I/O with no state a model would add to.

## 6. Plan

1. Done: the mutex, held calls and grants, leases and their gate; chat approval and `Consent`;
   confirmation; pairing, devices, remote sessions and the voice; rules and the local gate;
   notices; the sync.
2. Next to model: `FirewallSession` (the MCP proxy's calls in flight and its limits), the relay
   link's reconnects, the breaker and the budget as counters across processes, missions and
   watches, record retention beside the stores it prunes, the protection stop.
3. Next to prove: what the chat still promises where hooks overlap (first a run without
   `Serial`); and whatever is modelled next.
