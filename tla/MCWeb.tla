-------------------------------- MODULE MCWeb --------------------------------
(***************************************************************************)
(* The parts a script meets that share no state with one another:          *)
(* `subject' is the one a behaviour is about.  The configuration gives     *)
(* them small instances; the theorems, about the policy, the timers,       *)
(* aborts and events, and the keys, hold for every value of the constants. *)
(***************************************************************************)
EXTENDS Permissions, FiniteSets, MCListeners, TLAPS

CONSTANTS
    None,
    MaxTimers, MaxTime, Delays,                 \* of Timers
    Suites, Given, MaxKeys, MaxMade, MaxSeen    \* of CryptoKeys

\* s1 to s7, of MCListeners, are the state of the other parts in turn.
VARIABLE subject

slots == <<s1, s2, s3, s4, s5, s6, s7>>
allVars == <<subject, vars, slots>>

-----------------------------------------------------------------------------
(* Two kinds of permission: hosts, with a wildcard and a port, and paths,  *)
(* one of them a link into the other.                                      *)

MCKinds == {"net", "read"}

Net(host, port) == [kind |-> "net", host |-> host, port |-> port]
Path(lexical, resolved) == [kind |-> "read", lexical |-> lexical, resolved |-> resolved]

MCRulesOf(kind) ==
    IF kind = "net"
    THEN {Net(<<"com", "*">>, 80), Net(<<"com", "a">>, AnyPort), Net(<<"com", "a", "*">>, AnyPort)}
    ELSE {Path(<<"tmp">>, <<"tmp">>), Path(<<"tmp", "link">>, <<"data">>)}

MCResources ==
    {Net(<<"com">>, 80), Net(<<"com", "a">>, 80), Net(<<"com", "a">>, 443),
     Net(<<"com", "a", "b">>, 443), Net(<<"org", "a">>, 80)}
      \union {Path(<<"tmp", "x">>, <<"tmp", "x">>), Path(<<"tmp", "link", "x">>, <<"data", "x">>)}

MCCovers(rule, x) ==
    rule.kind = x.kind /\ IF rule.kind = "net" THEN NetCovers(rule, x) ELSE PathCovers(rule, x)

\* A path rule covers another as it would a path.
MCSubsumes(rule, other) ==
    rule.kind = other.kind
      /\ IF rule.kind = "net" THEN NetSubsumes(rule, other) ELSE PathCovers(rule, other)

All == [all |-> TRUE, only |-> {}, deny |-> {}]
Pair == {Net(<<"com", "*">>, 80), Net(<<"com", "a">>, AnyPort)}
GrantsOf(kind) ==
    {All} \union {[all |-> FALSE, only |-> rules, deny |-> {}] :
                     rules \in {Pair} \union {{rule} : rule \in MCRulesOf(kind)}}

MCPolicies ==
    {[net |-> grant, read |-> All] : grant \in GrantsOf("net")}
      \union {[net |-> All, read |-> [All EXCEPT !.all = FALSE, !.only = {rule}]] :
                 rule \in MCRulesOf("read")}

-----------------------------------------------------------------------------
(* Views of two-byte elements and of bytes; buffers of two bytes, or none,  *)
(* for default readers.                                                    *)

View(len, elem) == [len |-> len, elem |-> elem, min |-> elem]

Bytes == INSTANCE ByteStream WITH
    MaxBytes <- 4, ChunkSizes <- {1, 3}, Views <- {View(4, 2), View(2, 1)},
    MaxReads <- 3, MaxReaders <- 2, HighWaterMarks <- {0}, AutoSizes <- {0, 2},
    b <- s1, start <- s2, pull <- s3, made <- s4, asked <- s5, readers <- s6, overtaken <- s7

\* Reads into two bytes, of a byte array and of an array of elements of two bytes.
Branches == INSTANCE ByteTee WITH
    MaxBytes <- 3, ChunkSizes <- {1, 2}, MaxReads <- 1, AutoSizes <- {2},
    Views <- {[len |-> 2, elem |-> n, min |-> n] : n \in {1, 2}},
    tee <- s1, made <- s2, issued <- s3

-----------------------------------------------------------------------------
Timeouts == INSTANCE Timers WITH
    timers <- s1, now <- s2, nesting <- s3, current <- s4

-----------------------------------------------------------------------------
(* Keys: what can be wrapped and by whom, derived and from what, or only   *)
(* exported and imported; 32 bytes a script came by.                       *)

MCSuites ==
    {{"AES-KW", "ECDH"}, {"RSA-OAEP", "HMAC"}, {"HKDF", "X25519"}, {"ChaCha20-Poly1305"},
     {"Ed25519"}, {"ML-DSA-44"}, {"ML-KEM-768"}, {"MLKEM768-P256"}}

MCGiven ==
    {[form |-> "bytes", type |-> "none", kind |-> "none", shape |-> "32",
      ops |-> {}, mat |-> <<0, "secret">>]}

Keys == INSTANCE CryptoKeys WITH
    suite <- s1, keys <- s2, plain <- s3, wrapped <- s4, made <- s5, sealed <- s6

-----------------------------------------------------------------------------
(* What the proofs ask of the parts' constants *)

\* Delays are u64 milliseconds (set_timeout_interval).
ASSUME DelaysAssumption == Delays \subseteq Nat

\* Names are of the algorithms there are; what a script has of other libraries are
\* encodings, not of keys made here.
ASSUME KeysAssumption ==
    /\ \A s \in Suites : s \subseteq Keys!Names
    /\ \A enc \in Given :
          Keys!IsEncoding(enc) /\ enc.mat \in {0} \X {"secret", "public", "derived"}

-----------------------------------------------------------------------------
(* A part that a behaviour is not about stays in one state. *)

APolicy == [kind \in MCKinds |-> All]

SlotsUnused ==
    /\ s1 = None /\ s2 = None /\ s3 = None /\ s4 = None /\ s5 = None
    /\ s6 = None /\ s7 = None

MCInit ==
    /\ Init
    /\ \/ subject = "permissions" /\ SlotsUnused
       \/ policy = APolicy /\ subject = "bytes" /\ Bytes!Init
       \/ policy = APolicy /\ subject = "byte tee" /\ Branches!Init
            /\ s4 = None /\ s5 = None /\ s6 = None /\ s7 = None
       \/ policy = APolicy /\ subject = "timers" /\ Timeouts!Init
            /\ s5 = None /\ s6 = None /\ s7 = None
       \/ policy = APolicy /\ subject = "keys" /\ Keys!Init
            /\ s7 = None
       \/ policy = APolicy /\ subject = "abort" /\ Aborts!Init
       \/ policy = APolicy /\ subject = "emitters" /\ Emitter!Init
            /\ s7 = None

PermissionsStep == subject = "permissions" /\ Next /\ UNCHANGED <<subject, slots>>
BytesStep ==
    subject = "bytes" /\ Bytes!Next /\ UNCHANGED <<subject, vars>>
ByteTeeStep ==
    subject = "byte tee" /\ Branches!Next /\ UNCHANGED <<subject, vars, s4, s5, s6, s7>>
TimersStep ==
    subject = "timers" /\ Timeouts!Next /\ UNCHANGED <<subject, vars, s5, s6, s7>>
AbortsStep ==
    subject = "abort" /\ Aborts!Next /\ UNCHANGED <<subject, vars>>
EmittersStep ==
    subject = "emitters" /\ Emitter!Next /\ UNCHANGED <<subject, vars, s7>>
KeysStep ==
    subject = "keys" /\ Keys!Next /\ UNCHANGED <<subject, vars, s7>>

MCNext ==
    \/ PermissionsStep \/ BytesStep \/ ByteTeeStep \/ TimersStep \/ AbortsStep \/ EmittersStep \/ KeysStep

MCSpec == MCInit /\ [][MCNext]_allVars

-----------------------------------------------------------------------------
(* Properties, each stated in its subject's module *)

\* Bytes reach the reads they are for, of both branches of a tee (byte_controller.rs, tee.rs).
BytesReachTheirReads ==
    /\ subject = "bytes" => Bytes!BytesReachTheirReads
    /\ subject = "byte tee" => Branches!ByteTeeIsFair

\* Timers fire when they should, and not in bursts (timers.rs).
TimersKeepTime == subject = "timers" => Timeouts!TimersKeepTime

\* Listeners hear of an abort, and of one, and of every event they listen for
\* (abort_signal.rs, events/mod.rs).
AbortsAreHeard ==
    /\ subject = "abort" => Aborts!AbortsAreHeard
    /\ subject = "emitters" => Emitter!EmittersAreTrue

\* Keys are what they say, and what is not extractable stays in them (crypto/subtle).
KeysAreSound == subject = "keys" => Keys!KeysAreSound

\* "ReadableStreamFulfillReadRequest called with empty readRequests" never comes
\* up: it does, once a default reader's buffer outlives its read.
ReadRequestIsThere == subject = "bytes" => Bytes!NeverStuck

-----------------------------------------------------------------------------
(* The policy only ever narrows, and dropping a kind leaves the others     *)
(* alone (Permissions).                                                    *)

\* Intersecting grants gives a grant.
LEMMA IntersectType ==
    ASSUME NEW p \in Grant, NEW q \in Grant
    PROVE  Intersect(p, q) \in Grant
BY DEF Intersect, Grant, Kept

\* A resource the intersection grants, both sides grant: whatever `subsumes' is,
\* as long as it is sound (intersect_with).
LEMMA IntersectIsNoWider ==
    ASSUME NEW p \in Grant, NEW q \in Grant, NEW x \in Resources,
           Granted(Intersect(p, q), x)
    PROVE  Granted(p, x) /\ Granted(q, x)
<1> DEFINE both == Intersect(p, q)
<1>1. \A rule \in p.deny \union q.deny : ~Covers(rule, x)
  BY DEF Granted, Intersect
<1>2. CASE p.all /\ q.all
  BY <1>1, <1>2 DEF Granted
<1>3. CASE p.all /\ ~q.all
  BY <1>1, <1>3 DEF Granted, Intersect
<1>4. CASE ~p.all /\ q.all
  BY <1>1, <1>4 DEF Granted, Intersect
<1>5. CASE ~p.all /\ ~q.all
  <2>1. PICK e \in Kept(p.only, q.only) \union Kept(q.only, p.only) : Covers(e, x)
    BY <1>5 DEF Granted, Intersect
  <2>2. /\ \E rule \in p.only : Covers(rule, x)
        /\ \E rule \in q.only : Covers(rule, x)
    BY <2>1, SubsumesAssumption DEF Kept, Grant
  <2> QED
    BY <1>1, <2>2 DEF Granted
<1> QED
  BY <1>2, <1>3, <1>4, <1>5 DEF Grant

\* A grant within another keeps all its own resources when intersected with it.
LEMMA IntersectKeeps ==
    ASSUME NEW p \in Grant, NEW q \in Grant, Within(p, q),
           NEW x \in Resources, Granted(p, x)
    PROVE  Granted(Intersect(p, q), x)
<1>1. Intersect(p, q).deny = p.deny
  BY DEF Intersect, Within
<1>2. CASE p.all
  BY <1>1, <1>2 DEF Granted, Intersect, Within
<1>3. CASE ~p.all /\ q.all
  BY <1>1, <1>3 DEF Granted, Intersect, Within
<1>4. CASE ~p.all /\ ~q.all
  <2>1. PICK e \in p.only : Covers(e, x)
    BY <1>4 DEF Granted
  <2>2. e \in Kept(p.only, q.only)
    BY <1>4, <2>1 DEF Kept, Within
  <2> QED
    BY <1>1, <1>4, <2>1, <2>2 DEF Granted, Intersect
<1> QED
  BY <1>2, <1>3, <1>4 DEF Grant

\* What narrows a grant keeps it within what it was within.
LEMMA IntersectStaysWithin ==
    ASSUME NEW p \in Grant, NEW q \in Grant, NEW w \in Grant, Within(p, w)
    PROVE  Within(Intersect(p, q), w)
<1> DEFINE both == Intersect(p, q)
<1>1. w.deny \subseteq both.deny
  BY DEF Intersect, Within
<1>2. CASE w.all
  BY <1>1, <1>2 DEF Within
<1>3. CASE ~w.all
  <2>1. ~p.all /\ \A e \in p.only : \E rule \in w.only : Subsumes(rule, e)
    BY <1>3 DEF Within
  <2>2. ~both.all
    BY <2>1 DEF Intersect
  <2>3. ASSUME NEW e \in both.only PROVE \E rule \in w.only : Subsumes(rule, e)
    <3>1. e \in p.only \/ \E rule \in p.only : Subsumes(rule, e) /\ e \in q.only
      BY <2>1 DEF Intersect, Kept
    <3> QED
      BY <3>1, <2>1, SubsumesAssumption DEF Grant
  <2> QED
    BY <1>1, <2>2, <2>3 DEF Within
<1> QED
  BY <1>2, <1>3

\* Every grant is within itself.
LEMMA WithinItself ==
    ASSUME NEW p \in Grant
    PROVE  Within(p, p)
BY SubsumesAssumption DEF Within, Grant

-----------------------------------------------------------------------------
(* The inductive invariant *)

LEMMA InitIInv == Init => IInv
<1> SUFFICES ASSUME Init PROVE IInv
  OBVIOUS
<1>1. policy \in [Kinds -> Grant]
  BY PoliciesAssumption DEF Init
<1> QED
  BY <1>1, WithinItself, NoKindAssumption DEF Init, IInv, PolicyTypeOK, CopyIsOlder

\* Revoking to any remaining policy.
LEMMA RevokeIInv ==
    ASSUME IInv, NEW remaining \in Policies, Revoke(remaining)
    PROVE  IInv'
<1>1. remaining \in [Kinds -> Grant]
  BY PoliciesAssumption
<1>2. policy' \in [Kinds -> Grant]
  BY <1>1, IntersectType DEF Revoke, IntersectAll, IInv, PolicyTypeOK
<1>3. ASSUME NEW kind \in Kinds, kind # dropping PROVE Within(policy'[kind], copy[kind])
  BY <1>1, <1>3, IntersectStaysWithin DEF Revoke, IntersectAll, IInv, PolicyTypeOK, CopyIsOlder
<1> QED
  BY <1>2, <1>3 DEF Revoke, IInv, PolicyTypeOK, CopyIsOlder

LEMMA DenyIInv ==
    ASSUME IInv, NEW kind \in Kinds, NEW rule \in RulesOf(kind), Deny(kind, rule)
    PROVE  IInv'
<1>1. policy' \in [Kinds -> Grant]
  BY DEF Deny, IInv, PolicyTypeOK, Grant, Rules
<1>2. ASSUME NEW k \in Kinds, k # dropping PROVE Within(policy'[k], copy[k])
  <2>1. Within(policy[k], copy[k])
    BY <1>2 DEF IInv, CopyIsOlder
  <2>2. /\ policy[k].deny \subseteq policy'[k].deny
        /\ policy'[k].all = policy[k].all
        /\ policy'[k].only = policy[k].only
    BY DEF Deny, IInv, PolicyTypeOK, Grant
  <2> QED
    BY <2>1, <2>2 DEF Within
<1> QED
  BY <1>1, <1>2 DEF Deny, IInv, PolicyTypeOK, CopyIsOlder

LEMMA DropCopiesIInv ==
    ASSUME IInv, NEW kind \in Kinds, DropCopies(kind)
    PROVE  IInv'
<1>1. copy' \in [Kinds -> Grant]
  BY DEF DropCopies, IInv, PolicyTypeOK, Grant
<1>2. ASSUME NEW k \in Kinds, k # kind PROVE Within(policy[k], copy'[k])
  BY <1>2, WithinItself DEF DropCopies, IInv, PolicyTypeOK
<1>3. copy'[kind].all = FALSE /\ copy'[kind].only = {}
  BY DEF DropCopies, IInv, PolicyTypeOK, Grant
<1> QED
  BY <1>1, <1>2, <1>3 DEF DropCopies, IInv, PolicyTypeOK, CopyIsOlder

LEMMA DropRevokesIInv == ASSUME IInv, DropRevokes PROVE IInv'
<1>1. policy' \in [Kinds -> Grant]
  BY IntersectType DEF DropRevokes, IntersectAll, IInv, PolicyTypeOK
<1> QED
  BY <1>1, WithinItself, NoKindAssumption DEF DropRevokes, IInv, PolicyTypeOK, CopyIsOlder

LEMMA NextIInv == IInv /\ [Next]_vars => IInv'
<1> SUFFICES ASSUME IInv, [Next]_vars PROVE IInv'
  OBVIOUS
<1>1. CASE UNCHANGED vars
  BY <1>1 DEF vars, IInv, PolicyTypeOK, CopyIsOlder
<1>2. CASE Next
  BY <1>2, RevokeIInv, DenyIInv, DropCopiesIInv, DropRevokesIInv DEF Next
<1> QED
  BY <1>1, <1>2

\* The types of the policy and of the copy drop() makes, and how the two relate.
THEOREM IInvCorrect == Spec => []IInv
BY InitIInv, NextIInv, PTL DEF Spec

-----------------------------------------------------------------------------
(* What holds of every realm *)

\* Container::revoke, Container::deny and drop() narrow.
LEMMA StepsNarrow == ASSUME IInv, Next PROVE NeverWidened
<1> SUFFICES ASSUME NEW kind \in Kinds, NEW x \in Resources, Granted(policy'[kind], x)
             PROVE  Granted(policy[kind], x)
  BY DEF NeverWidened
<1>1. ASSUME NEW remaining \in Policies, Revoke(remaining) PROVE Granted(policy[kind], x)
  BY <1>1, IntersectIsNoWider, PoliciesAssumption
     DEF Revoke, IntersectAll, IInv, PolicyTypeOK
<1>2. ASSUME NEW k \in Kinds, NEW rule \in RulesOf(k), Deny(k, rule) PROVE Granted(policy[kind], x)
  <2>1. /\ policy[kind].deny \subseteq policy'[kind].deny
        /\ policy'[kind].all = policy[kind].all
        /\ policy'[kind].only = policy[kind].only
    BY <1>2 DEF Deny, IInv, PolicyTypeOK, Grant
  <2> QED
    BY <2>1 DEF Granted
<1>3. ASSUME NEW k \in Kinds, DropCopies(k) PROVE Granted(policy[kind], x)
  BY <1>3 DEF DropCopies
<1>4. ASSUME DropRevokes PROVE Granted(policy[kind], x)
  BY <1>4, IntersectIsNoWider DEF DropRevokes, IntersectAll, IInv, PolicyTypeOK, CopyIsOlder
<1> QED
  BY <1>1, <1>2, <1>3, <1>4 DEF Next

\* What drop() of a kind revokes to still grants all that the other kinds do.
LEMMA DropIsExact == ASSUME IInv PROVE DropKeepsTheRest
<1> SUFFICES ASSUME DropRevokes, NEW kind \in Kinds, NEW x \in Resources
             PROVE  Granted(policy'[kind], x) <=> kind # dropping /\ Granted(policy[kind], x)
  BY DEF DropKeepsTheRest
<1>1. policy'[kind] = Intersect(policy[kind], copy[kind])
  BY DEF DropRevokes, IntersectAll
<1>2. policy[kind] \in Grant /\ copy[kind] \in Grant
  BY DEF IInv, PolicyTypeOK
<1>3. CASE kind = dropping
  <2>1. ~Granted(copy[kind], x)
    BY <1>3 DEF IInv, CopyIsOlder, Granted
  <2> QED
    BY <1>1, <1>2, <1>3, <2>1, IntersectIsNoWider
<1>4. CASE kind # dropping
  BY <1>1, <1>2, <1>4, IntersectIsNoWider, IntersectKeeps DEF IInv, CopyIsOlder
<1> QED
  BY <1>3, <1>4

\* "The policy can only ever get narrower" (Container), and drop() of one kind is
\* exact, for any kinds, rules and resources with a sound, transitive `subsumes'.
THEOREM PolicyNarrows == Spec => PolicyOnlyNarrows
<1>1. IInv /\ [Next]_vars => [NeverWidened /\ DropKeepsTheRest]_vars
  BY StepsNarrow, DropIsExact
<1> QED
  BY <1>1, IInvCorrect, PTL DEF Spec, PolicyOnlyNarrows

-----------------------------------------------------------------------------
(* Timers *)

LEMMA TimersInit == Timeouts!Init => Timeouts!IInv
  BY DEF Timeouts!Init, Timeouts!IInv, Timeouts!TypeOK, Timeouts!CurrentRuns, Timeouts!NestingIsTheCallbacks

LEMMA TimerFields ==
  ASSUME NEW timer \in Timeouts!Timer
  PROVE  /\ timer.interval \in BOOLEAN /\ timer.requested \in Nat /\ timer.level \in Nat
         /\ timer.depth \in Nat /\ timer.root \in Nat /\ timer.armed \in Nat
         /\ timer.phase \in {"spawned", "waiting", "running", "done"} /\ timer.next \in Nat
         /\ timer.cleared \in {"no", "spawned", "waiting", "running"}
         /\ timer.ended \in Nat /\ timer.after \in Nat
  BY DEF Timeouts!Timer

LEMMA DoneIsDone ==
  ASSUME NEW timer \in Timeouts!Timer, NEW time \in Nat, Timeouts!Quiet(timer)
  PROVE  /\ Timeouts!Done(timer) \in Timeouts!Timer /\ Timeouts!Done(timer).phase = "done"
         /\ Timeouts!OnTime(Timeouts!Done(timer), time) /\ Timeouts!Quiet(Timeouts!Done(timer))
<1> DEFINE new == Timeouts!Done(timer)
<1>1. /\ new \in Timeouts!Timer /\ new.phase = "done" /\ new.root = 0 /\ new.armed = 0 /\ new.ended = 0
      /\ new.after = timer.after /\ new.cleared = timer.cleared
  BY DEF Timeouts!Done, Timeouts!Timer
<1> HIDE DEF new
<1>2. Timeouts!OnTime(new, time) BY <1>1 DEF Timeouts!OnTime
<1>3. Timeouts!Quiet(new) BY <1>1 DEF Timeouts!Quiet
<1> QED BY <1>1, <1>2, <1>3 DEF new

LEMMA WaitingFields ==
  ASSUME NEW timer \in Timeouts!Timer, NEW next \in Nat, timer.cleared = "no"
  PROVE  /\ Timeouts!Waiting(timer, next) \in Timeouts!Timer
         /\ Timeouts!Waiting(timer, next).phase = "waiting" /\ Timeouts!Waiting(timer, next).next = next
         /\ Timeouts!Waiting(timer, next).requested = timer.requested
         /\ Timeouts!Waiting(timer, next).level = timer.level /\ Timeouts!Waiting(timer, next).depth = timer.depth
         /\ Timeouts!Waiting(timer, next).root = timer.root /\ Timeouts!Waiting(timer, next).armed = timer.armed
         /\ Timeouts!Waiting(timer, next).cleared = timer.cleared /\ Timeouts!Waiting(timer, next).ended = timer.ended
         /\ Timeouts!Waiting(timer, next).after = timer.after
  BY DEF Timeouts!Waiting, Timeouts!Timer

\* The level of a timer that is to wait is one more than that of the callback it is
\* armed in, and so is its place in its chain: the clamp is that chain's 4 ms.
LEMMA WaitsOnTime ==
  ASSUME NEW timer \in Timeouts!Timer, NEW next \in Nat, NEW time \in Nat, timer.after = 0,
         timer.root <= timer.armed, timer.armed <= time, timer.ended <= time,
         timer.depth = timer.level, next >= timer.armed + timer.requested,
         timer.depth > Timeouts!MaxFreeNesting
            => next >= timer.root + 4 * (timer.depth - Timeouts!MaxFreeNesting),
         timer.requested > 0 /\ timer.ended > 0 => next > timer.ended, timer.cleared = "no"
  PROVE  /\ Timeouts!Waiting(timer, next) \in Timeouts!Timer /\ Timeouts!Waiting(timer, next).phase = "waiting"
         /\ Timeouts!OnTime(Timeouts!Waiting(timer, next), time) /\ Timeouts!Quiet(Timeouts!Waiting(timer, next))
<1> DEFINE new == Timeouts!Waiting(timer, next)
<1>1. /\ new \in Timeouts!Timer /\ new.phase = "waiting" /\ new.next = next /\ new.requested = timer.requested
      /\ new.level = timer.level /\ new.depth = timer.depth /\ new.root = timer.root
      /\ new.armed = timer.armed /\ new.cleared = timer.cleared /\ new.ended = timer.ended
      /\ new.after = timer.after
  BY WaitingFields
<1> HIDE DEF new
<1>2. Timeouts!OnTime(new, time) BY <1>1 DEF Timeouts!OnTime
<1>3. Timeouts!Quiet(new) BY <1>1 DEF Timeouts!Quiet
<1> QED BY <1>1, <1>2, <1>3 DEF new

LEMMA TimersImpl == Timeouts!IInv => Timeouts!TimersKeepTime
<1> SUFFICES ASSUME Timeouts!IInv PROVE Timeouts!TimersKeepTime OBVIOUS
<1>1. ASSUME NEW i \in DOMAIN s1 PROVE s1[i] \in Timeouts!Timer /\ Timeouts!OnTime(s1[i], s2) /\ Timeouts!Quiet(s1[i])
  BY <1>1 DEF Timeouts!IInv, Timeouts!TypeOK
<1>2. Timeouts!ChainsAreSlowed
  <2> SUFFICES ASSUME NEW i \in DOMAIN s1, s1[i].phase = "running"
               PROVE  /\ s2 >= s1[i].armed + s1[i].requested
                      /\ s1[i].depth > Timeouts!MaxFreeNesting
                          => s2 >= s1[i].root + 4 * (s1[i].depth - Timeouts!MaxFreeNesting)
    BY DEF Timeouts!ChainsAreSlowed
  <2>1. s1[i] \in Timeouts!Timer /\ Timeouts!OnTime(s1[i], s2) /\ s2 \in Nat BY <1>1 DEF Timeouts!IInv,
        Timeouts!TypeOK
  <2> DEFINE timer == s1[i]
  <2> HIDE DEF timer
  <2>2. timer.phase = "running" BY DEF timer
  <2>3. timer \in Timeouts!Timer /\ Timeouts!OnTime(timer, s2) BY <2>1 DEF timer
  <2>4. /\ s2 >= timer.armed + timer.requested
        /\ timer.depth > Timeouts!MaxFreeNesting => s2 >= timer.root + 4 * (timer.depth - Timeouts!MaxFreeNesting)
    BY <2>1, <2>2, <2>3, TimerFields DEF Timeouts!OnTime, Timeouts!MaxFreeNesting
  <2> QED BY <2>4 DEF timer
<1>3. Timeouts!NoBurst
  BY <1>1, TimerFields DEF Timeouts!NoBurst, Timeouts!OnTime, Timeouts!IInv, Timeouts!TypeOK
<1>4. Timeouts!ClearedIsQuiet
  BY <1>1 DEF Timeouts!ClearedIsQuiet, Timeouts!Quiet
<1> QED BY <1>2, <1>3, <1>4 DEF Timeouts!TimersKeepTime, Timeouts!IInv

(* One step per action. *)
\* What an action leaves in place of one timer.
LEMMA OneTimer ==
  ASSUME Timeouts!IInv, NEW i \in DOMAIN s1, NEW timer \in Timeouts!Timer,
         s1' = [s1 EXCEPT ![i] = timer], s2' = s2,
         s3' \in Nat, s4' \in Nat,
         Timeouts!OnTime(timer, s2), Timeouts!Quiet(timer),
         \/ /\ s4' = s4 /\ s3' = s3
            /\ timer.phase = "running" <=> i = s4
            /\ i = s4 => timer.level = s1[i].level
         \/ /\ s4 = 0 /\ s4' = i /\ timer.phase = "running" /\ s3' = timer.level
         \/ /\ s4 = i /\ s4' = 0 /\ timer.phase # "running" /\ s3' = 0
  PROVE  Timeouts!IInv'
<1>1. /\ s1' \in Seq(Timeouts!Timer) /\ DOMAIN s1' = DOMAIN s1
      /\ s1'[i] = timer /\ \A j \in DOMAIN s1 : j # i => s1'[j] = s1[j]
  BY DEF Timeouts!IInv, Timeouts!TypeOK
<1>2. Timeouts!TypeOK' BY <1>1 DEF Timeouts!IInv, Timeouts!TypeOK
<1>3. Timeouts!CurrentRuns'
  BY <1>1 DEF Timeouts!IInv, Timeouts!CurrentRuns, Timeouts!TypeOK
<1>4. Timeouts!NestingIsTheCallbacks'
  BY <1>1 DEF Timeouts!IInv, Timeouts!CurrentRuns, Timeouts!NestingIsTheCallbacks, Timeouts!TypeOK
<1>5. \A j \in DOMAIN s1' : Timeouts!OnTime(s1'[j], s2') /\ Timeouts!Quiet(s1'[j])
  BY <1>1 DEF Timeouts!IInv
<1> QED BY <1>2, <1>3, <1>4, <1>5 DEF Timeouts!IInv

LEMMA TimersNext == Timeouts!IInv /\ [Timeouts!Next]_(Timeouts!vars) => Timeouts!IInv'
<1> SUFFICES ASSUME Timeouts!IInv, [Timeouts!Next]_(Timeouts!vars) PROVE Timeouts!IInv' OBVIOUS
<1> USE DelaysAssumption
<1>0. /\ s1 \in Seq(Timeouts!Timer) /\ s2 \in Nat /\ s3 \in Nat /\ s4 \in Nat
      /\ \A i \in DOMAIN s1 : s1[i] \in Timeouts!Timer /\ Timeouts!OnTime(s1[i], s2) /\ Timeouts!Quiet(s1[i])
  BY DEF Timeouts!IInv, Timeouts!TypeOK
<1>00. s2 \in Nat BY <1>0
<1>1. CASE Timeouts!Arm
  <2>1. PICK interval \in BOOLEAN, requested \in Delays :
          /\ s1' = Append(s1,
               [interval |-> interval, requested |-> requested, level |-> s3 + 1,
                depth |-> IF s4 = 0 THEN 1 ELSE s1[s4].depth + 1, root |->
                    IF s4 = 0 THEN s2 ELSE s1[s4].root, armed |-> s2,
                phase |-> "spawned", next |-> 0, cleared |-> "no", ended |-> 0, after |-> 0])
          /\ UNCHANGED <<s2, s3, s4>>
    BY <1>1 DEF Timeouts!Arm
  <2> DEFINE new == [interval |-> interval, requested |-> requested, level |-> s3 + 1,
                depth |-> IF s4 = 0 THEN 1 ELSE s1[s4].depth + 1, root |->
                    IF s4 = 0 THEN s2 ELSE s1[s4].root, armed |-> s2,
                phase |-> "spawned", next |-> 0, cleared |-> "no", ended |-> 0, after |-> 0]
  <2> DEFINE parent == s1[s4]
  <2>0. s4 # 0
          => /\ parent \in Timeouts!Timer /\ parent.phase = "running" /\ Timeouts!OnTime(parent, s2)
             /\ s3 = parent.level
    BY <1>0 DEF Timeouts!IInv, Timeouts!NestingIsTheCallbacks, Timeouts!CurrentRuns
  <2>00. requested \in Nat /\ (s4 = 0 => s3 = 0)
    BY DEF Timeouts!IInv, Timeouts!NestingIsTheCallbacks
  <2> HIDE DEF parent
  <2>2. /\ new.phase = "spawned" /\ new.requested = requested /\ new.level = s3 + 1
        /\ new.depth = (IF s4 = 0 THEN 1 ELSE parent.depth + 1)
        /\ new.root = (IF s4 = 0 THEN s2 ELSE parent.root) /\ new.armed = s2
        /\ new.next = 0 /\ new.cleared = "no" /\ new.ended = 0 /\ new.after = 0
        /\ new.interval = interval
    BY DEF parent
  <2>2a. new.depth \in Nat /\ new.root \in Nat
    BY <1>0, <2>0, <2>2, TimerFields
  <2>2b. new \in Timeouts!Timer
    BY <1>0, <2>00, <2>2, <2>2a DEF Timeouts!Timer
  <2> HIDE DEF new
  <2>3. Timeouts!OnTime(new, s2)
    <3>1. CASE s4 = 0
      BY <3>1, <1>0, <2>00, <2>2 DEF Timeouts!OnTime, Timeouts!MaxFreeNesting
    <3>2. CASE s4 # 0
      <4>1. /\ parent.root <= parent.armed /\ parent.armed <= s2 /\ parent.depth = parent.level
            /\ (parent.depth > Timeouts!MaxFreeNesting => s2 >= parent.root + 4 * (parent.depth - Timeouts!MaxFreeNesting))
            /\ parent.depth \in Nat /\ parent.root \in Nat /\ parent.armed \in Nat
        BY <3>2, <2>0, <1>0, TimerFields DEF Timeouts!OnTime, Timeouts!MaxFreeNesting
      <4>2. new.depth = parent.depth + 1 /\ new.level = parent.depth + 1 /\ new.root = parent.root
        BY <3>2, <2>0, <2>2, <4>1
      <4> QED BY <4>1, <4>2, <2>2, <1>0 DEF Timeouts!OnTime, Timeouts!MaxFreeNesting
    <3> QED BY <3>1, <3>2
  <2>4. Timeouts!Quiet(new) BY <2>2 DEF Timeouts!Quiet
  <2>5. /\ s1' = Append(s1, new) /\ s1' \in Seq(Timeouts!Timer)
        /\ Len(s1') = Len(s1) + 1 /\ s1'[Len(s1) + 1] = new
        /\ \A j \in DOMAIN s1 : j \in DOMAIN s1' /\ s1'[j] = s1[j]
        /\ \A j \in DOMAIN s1' : j \in DOMAIN s1 \/ j = Len(s1) + 1
    <3>1. s1' = Append(s1, new) BY <2>1 DEF new
    <3> QED BY <3>1, <2>2b, <1>0
  <2>6. new.phase = "spawned" BY <2>2
  <2>8. Len(s1) + 1 \notin DOMAIN s1 BY <1>0
  <2>7. Timeouts!CurrentRuns'
    BY <2>1, <2>5, <2>6, <2>8 DEF Timeouts!IInv, Timeouts!CurrentRuns
  <2>9. Timeouts!NestingIsTheCallbacks'
    BY <2>1, <2>5 DEF Timeouts!IInv, Timeouts!CurrentRuns, Timeouts!NestingIsTheCallbacks
  <2>10. \A j \in DOMAIN s1' : Timeouts!OnTime(s1'[j], s2') /\ Timeouts!Quiet(s1'[j])
    BY <1>0, <2>1, <2>3, <2>4, <2>5
  <2> QED BY <2>1, <2>5, <2>7, <2>9, <2>10, <1>0 DEF Timeouts!IInv, Timeouts!TypeOK
<1>2. CASE Timeouts!Clear
  <2>1. PICK i \in DOMAIN s1 :
          /\ s1[i].phase # "done" /\ s1[i].cleared = "no"
          /\ s1' = [s1 EXCEPT ![i].cleared = s1[i].phase]
          /\ UNCHANGED <<s2, s3, s4>>
    BY <1>2 DEF Timeouts!Clear
  <2> DEFINE old == s1[i]
             new == [old EXCEPT !.cleared = old.phase]
  <2>2. s1' = [s1 EXCEPT ![i] = new] BY <2>1
  <2>3. old \in Timeouts!Timer /\ Timeouts!OnTime(old, s2) /\ Timeouts!Quiet(old) /\ old.phase # "done" /\ old.cleared = "no"
    BY <1>0, <2>1
  <2>4. (old.phase = "running" <=> i = s4) BY DEF Timeouts!IInv, Timeouts!CurrentRuns
  <2> HIDE DEF old
  <2>5. /\ new \in Timeouts!Timer /\ new.cleared = old.phase /\ new.phase = old.phase /\ new.requested = old.requested
        /\ new.level = old.level /\ new.depth = old.depth /\ new.root = old.root /\ new.armed = old.armed
        /\ new.next = old.next /\ new.ended = old.ended /\ new.after = old.after
    BY <2>3 DEF Timeouts!Timer
  <2> HIDE DEF new
  <2>6. Timeouts!OnTime(new, s2) BY <2>3, <2>5 DEF Timeouts!OnTime
  <2>7. Timeouts!Quiet(new) BY <2>3, <2>5, TimerFields DEF Timeouts!Quiet
  <2> QED BY <1>0, <2>1, <2>2, <2>4, <2>5, <2>6, <2>7, OneTimer DEF old
<1>3. ASSUME NEW i \in DOMAIN s1, Timeouts!FirstPoll(i) PROVE Timeouts!IInv'
  <2> DEFINE old == s1[i]
             next == s2 + Timeouts!Clamped(old.requested, old.level)
             new == Timeouts!Waiting(old, next)
  <2>1. s1' = [s1 EXCEPT ![i] = new] /\ UNCHANGED <<s2, s3, s4>>
        /\ s4 = 0 /\ i # s4
    BY <1>0, <1>3 DEF Timeouts!FirstPoll
  <2>2. old \in Timeouts!Timer /\ Timeouts!OnTime(old, s2) /\ Timeouts!Quiet(old) /\ old.phase = "spawned"
    BY <1>0, <1>3 DEF Timeouts!FirstPoll
  <2> HIDE DEF old
  <2>3. new \in Timeouts!Timer /\ new.phase # "running" /\ Timeouts!OnTime(new, s2) /\ Timeouts!Quiet(new)
    <3>1. CASE old.cleared # "no"
      BY <3>1, <2>2, <1>0, DoneIsDone DEF Timeouts!Waiting
    <3>2. CASE old.cleared = "no"
      <4>1. next \in Nat /\ next >= s2 + old.requested /\ (old.level > Timeouts!MaxFreeNesting => next >= s2 + 4)
        BY <2>2, <1>0, TimerFields DEF Timeouts!Clamped
      <4> HIDE DEF next
      <4>1a. /\ old.requested \in Nat /\ old.level \in Nat /\ old.depth \in Nat /\ old.root \in Nat
             /\ old.armed \in Nat
        BY <2>2, TimerFields
      <4>1b. /\ old.after = 0 /\ old.root <= old.armed /\ old.armed <= s2 /\ old.ended = 0
             /\ old.depth = old.level
             /\ old.depth - 1 > 5 => old.armed >= old.root + 4 * (old.depth - 1 - 5)
        BY <2>2, TimerFields DEF Timeouts!OnTime, Timeouts!Quiet, Timeouts!MaxFreeNesting
      <4>2. /\ old.after = 0 /\ old.root <= old.armed /\ old.armed <= s2 /\ old.ended <= s2
            /\ old.depth = old.level /\ next >= old.armed + old.requested
            /\ (old.depth > Timeouts!MaxFreeNesting => next >= old.root + 4 * (old.depth - Timeouts!MaxFreeNesting))
            /\ (old.requested > 0 /\ old.ended > 0 => next > old.ended)
        BY <4>1, <4>1a, <4>1b, <1>00 DEF Timeouts!MaxFreeNesting
      <4> QED BY <2>2, <3>2, <4>1, <4>2, <1>0, WaitsOnTime
    <3> QED BY <3>1, <3>2
  <2> HIDE DEF new
  <2> QED BY <1>0, <2>1, <2>3, OneTimer
<1>4. ASSUME NEW i \in DOMAIN s1, Timeouts!SeesClear(i) PROVE Timeouts!IInv'
  <2> DEFINE new == Timeouts!Done(s1[i])
  <2>1. new \in Timeouts!Timer /\ new.phase = "done" /\ Timeouts!OnTime(new, s2) /\ Timeouts!Quiet(new)
    BY <1>0, DoneIsDone
  <2>2. s1' = [s1 EXCEPT ![i] = new] /\ UNCHANGED <<s2, s3, s4>>
        /\ s4 = 0 /\ i # s4
    BY <1>0, <1>4 DEF Timeouts!SeesClear
  <2> HIDE DEF new
  <2> QED BY <1>0, <2>1, <2>2, OneTimer
<1>5. ASSUME NEW i \in DOMAIN s1, Timeouts!Fire(i) PROVE Timeouts!IInv'
  <2> DEFINE old == s1[i]
             after == IF old.cleared = "no" THEN 0 ELSE old.after + 1
             new == [old EXCEPT !.phase = "running", !.after = after]
  <2>1. s1' = [s1 EXCEPT ![i] = new] /\ i \in Nat /\ s2' = s2
        /\ s4 = 0 /\ s4' = i /\ s3' = old.level
    <3>1. s1' = [s1 EXCEPT ![i].phase = "running", ![i].after = after]
      BY <1>5 DEF Timeouts!Fire
    <3> HIDE DEF after
    <3>2. s1' = [s1 EXCEPT ![i] = new] BY <3>1
    <3> QED BY <3>2, <1>0, <1>5 DEF Timeouts!Fire
  <2>2. old \in Timeouts!Timer /\ Timeouts!OnTime(old, s2) /\ Timeouts!Quiet(old) /\ old.phase = "waiting" /\ s2 >= old.next
    BY <1>0, <1>5 DEF Timeouts!Fire
  <2> HIDE DEF old
  <2>3. after \in Nat /\ (after > 0 => after = 1 /\ old.cleared = "waiting")
    BY <2>2, TimerFields DEF Timeouts!Quiet
  <2> HIDE DEF after
  <2>4. /\ new \in Timeouts!Timer /\ new.cleared = old.cleared /\ new.phase = "running" /\ new.requested = old.requested
        /\ new.level = old.level /\ new.depth = old.depth /\ new.root = old.root /\ new.armed = old.armed
        /\ new.next = old.next /\ new.ended = old.ended /\ new.after = after
    BY <2>2, <2>3 DEF Timeouts!Timer
  <2> HIDE DEF new
  <2>5. Timeouts!OnTime(new, s2) BY <2>2, <2>4 DEF Timeouts!OnTime
  <2>6. Timeouts!Quiet(new) BY <2>3, <2>4 DEF Timeouts!Quiet
  <2>7. s3' = new.level /\ s3' \in Nat BY <2>1, <2>4, TimerFields
  <2> QED BY <2>1, <2>4, <2>5, <2>6, <2>7, OneTimer
<1>6. CASE Timeouts!CallbackEnds
  <2>1. PICK throws \in BOOLEAN :
          /\ s4 # 0
          /\ s1' = [s1 EXCEPT ![s4] = IF @.interval /\ ~throws THEN Timeouts!Repeated(@) ELSE Timeouts!Done(@)]
          /\ s4' = 0 /\ s3' = 0 /\ UNCHANGED s2
    BY <1>6 DEF Timeouts!CallbackEnds
  <2> DEFINE old == s1[s4]
             new == IF old.interval /\ ~throws THEN Timeouts!Repeated(old) ELSE Timeouts!Done(old)
  <2>2. s4 \in DOMAIN s1 /\ old \in Timeouts!Timer /\ Timeouts!OnTime(old, s2) /\ Timeouts!Quiet(old)
        /\ old.phase = "running" /\ s1' = [s1 EXCEPT ![s4] = new]
    BY <2>1, <1>0 DEF Timeouts!IInv, Timeouts!CurrentRuns
  <2> HIDE DEF old
  <2>3. new \in Timeouts!Timer /\ new.phase # "running" /\ Timeouts!OnTime(new, s2) /\ Timeouts!Quiet(new)
    <3>1. CASE old.interval /\ ~throws
      <4> DEFINE level == old.level + 1
                 period == Timeouts!Clamped(old.requested, level)
                 next == IF old.next + period <= s2 THEN s2 + period ELSE old.next + period
                 again == [old EXCEPT !.level = level, !.depth = old.depth + 1, !.ended = s2]
      <4>1. new = Timeouts!Waiting(again, next) BY <3>1 DEF Timeouts!Repeated
      <4>2. /\ again \in Timeouts!Timer /\ again.level = level /\ again.depth = old.depth + 1 /\ again.ended = s2
            /\ again.phase = old.phase /\ again.requested = old.requested /\ again.root = old.root
            /\ again.armed = old.armed /\ again.cleared = old.cleared /\ again.after = old.after
        <5>1. level \in Nat /\ old.depth + 1 \in Nat BY <2>2, TimerFields
        <5> HIDE DEF level
        <5> QED BY <5>1, <2>2, <1>00 DEF Timeouts!Timer
      <4> HIDE DEF again
      <4>3. Timeouts!Quiet(again) BY <2>2, <4>2 DEF Timeouts!Quiet
      <4>4. CASE old.cleared # "no"
        BY <4>1, <4>2, <4>3, <4>4, <1>0, DoneIsDone DEF Timeouts!Waiting
      <4>5. CASE old.cleared = "no"
        <5>1. /\ period \in Nat /\ period >= old.requested /\ (level > Timeouts!MaxFreeNesting => period >= 4)
          BY <2>2, <1>0, TimerFields DEF Timeouts!Clamped
        <5> HIDE DEF period
        <5>2. next \in Nat /\ next >= old.next + period /\ (old.requested > 0 => next > s2)
          BY <5>1, <2>2, <1>0, TimerFields
        <5> HIDE DEF next
        <5>2a. /\ old.requested \in Nat /\ old.level \in Nat /\ old.depth \in Nat /\ old.root \in Nat
               /\ old.armed \in Nat /\ old.next \in Nat /\ old.ended \in Nat
          BY <2>2, TimerFields
        <5>2b. /\ old.root <= old.armed /\ old.armed <= s2 /\ old.depth = old.level /\ old.after = 0
               /\ old.next >= old.armed + old.requested
               /\ old.depth > 5 => old.next >= old.root + 4 * (old.depth - 5)
          BY <2>2, <4>5, TimerFields DEF Timeouts!OnTime, Timeouts!Quiet, Timeouts!MaxFreeNesting
        <5>3. /\ again.after = 0 /\ again.root <= again.armed /\ again.armed <= s2 /\ again.ended <= s2
              /\ again.depth = again.level /\ next >= again.armed + again.requested
              /\ (again.requested > 0 /\ again.ended > 0 => next > again.ended)
          BY <4>2, <5>1, <5>2, <5>2a, <5>2b, <1>00
        <5>4. again.depth > Timeouts!MaxFreeNesting
                => next >= again.root + 4 * (again.depth - Timeouts!MaxFreeNesting)
          BY <4>2, <5>1, <5>2, <5>2a, <5>2b, <1>00 DEF Timeouts!MaxFreeNesting
        <5> QED BY <4>1, <4>2, <4>5, <5>2, <5>3, <5>4, <1>0, WaitsOnTime
      <4> QED BY <4>4, <4>5
    <3>2. CASE ~(old.interval /\ ~throws)
      BY <3>2, <2>2, <1>0, DoneIsDone
    <3> QED BY <3>1, <3>2
  <2> HIDE DEF new
  <2> QED BY <2>1, <2>2, <2>3, OneTimer
<1>7. CASE Timeouts!Tick
  <2>1. s2' = s2 + 1 /\ s1' = s1 /\ s3' = s3 /\ s4' = s4 BY <1>7 DEF Timeouts!Tick
  <2>2. ASSUME NEW i \in DOMAIN s1 PROVE Timeouts!OnTime(s1[i], s2')
    BY <2>1, <1>0, TimerFields DEF Timeouts!OnTime
  <2> QED BY <2>1, <2>2, <1>0 DEF Timeouts!IInv, Timeouts!TypeOK, Timeouts!CurrentRuns,
        Timeouts!NestingIsTheCallbacks
<1>8. CASE UNCHANGED Timeouts!vars
  BY <1>8 DEF Timeouts!vars, Timeouts!IInv, Timeouts!TypeOK, Timeouts!CurrentRuns,
    Timeouts!NestingIsTheCallbacks, Timeouts!OnTime, Timeouts!Quiet
<1> QED BY <1>1, <1>2, <1>3, <1>4, <1>5, <1>6, <1>7, <1>8 DEF Timeouts!Next

LEMMA TimersStaySo == (subject = "timers" => Timeouts!IInv) /\ [MCNext]_allVars => (subject = "timers" => Timeouts!IInv)'
<1> SUFFICES ASSUME subject = "timers" => Timeouts!IInv, [MCNext]_allVars, subject' = "timers" PROVE Timeouts!IInv'
  OBVIOUS
<1>1. CASE TimersStep BY <1>1, TimersNext DEF TimersStep
<1>2. CASE UNCHANGED allVars BY <1>2, TimersNext DEF allVars, slots, Timeouts!vars
<1>3. CASE MCNext /\ ~TimersStep
  BY <1>3 DEF MCNext, PermissionsStep, BytesStep, ByteTeeStep, TimersStep, AbortsStep, EmittersStep, KeysStep
<1> QED BY <1>1, <1>2, <1>3

\* Timers fire when they should, whatever delays are asked for and however many timers
\* there are (set_timeout_interval).
THEOREM TimersAreInTime == MCSpec => []TimersKeepTime
<1>1. MCInit => (subject = "timers" => Timeouts!IInv) BY TimersInit DEF MCInit, SlotsUnused
<1>2. (subject = "timers" => Timeouts!IInv) => TimersKeepTime BY TimersImpl DEF TimersKeepTime
<1> QED BY <1>1, <1>2, TimersStaySo, PTL DEF MCSpec

-----------------------------------------------------------------------------
(* Aborts and events *)

LEMMA AbortsStaySo == (subject = "abort" => Aborts!IInv) /\ [MCNext]_allVars => (subject = "abort" => Aborts!IInv)'
<1> SUFFICES ASSUME subject = "abort" => Aborts!IInv, [MCNext]_allVars, subject' = "abort" PROVE Aborts!IInv'
  OBVIOUS
<1>1. CASE AbortsStep BY <1>1, AbortsNext DEF AbortsStep
<1>2. CASE UNCHANGED allVars BY <1>2, AbortsNext DEF allVars, slots, Aborts!vars
<1>3. CASE MCNext /\ ~AbortsStep
  BY <1>3 DEF MCNext, PermissionsStep, BytesStep, ByteTeeStep, TimersStep, AbortsStep, EmittersStep, KeysStep
<1> QED BY <1>1, <1>2, <1>3

LEMMA EmittersStaySo == (subject = "emitters" => Emitter!IInv) /\ [MCNext]_allVars => (subject = "emitters" => Emitter!IInv)'
<1> SUFFICES ASSUME subject = "emitters" => Emitter!IInv, [MCNext]_allVars, subject' = "emitters" PROVE Emitter!IInv'
  OBVIOUS
<1>1. CASE EmittersStep BY <1>1, EmittersNext DEF EmittersStep
<1>2. CASE UNCHANGED allVars BY <1>2, EmittersNext DEF allVars, slots, Emitter!vars
<1>3. CASE MCNext /\ ~EmittersStep
  BY <1>3 DEF MCNext, PermissionsStep, BytesStep, ByteTeeStep, TimersStep, AbortsStep, EmittersStep, KeysStep
<1> QED BY <1>1, <1>2, <1>3

\* Listeners hear of an abort and of one, the signal made of others is aborted with
\* them, and an emitter's listeners are those that were added and not removed,
\* however many listen and however deep they emit (send_aborted, any, do_emit).
THEOREM ListenersHearOfAborts == MCSpec => []AbortsAreHeard
<1> DEFINE Heard ==
      (subject = "abort" => Aborts!IInv) /\ (subject = "emitters" => Emitter!IInv)
<1>1. MCInit => Heard BY AbortsInit, EmittersInit DEF MCInit, SlotsUnused
<1>2. Heard => AbortsAreHeard BY AbortsImpl, EmittersImpl DEF AbortsAreHeard
<1>3. Heard /\ [MCNext]_allVars => Heard' BY AbortsStaySo, EmittersStaySo
<1> QED BY <1>1, <1>2, <1>3, PTL DEF MCSpec

-----------------------------------------------------------------------------
(* Keys *)

LEMMA UsageAlgorithms ==
  ASSUME NEW name \in Keys!Names
  PROVE  /\ name = "AES-KW" => Keys!UsageAlgorithm(name) = "AesKw"
         /\ name \in {"AES-CBC", "AES-CTR", "AES-GCM", "ChaCha20-Poly1305"} => Keys!UsageAlgorithm(name) = "Symmetric"
         /\ name = "HMAC" => Keys!UsageAlgorithm(name) = "Hmac"
         /\ name \in {"ECDH", "X25519"} => Keys!UsageAlgorithm(name) = "DeriveAsymmetric"
         /\ name \in Keys!Derivation => Keys!UsageAlgorithm(name) = "DeriveSymmetric"
         /\ name = "RSA-OAEP" => Keys!UsageAlgorithm(name) = "RsaOaep"
         /\ name \in {"ECDSA", "Ed25519", "RSA-PSS", "RSASSA-PKCS1-v1_5"} \union Keys!MlDsa => Keys!UsageAlgorithm(name) = "Sign"
         /\ name \in Keys!Kem => Keys!UsageAlgorithm(name) = "MlKem"
  BY DEF Keys!Names, Keys!UsageAlgorithm, Keys!Symmetric, Keys!Asymmetric, Keys!Aes, Keys!Ec, Keys!Okp,
    Keys!Rsa, Keys!MlDsa, Keys!Modern, Keys!Derivation, Keys!Kem, Keys!MlKem, Keys!HybridKem

LEMMA MasksOf ==
  ASSUME NEW name \in Keys!Names
  PROVE  /\ name = "AES-KW" => Keys!Masks(name) = [private |-> {}, public |-> {"wrapKey", "unwrapKey"}]
         /\ name \in {"AES-CBC", "AES-CTR", "AES-GCM", "ChaCha20-Poly1305"}
              => Keys!Masks(name) = [private |-> {}, public |-> {"encrypt", "decrypt", "wrapKey", "unwrapKey"}]
         /\ name = "HMAC" => Keys!Masks(name) = [private |-> {}, public |-> {"sign", "verify"}]
         /\ name \in {"ECDH", "X25519"} => Keys!Masks(name) = [private |-> {"deriveKey", "deriveBits"}, public |-> {}]
         /\ name \in Keys!Derivation => Keys!Masks(name) = [private |-> {}, public |-> {"deriveKey", "deriveBits"}]
         /\ name = "RSA-OAEP"
              => Keys!Masks(name) = [private |-> {"decrypt", "unwrapKey"}, public |-> {"encrypt", "wrapKey"}]
         /\ name \in {"ECDSA", "Ed25519", "RSA-PSS", "RSASSA-PKCS1-v1_5"} \union Keys!MlDsa
              => Keys!Masks(name) = [private |-> {"sign"}, public |-> {"verify"}]
         /\ name \in Keys!Kem
              => Keys!Masks(name) = [private |-> {"decapsulateKey", "decapsulateBits"},
                                public |-> {"encapsulateKey", "encapsulateBits"}]
<1>1. /\ Keys!MaskTable["AesKw"] = [private |-> {}, public |-> {"wrapKey", "unwrapKey"}]
      /\ Keys!MaskTable["Symmetric"] = [private |-> {}, public |-> {"encrypt", "decrypt", "wrapKey", "unwrapKey"}]
      /\ Keys!MaskTable["Hmac"] = [private |-> {}, public |-> {"sign", "verify"}]
      /\ Keys!MaskTable["DeriveAsymmetric"] = [private |-> {"deriveKey", "deriveBits"}, public |-> {}]
      /\ Keys!MaskTable["DeriveSymmetric"] = [private |-> {}, public |-> {"deriveKey", "deriveBits"}]
      /\ Keys!MaskTable["RsaOaep"] = [private |-> {"decrypt", "unwrapKey"}, public |-> {"encrypt", "wrapKey"}]
      /\ Keys!MaskTable["Sign"] = [private |-> {"sign"}, public |-> {"verify"}]
      /\ Keys!MaskTable["MlKem"] = [private |-> {"decapsulateKey", "decapsulateBits"},
                              public |-> {"encapsulateKey", "encapsulateBits"}]
  BY DEF Keys!MaskTable
<1> QED BY <1>1, UsageAlgorithms DEF Keys!Masks

LEMMA Shapes ==
  ASSUME NEW name \in Keys!Names, NEW kind
  PROVE  /\ name \in Keys!Aes \union {"ChaCha20-Poly1305"} => Keys!ShapesOf(name, kind) = {"32"}
         /\ name \in Keys!Ec => Keys!ShapesOf(name, kind) = {IF kind = "private" THEN "pkcs8" ELSE "point"}
         /\ name = "Ed25519" => Keys!ShapesOf(name, kind) = IF kind = "private" THEN {"pkcs8", "pkcs8+"} ELSE {"32"}
         /\ name = "X25519" => Keys!ShapesOf(name, kind) = {"32"}
         /\ name \in Keys!Rsa => Keys!ShapesOf(name, kind) = {"pkcs1"}
         /\ name \in Keys!Modern => Keys!ShapesOf(name, kind) = {IF kind = "private" THEN Keys!SeedShape(name) ELSE name}
         /\ name \in Keys!Derivation \union {"HMAC"}
              => Keys!ShapesOf(name, kind) = {"32", "64", "point", "pkcs1"} \union Keys!Modern
  BY DEF Keys!Names, Keys!ShapesOf, Keys!Symmetric, Keys!Asymmetric, Keys!Aes, Keys!Ec, Keys!Okp, Keys!Rsa,
    Keys!MlDsa, Keys!Modern, Keys!Derivation, Keys!Kem, Keys!MlKem, Keys!HybridKem

LEMMA Classes ==
  ASSUME NEW name \in Keys!Names
  PROVE  /\ name \in Keys!Symmetric <=> name \in Keys!Aes \union {"ChaCha20-Poly1305", "HMAC"}
         /\ name \in Keys!Asymmetric <=> name \in Keys!Ec \union Keys!Rsa \union Keys!Modern \union {"Ed25519", "X25519"}
         /\ (name \in Keys!Symmetric => name \notin Keys!Asymmetric) /\ (name \in Keys!Symmetric => name \notin Keys!Derivation)
         /\ (name \in Keys!Asymmetric => name \notin Keys!Derivation)
  BY DEF Keys!Names, Keys!Symmetric, Keys!Asymmetric, Keys!Aes, Keys!Ec, Keys!Okp, Keys!Rsa, Keys!MlDsa,
    Keys!Modern, Keys!Derivation, Keys!Kem, Keys!MlKem, Keys!HybridKem

LEMMA HalfShapes ==
  ASSUME NEW name \in Keys!Asymmetric
  PROVE  /\ Keys!PublicShape(name) \in Keys!ShapesOf(name, "public")
         /\ Keys!ShapesOf(name, "public") = {Keys!PublicShape(name)}
         /\ Keys!GeneratedShape(name) \in Keys!ShapesOf(name, "private")
         /\ name # "Ed25519" => Keys!ShapesOf(name, "private") = {Keys!GeneratedShape(name)}
<1>1. name \in Keys!Names BY DEF Keys!Names
<1>2. \E shape : Keys!ShapesOf(name, "public") = {shape}
  BY <1>1, Classes, Shapes
<1>3. Keys!ShapesOf(name, "public") = {Keys!PublicShape(name)} BY <1>2 DEF Keys!PublicShape
<1>4. /\ name \in Keys!Ec \union {"Ed25519"} => Keys!GeneratedShape(name) = "pkcs8"
      /\ name \in Keys!Rsa => Keys!GeneratedShape(name) = "pkcs1"
      /\ name \in Keys!Modern => Keys!GeneratedShape(name) = Keys!SeedShape(name)
      /\ name = "X25519" => Keys!GeneratedShape(name) = "32"
  BY DEF Keys!GeneratedShape, Keys!Ec, Keys!Rsa, Keys!MlDsa, Keys!Modern, Keys!Kem, Keys!MlKem,
    Keys!HybridKem
<1>5. name \in Keys!Ec \union {"Ed25519"} \/ name \in Keys!Rsa \/ name \in Keys!Modern \/ name = "X25519"
  BY <1>1, Classes
<1> QED BY <1>1, <1>3, <1>4, <1>5, Shapes

LEMMA BytesRead ==
  ASSUME NEW kind, NEW enc, NEW shapes, NEW read \in Keys!ReadBytes(kind, enc, shapes)
  PROVE  read.kind = kind /\ read.handle.mat = enc.mat /\ read.handle.shape \in shapes
  BY DEF Keys!ReadBytes, Keys!Read

LEMMA DerRead ==
  ASSUME NEW name \in Keys!Asymmetric, NEW kind \in {"private", "public"}, NEW enc, Keys!IsEncoding(enc),
         NEW read \in Keys!ReadDer(name, kind, enc)
  PROVE  read.kind = kind /\ read.handle.mat = enc.mat /\ read.handle.shape \in Keys!ShapesOf(name, kind)
<1> DEFINE shape == IF kind = "public" THEN Keys!PublicShape(name)
                    ELSE IF name = "Ed25519" THEN enc.shape ELSE Keys!GeneratedShape(name)
<1>1. /\ enc.form = (IF kind = "private" THEN "pkcs8" ELSE "spki") /\ enc.type = Keys!DerType(name)
      /\ read \in Keys!Read(kind, enc, shape)
  BY DEF Keys!ReadDer
<1>2. read.kind = kind /\ read.handle.mat = enc.mat /\ read.handle.shape = shape
  BY <1>1 DEF Keys!Read
<1>3. shape \in Keys!ShapesOf(name, kind)
  <2>1. name \in Keys!Names BY DEF Keys!Names
  <2>2. CASE name = "Ed25519" /\ kind = "private"
    <3>1. enc.type = "Ed25519" BY <1>1, <2>2 DEF Keys!DerType, Keys!Ec, Keys!Rsa
    <3> QED BY <1>1, <2>1, <2>2, <3>1, Shapes DEF Keys!IsEncoding
  <2> QED BY <2>2, HalfShapes
<1> QED BY <1>2, <1>3

LEMMA JwkRead ==
  ASSUME NEW name \in Keys!Symmetric \union Keys!Asymmetric, NEW enc, Keys!IsEncoding(enc), NEW read \in Keys!ReadJwk(name, enc)
  PROVE  /\ read.kind \in Keys!KindsOf(name) /\ read.handle.mat = enc.mat
         /\ read.handle.shape \in Keys!ShapesOf(name, read.kind)
<1> DEFINE shape == CASE enc.kind = "secret" -> enc.shape
                      [] enc.kind = "public" -> Keys!PublicShape(name)
                      [] OTHER -> IF name = "Ed25519" THEN "pkcs8+" ELSE Keys!GeneratedShape(name)
<1>1. enc.form = "jwk" /\ enc.type = Keys!JwkType(name) /\ read \in Keys!Read(enc.kind, enc, shape)
  BY DEF Keys!ReadJwk
<1>2. read.kind = enc.kind /\ read.handle.mat = enc.mat /\ read.handle.shape = shape
  BY <1>1 DEF Keys!Read
<1>3. PICK kin \in Keys!Symmetric \union Keys!Asymmetric :
         /\ enc.type = Keys!JwkType(kin) /\ enc.kind \in Keys!KindsOf(kin)
         /\ enc.kind = "secret" => enc.shape \in Keys!ShapesOf(kin, "secret")
  BY <1>1 DEF Keys!IsEncoding
<1>4. name \in Keys!Names /\ kin \in Keys!Names BY DEF Keys!Names
<1>5. kin = name \/ (kin \in Keys!Ec /\ name \in Keys!Ec)
  BY <1>1, <1>3, <1>4, Classes
     DEF Keys!JwkType, Keys!Symmetric, Keys!Asymmetric, Keys!Aes, Keys!Ec, Keys!Okp, Keys!Rsa, Keys!MlDsa,
     Keys!Modern, Keys!Kem, Keys!MlKem, Keys!HybridKem
<1>6. enc.kind \in Keys!KindsOf(name) BY <1>3, <1>5 DEF Keys!KindsOf, Keys!Asymmetric
<1>7. shape \in Keys!ShapesOf(name, enc.kind)
  <2>1. CASE name \in Keys!Asymmetric
    <3>1. enc.kind \in {"private", "public"} BY <1>6, <2>1 DEF Keys!KindsOf
    <3>2. CASE enc.kind = "public" BY <3>2, <2>1, HalfShapes
    <3>3. CASE enc.kind = "private"
      <4>1. shape = IF name = "Ed25519" THEN "pkcs8+" ELSE Keys!GeneratedShape(name) BY <3>3
      <4>2. CASE name = "Ed25519" BY <4>1, <4>2, <3>3, <1>4, Shapes
      <4>3. CASE name # "Ed25519" BY <4>1, <4>3, <3>3, <2>1, HalfShapes
      <4> QED BY <4>2, <4>3
    <3> QED BY <3>1, <3>2, <3>3
  <2>2. CASE name \notin Keys!Asymmetric
    <3>1. enc.kind = "secret" BY <1>6, <2>2 DEF Keys!KindsOf
    <3>2. kin = name BY <1>5, <2>2 DEF Keys!Asymmetric
    <3> QED BY <3>1, <3>2, <1>3
  <2> QED BY <2>1, <2>2
<1> QED BY <1>2, <1>6, <1>7

\* What is read is of the name, whatever it was read from.
LEMMA ReadFits ==
  ASSUME NEW name \in Keys!Names, NEW format, NEW enc, Keys!IsEncoding(enc), NEW read \in Keys!Imported(name, format, enc)
  PROVE  /\ read.kind \in Keys!KindsOf(name) /\ read.handle.mat = enc.mat
         /\ read.handle.shape \in Keys!ShapesOf(name, read.kind)
<1>1. CASE name \in Keys!Derivation
  <2>1. read \in Keys!ReadBytes("secret", enc, Keys!ShapesOf("HKDF", "secret"))
    BY <1>1 DEF Keys!Imported, Keys!ImportDeriveKey, Keys!Derivation, Keys!Aes, Keys!HybridKem,
      Keys!Modern, Keys!MlDsa, Keys!Kem, Keys!MlKem
  <2>2. "HKDF" \in Keys!Names BY DEF Keys!Names, Keys!Derivation
  <2>3. Keys!ShapesOf("HKDF", "secret") = Keys!ShapesOf(name, "secret")
    BY <1>1, <2>2, Shapes DEF Keys!Derivation
  <2> QED BY <1>1, <2>1, <2>3, BytesRead, Classes DEF Keys!KindsOf
<1>2. CASE name \in Keys!Symmetric
  <2>0. name \notin Keys!Asymmetric /\ Keys!KindsOf(name) = {"secret"} BY <1>2, Classes DEF Keys!KindsOf
  <2>1. \/ read \in Keys!ReadJwk(name, enc)
        \/ read \in Keys!ReadBytes("secret", enc, Keys!ShapesOf("HMAC", "secret")) /\ (name # "HMAC" => read.handle.shape = "32")
        \/ read \in Keys!ReadBytes("secret", enc, {"32"}) /\ name = "ChaCha20-Poly1305"
    <3>1. CASE name \in Keys!Aes
      <4>1. read \in Keys!ImportAes(name, format, enc)
        BY <3>1 DEF Keys!Imported, Keys!Derivation, Keys!Aes, Keys!HybridKem, Keys!Modern, Keys!MlDsa,
          Keys!Kem, Keys!MlKem
      <4> QED BY <4>1 DEF Keys!ImportAes, Keys!ImportSymmetricKey
    <3>2. CASE name = "HMAC"
      <4>1. read \in Keys!ImportHmac(format, enc)
        BY <3>2 DEF Keys!Imported, Keys!Derivation, Keys!Aes, Keys!HybridKem, Keys!Modern, Keys!MlDsa,
          Keys!Kem, Keys!MlKem
      <4> QED BY <3>2, <4>1 DEF Keys!ImportHmac, Keys!ImportSymmetricKey
    <3>3. CASE name = "ChaCha20-Poly1305"
      <4>1. read \in Keys!ImportChaCha(format, enc)
        BY <3>3 DEF Keys!Imported, Keys!Derivation, Keys!Aes, Keys!HybridKem, Keys!Modern, Keys!MlDsa,
          Keys!Kem, Keys!MlKem
      <4> QED BY <3>3, <4>1 DEF Keys!ImportChaCha
    <3> QED BY <1>2, <3>1, <3>2, <3>3, Classes
  <2>2. name # "HMAC" => Keys!ShapesOf(name, "secret") = {"32"}
    BY <1>2, Classes, Shapes
  <2> QED BY <2>0, <2>1, <2>2, <1>2, JwkRead, BytesRead
<1>3. CASE name \in Keys!Asymmetric
  <2>0. Keys!KindsOf(name) = {"private", "public"} BY <1>3 DEF Keys!KindsOf
  <2>1. \/ read \in Keys!ReadJwk(name, enc)
        \/ read \in Keys!ReadDer(name, "public", enc)
        \/ read \in Keys!ReadDer(name, "private", enc)
        \/ read \in Keys!ReadBytes("public", enc, {Keys!PublicShape(name)})
        \/ read \in Keys!ReadBytes("public", enc, {name}) /\ name \in Keys!Modern
        \/ read \in Keys!ReadBytes("private", enc, {Keys!SeedShape(name)}) /\ name \in Keys!Modern
    <3>1. CASE name \in Keys!HybridKem
      <4>1. read \in Keys!ImportHybridKem(name, format, enc)
        BY <3>1 DEF Keys!Imported, Keys!Derivation, Keys!Aes, Keys!HybridKem, Keys!Modern, Keys!MlDsa,
          Keys!Kem, Keys!MlKem
      <4> QED BY <3>1, <4>1 DEF Keys!ImportHybridKem, Keys!Modern, Keys!Kem
    <3>2. CASE name \in Keys!Modern \ Keys!HybridKem
      <4>1. read \in Keys!ImportMl(name, format, enc)
        BY <3>2 DEF Keys!Imported, Keys!Derivation, Keys!Aes, Keys!HybridKem, Keys!Modern, Keys!MlDsa,
          Keys!Kem, Keys!MlKem
      <4> QED BY <3>2, <4>1 DEF Keys!ImportMl, Keys!ImportHybridKem
    <3>3. CASE name \notin Keys!Modern
      <4>1. name \in Keys!Ec \union Keys!Rsa \union {"Ed25519", "X25519"} BY <1>3, <3>3, Classes
      <4>2. read \in Keys!ImportKeyPair(name, format, enc)
        BY <4>1 DEF Keys!Imported, Keys!Derivation, Keys!Aes, Keys!HybridKem, Keys!Modern, Keys!MlDsa,
          Keys!Kem, Keys!MlKem, Keys!Ec, Keys!Rsa
      <4> QED BY <4>2 DEF Keys!ImportKeyPair
    <3> QED BY <3>1, <3>2, <3>3
  <2>2. /\ Keys!PublicShape(name) \in Keys!ShapesOf(name, "public")
        /\ name \in Keys!Modern => /\ Keys!ShapesOf(name, "public") = {name}
                              /\ Keys!ShapesOf(name, "private") = {Keys!SeedShape(name)}
    BY <1>3, HalfShapes, Shapes
  <2>3. read \in Keys!ReadJwk(name, enc) => /\ read.kind \in Keys!KindsOf(name) /\ read.handle.mat = enc.mat
                                       /\ read.handle.shape \in Keys!ShapesOf(name, read.kind)
    BY <1>3, JwkRead
  <2>4. \A kind \in {"private", "public"} : read \in Keys!ReadDer(name, kind, enc)
          => read.kind = kind /\ read.handle.mat = enc.mat /\ read.handle.shape \in Keys!ShapesOf(name, kind)
    BY <1>3, DerRead
  <2> QED BY <2>0, <2>1, <2>2, <2>3, <2>4, BytesRead
<1> QED BY <1>1, <1>2, <1>3 DEF Keys!Names

LEMMA ImportFits ==
  ASSUME NEW name \in Keys!Names, NEW format, NEW enc, Keys!IsEncoding(enc), NEW extractable, NEW asked,
         NEW key \in Keys!ImportKey(name, format, enc, extractable, asked)
  PROVE  /\ Keys!IsKey(key) /\ key.handle.mat = enc.mat /\ key.extractable = extractable
         /\ extractable => name \notin Keys!Derivation
<1>1. PICK read \in Keys!Imported(name, format, enc) :
         /\ key = [name |-> name, kind |-> read.kind, extractable |-> extractable,
                   usages |-> asked, handle |-> read.handle]
         /\ ~(extractable /\ name \in Keys!Derivation)
         /\ Keys!Classified(name, read.kind, asked) # {}
  BY DEF Keys!ImportKey
<1>2. /\ key.name = name /\ key.kind = read.kind /\ key.extractable = extractable /\ key.usages = asked
      /\ key.handle = read.handle
  BY <1>1
<1>3. /\ read.kind \in Keys!KindsOf(name) /\ read.handle.mat = enc.mat
      /\ read.handle.shape \in Keys!ShapesOf(name, read.kind)
  BY <1>1, ReadFits
<1>4. /\ asked \subseteq (IF read.kind \in {"secret", "public"} THEN {} ELSE Keys!Masks(name).private)
                           \union (IF read.kind = "private" THEN {} ELSE Keys!Masks(name).public)
      /\ asked = {} => read.kind = "public"
  BY <1>1 DEF Keys!Classified
<1>5. read.kind \in {"secret", "public", "private"} BY <1>3 DEF Keys!KindsOf
<1>6. asked \subseteq IF read.kind = "private" THEN Keys!Masks(name).private ELSE Keys!Masks(name).public
  BY <1>4, <1>5
<1>7. read.kind = "secret" => asked # {} BY <1>4
<1>8. Keys!IsKey(key) BY <1>2, <1>3, <1>6, <1>7 DEF Keys!IsKey
<1> QED BY <1>1, <1>2, <1>3, <1>8

LEMMA ExportIs ==
  ASSUME NEW key, Keys!IsKey(key), key.name \notin Keys!Derivation, NEW format, NEW enc \in Keys!Encoded(format, key)
  PROVE  /\ enc.mat = key.handle.mat /\ Keys!IsEncoding(enc)
         /\ enc.form = "jwk" => enc.ops = key.usages
<1>0. key.name \in Keys!Names BY DEF Keys!IsKey
<1>1. enc \in Keys!ExportJwk(key) \/ enc = Keys!Bytes(key.handle.mat, key.handle.shape)
      \/ enc \in Keys!ExportDer(key, "public") \/ enc \in Keys!ExportDer(key, "private")
  <2>1. Keys!ExportRaw(key) \subseteq {Keys!Bytes(key.handle.mat, key.handle.shape)} BY DEF Keys!ExportRaw
  <2> QED BY <2>1 DEF Keys!Encoded
<1>2. ASSUME enc = Keys!Bytes(key.handle.mat, key.handle.shape)
      PROVE enc.form = "bytes" /\ enc.mat = key.handle.mat
  BY <1>2 DEF Keys!Bytes
<1>3. ASSUME NEW kind \in {"public", "private"}, enc \in Keys!ExportDer(key, kind)
      PROVE  /\ enc.form = (IF kind = "private" THEN "pkcs8" ELSE "spki") /\ enc.mat = key.handle.mat
             /\ enc.type = Keys!DerType(key.name) /\ enc.shape = key.handle.shape /\ key.kind = kind
  BY <1>3 DEF Keys!ExportDer
<1>4. ASSUME enc \in Keys!ExportJwk(key)
      PROVE  /\ enc.form = "jwk" /\ enc.mat = key.handle.mat /\ enc.type = Keys!JwkType(key.name)
             /\ enc.kind = key.kind /\ enc.shape = key.handle.shape /\ enc.ops = key.usages
  BY <1>4 DEF Keys!ExportJwk
<1>5. Keys!IsEncoding(enc)
  <2>1. CASE enc \in Keys!ExportJwk(key)
    <3>1. key.name \in Keys!Symmetric \union Keys!Asymmetric BY <1>0 DEF Keys!Names
    <3> QED BY <1>4, <2>1, <3>1 DEF Keys!IsEncoding, Keys!IsKey
  <2>2. CASE enc = Keys!Bytes(key.handle.mat, key.handle.shape)
    BY <1>2, <2>2 DEF Keys!IsEncoding
  <2>3. CASE enc \in Keys!ExportDer(key, "public")
    BY <1>3, <2>3 DEF Keys!IsEncoding
  <2>4. CASE enc \in Keys!ExportDer(key, "private")
    <3>1. enc.type = "Ed25519" => key.name = "Ed25519"
      BY <1>0, <1>3, <2>4 DEF Keys!DerType
    <3> QED BY <1>0, <1>3, <2>4, <3>1, Shapes DEF Keys!IsEncoding, Keys!IsKey
  <2> QED BY <1>1, <2>1, <2>2, <2>3, <2>4
<1> QED BY <1>1, <1>2, <1>3, <1>4, <1>5

LEMMA ImportedIs ==
  ASSUME NEW name \in Keys!Names, NEW format, NEW enc
  PROVE  /\ name \in Keys!Aes => Keys!Imported(name, format, enc) = Keys!ImportAes(name, format, enc)
         /\ name = "HMAC" => Keys!Imported(name, format, enc) = Keys!ImportHmac(format, enc)
         /\ name = "ChaCha20-Poly1305" => Keys!Imported(name, format, enc) = Keys!ImportChaCha(format, enc)
         /\ name \in Keys!HybridKem => Keys!Imported(name, format, enc) = Keys!ImportHybridKem(name, format, enc)
         /\ name \in Keys!Modern \ Keys!HybridKem => Keys!Imported(name, format, enc) = Keys!ImportMl(name, format, enc)
         /\ name \in Keys!Asymmetric \ Keys!Modern => Keys!Imported(name, format, enc) = Keys!ImportKeyPair(name, format, enc)
  BY DEF Keys!Imported, Keys!Names, Keys!Symmetric, Keys!Asymmetric, Keys!Derivation, Keys!Aes,
    Keys!HybridKem, Keys!Modern, Keys!MlDsa, Keys!Kem, Keys!MlKem, Keys!Ec, Keys!Okp, Keys!Rsa

LEMMA JwkComesBack ==
  ASSUME NEW key, Keys!IsKey(key), key.name \notin Keys!Derivation, NEW enc \in Keys!ExportJwk(key)
  PROVE  \E read \in Keys!Imported(key.name, "jwk", enc) : read.kind = key.kind /\ read.handle.mat = enc.mat
<1> DEFINE name == key.name
<1>0. name \in Keys!Names /\ (name \in Keys!Symmetric \/ name \in Keys!Asymmetric) BY DEF Keys!IsKey,
      Keys!Names
<1>1. /\ enc.form = "jwk" /\ enc.type = Keys!JwkType(name) /\ enc.kind = key.kind /\ enc.shape = key.handle.shape
  BY DEF Keys!ExportJwk
<1>2. PICK read \in Keys!ReadJwk(name, enc) :
         /\ read.kind = enc.kind /\ read.handle.mat = enc.mat
         /\ enc.kind = "secret" => read.handle.shape = enc.shape
  BY <1>1 DEF Keys!ReadJwk, Keys!Read
<1>3. CASE name \in Keys!Aes
  <2>1. key.kind = "secret" /\ key.handle.shape = "32"
    BY <1>0, <1>3, Classes, Shapes DEF Keys!IsKey, Keys!KindsOf
  <2>2. read \in Keys!ImportSymmetricKey(name, "jwk", enc) BY DEF Keys!ImportSymmetricKey
  <2> QED BY <1>0, <1>1, <1>2, <1>3, <2>1, <2>2, ImportedIs DEF Keys!ImportAes
<1>4. CASE name \in {"HMAC", "ChaCha20-Poly1305"}
  BY <1>0, <1>1, <1>2, <1>4, ImportedIs DEF Keys!ImportHmac, Keys!ImportChaCha, Keys!ImportSymmetricKey
<1>5. CASE name \in Keys!Modern
  <2>1. Keys!ReadJwk(name, enc) = Keys!ImportHybridKem(name, "jwk", enc) BY DEF Keys!ImportHybridKem
  <2>2. Keys!ImportHybridKem(name, "jwk", enc) = Keys!ImportMl(name, "jwk", enc) BY DEF Keys!ImportMl
  <2> QED BY <1>0, <1>1, <1>2, <1>5, <2>1, <2>2, ImportedIs DEF Keys!HybridKem, Keys!Modern, Keys!Kem
<1>6. CASE name \in Keys!Asymmetric \ Keys!Modern
  <2>1. Keys!ReadJwk(name, enc) = Keys!ImportKeyPair(name, "jwk", enc) BY DEF Keys!ImportKeyPair
  <2> QED BY <1>0, <1>1, <1>2, <1>6, <2>1, ImportedIs
<1> QED BY <1>0, <1>3, <1>4, <1>5, <1>6, Classes

LEMMA BytesComeBack ==
  ASSUME NEW key, Keys!IsKey(key), key.name \notin Keys!Derivation, NEW format,
         NEW enc \in Keys!Encoded(format, key), enc = Keys!Bytes(key.handle.mat, key.handle.shape),
         format \in {"raw", "raw-public", "raw-secret", "raw-seed"},
         ~(key.name = "ChaCha20-Poly1305" /\ format = "raw")
  PROVE  \E read \in Keys!Imported(key.name, format, enc) : read.kind = key.kind /\ read.handle.mat = enc.mat
<1> DEFINE name == key.name
           shape == key.handle.shape
<1>0. /\ name \in Keys!Names /\ (name \in Keys!Symmetric \/ name \in Keys!Asymmetric)
      /\ key.kind \in Keys!KindsOf(name) /\ shape \in Keys!ShapesOf(name, key.kind)
  BY DEF Keys!IsKey, Keys!Names
<1>1. enc.form = "bytes" /\ enc.shape = shape /\ enc.mat = key.handle.mat BY DEF Keys!Bytes
<1>2. ASSUME NEW kind, NEW shapes, shape \in shapes
      PROVE  \E read \in Keys!ReadBytes(kind, enc, shapes) :
                 read.kind = kind /\ read.handle.mat = enc.mat /\ read.handle.shape = shape
  BY <1>1, <1>2 DEF Keys!ReadBytes, Keys!Read
<1>3. CASE name \in Keys!Symmetric
  <2>1. key.kind = "secret" /\ Keys!KindsOf(name) = {"secret"} BY <1>0, <1>3, Classes DEF Keys!KindsOf
  <2>2. name \notin Keys!Modern BY <1>0, <1>3, Classes DEF Keys!Asymmetric
  <2>3. format \in {"raw", "raw-secret"}
    <3>1. CASE format = "raw-public" BY <2>1, <2>2, <3>1 DEF Keys!Encoded
    <3>2. CASE format = "raw-seed" BY <2>2, <3>2 DEF Keys!Encoded
    <3> QED BY <3>1, <3>2
  <2>4. name # "HMAC" => shape = "32" BY <1>0, <1>3, Classes, Shapes
  <2>5. Keys!ShapesOf("HMAC", "secret") = {"32", "64", "point", "pkcs1"} \union Keys!Modern
    <3>1. "HMAC" \in Keys!Names BY DEF Keys!Names, Keys!Symmetric
    <3> QED BY <3>1, Shapes
  <2>6. name = "HMAC" => shape \in Keys!ShapesOf("HMAC", "secret") BY <1>0, <2>1
  <2>7. shape \in Keys!ShapesOf("HMAC", "secret") BY <2>4, <2>5, <2>6
  <2>8. PICK read \in Keys!ReadBytes("secret", enc, Keys!ShapesOf("HMAC", "secret")) :
            read.kind = "secret" /\ read.handle.mat = enc.mat /\ read.handle.shape = shape
    BY <1>2, <2>7
  <2>9. read \in Keys!ImportSymmetricKey(name, format, enc) /\ read \in Keys!ImportSymmetricKey("HMAC", format, enc)
    BY <2>3 DEF Keys!ImportSymmetricKey
  <2>10. CASE name \in Keys!Aes
    <3>1. name # "HMAC" BY <2>10 DEF Keys!Aes
    <3>2. read \in Keys!ImportAes(name, format, enc) BY <2>4, <2>8, <2>9, <3>1 DEF Keys!ImportAes
    <3> QED BY <1>0, <2>1, <2>8, <2>10, <3>2, ImportedIs
  <2>11. CASE name = "HMAC"
    BY <1>0, <2>1, <2>8, <2>9, <2>11, ImportedIs DEF Keys!ImportHmac
  <2>12. CASE name = "ChaCha20-Poly1305"
    <3>1. format = "raw-secret" BY <2>3, <2>12
    <3>2. shape = "32" BY <2>4, <2>12
    <3>3. Keys!ReadBytes("secret", enc, {"32"}) = Keys!Imported(name, format, enc)
      BY <1>0, <2>12, <3>1, ImportedIs DEF Keys!ImportChaCha
    <3> QED BY <1>2, <2>1, <3>2, <3>3
  <2> QED BY <1>0, <1>3, <2>10, <2>11, <2>12, Classes
<1>4. CASE name \in Keys!Modern
  <2>1. format \in {"raw-public", "raw-seed"}
    <3>1. format \notin {"raw-public", "raw-seed"} => Keys!Encoded(format, key) \subseteq Keys!ExportRaw(key)
      BY DEF Keys!Encoded
    <3> QED BY <1>4, <3>1 DEF Keys!ExportRaw
  <2>2. key.kind = IF format = "raw-seed" THEN "private" ELSE "public"
    BY <1>4, <2>1 DEF Keys!Encoded
  <2>3. shape = IF format = "raw-seed" THEN Keys!SeedShape(name) ELSE name
    BY <1>0, <1>4, <2>2, Shapes
  <2>4. \E read \in Keys!ImportHybridKem(name, format, enc) : read.kind = key.kind /\ read.handle.mat = enc.mat
    BY <1>2, <2>1, <2>2, <2>3 DEF Keys!ImportHybridKem
  <2>5. Keys!ImportMl(name, format, enc) = Keys!ImportHybridKem(name, format, enc) BY <2>1 DEF Keys!ImportMl
  <2> QED BY <1>0, <1>4, <2>4, <2>5, ImportedIs DEF Keys!Modern, Keys!Kem
<1>5. CASE name \in Keys!Asymmetric \ Keys!Modern
  <2>1. key.kind \in {"private", "public"} BY <1>0, <1>5 DEF Keys!KindsOf
  <2>2. Keys!Encoded(format, key) \subseteq Keys!ExportRaw(key) /\ format \in {"raw", "raw-public"}
    <3>1. CASE format = "raw" BY <3>1 DEF Keys!Encoded
    <3>2. CASE format = "raw-public" BY <3>2, <1>5 DEF Keys!Encoded
    <3>3. CASE format = "raw-seed" BY <3>3, <1>5 DEF Keys!Encoded
    <3>4. CASE format = "raw-secret" BY <3>4, <1>5, <2>1 DEF Keys!Encoded
    <3> QED BY <3>1, <3>2, <3>3, <3>4
  <2>3. key.kind = "public" BY <2>1, <2>2 DEF Keys!ExportRaw
  <2>4. shape = Keys!PublicShape(name) BY <1>0, <1>5, <2>3, HalfShapes
  <2>5. \E read \in Keys!ImportKeyPair(name, format, enc) : read.kind = key.kind /\ read.handle.mat = enc.mat
    BY <1>2, <2>2, <2>3, <2>4 DEF Keys!ImportKeyPair
  <2> QED BY <1>0, <1>5, <2>5, ImportedIs
<1> QED BY <1>0, <1>3, <1>4, <1>5

LEMMA DerComesBack ==
  ASSUME NEW key, Keys!IsKey(key), NEW kind \in {"public", "private"}, NEW enc \in Keys!ExportDer(key, kind)
  PROVE  \E read \in Keys!Imported(key.name, IF kind = "private" THEN "pkcs8" ELSE "spki", enc) :
            read.kind = key.kind /\ read.handle.mat = enc.mat
<1> DEFINE name == key.name
           format == IF kind = "private" THEN "pkcs8" ELSE "spki"
<1>1. /\ name \in Keys!Asymmetric \ Keys!HybridKem /\ key.kind = kind
      /\ enc.form = format /\ enc.type = Keys!DerType(name)
  BY DEF Keys!ExportDer, Keys!HasDer
<1>2. \E read \in Keys!ReadDer(name, kind, enc) : read.kind = kind /\ read.handle.mat = enc.mat
  BY <1>1 DEF Keys!ReadDer, Keys!Read
<1>3. name \in Keys!Names BY DEF Keys!IsKey
<1>4. Keys!ReadDer(name, kind, enc) = Keys!ImportMl(name, format, enc) BY DEF Keys!ImportMl
<1>5. Keys!ReadDer(name, kind, enc) = Keys!ImportKeyPair(name, format, enc) BY DEF Keys!ImportKeyPair
<1>6. CASE name \in Keys!Modern BY <1>1, <1>2, <1>3, <1>4, <1>6, ImportedIs
<1>7. CASE name \notin Keys!Modern BY <1>1, <1>2, <1>3, <1>5, <1>7, ImportedIs
<1> QED BY <1>6, <1>7

\* What any key is exported as comes back as the key.
LEMMA KeyComesBack ==
  ASSUME NEW key, Keys!IsKey(key), key.kind = "private" => key.usages # {}, NEW format \in Keys!Formats
  PROVE  Keys!ComesBack(key, format)
<1> SUFFICES ASSUME NEW enc \in Keys!ExportKey(format, key), ~(key.name = "ChaCha20-Poly1305" /\ format = "raw")
             PROVE  \E back \in Keys!ImportKey(key.name, format, enc, TRUE, key.usages) :
                       back.kind = key.kind /\ back.handle.mat = key.handle.mat
  BY DEF Keys!ComesBack
<1>1. key.name \notin Keys!Derivation /\ enc \in Keys!Encoded(format, key) BY DEF Keys!ExportKey
<1>2. enc.mat = key.handle.mat /\ (enc.form = "jwk" => enc.ops = key.usages) BY <1>1, ExportIs
<1>3. \E read \in Keys!Imported(key.name, format, enc) : read.kind = key.kind /\ read.handle.mat = enc.mat
  <2>1. CASE format = "jwk"
    <3>1. enc \in Keys!ExportJwk(key) BY <1>1, <2>1 DEF Keys!Encoded
    <3> QED BY <1>1, <2>1, <3>1, JwkComesBack
  <2>2. CASE format = "spki"
    <3>1. enc \in Keys!ExportDer(key, "public") BY <1>1, <2>2 DEF Keys!Encoded
    <3> QED BY <2>2, <3>1, DerComesBack
  <2>3. CASE format = "pkcs8"
    <3>1. enc \in Keys!ExportDer(key, "private") BY <1>1, <2>3 DEF Keys!Encoded
    <3> QED BY <2>3, <3>1, DerComesBack
  <2>4. CASE format \in {"raw", "raw-public", "raw-secret", "raw-seed"}
    <3>1. Keys!ExportRaw(key) \subseteq {Keys!Bytes(key.handle.mat, key.handle.shape)} BY DEF Keys!ExportRaw
    <3>2. enc = Keys!Bytes(key.handle.mat, key.handle.shape)
      BY <1>1, <2>4, <3>1 DEF Keys!Encoded
    <3> QED BY <1>1, <2>4, <3>2, BytesComeBack
  <2>5. CASE format = "raw-private" BY <1>1, <2>5 DEF Keys!Encoded
  <2> QED BY <2>1, <2>2, <2>3, <2>4, <2>5 DEF Keys!Formats
<1>4. PICK read \in Keys!Imported(key.name, format, enc) : read.kind = key.kind /\ read.handle.mat = enc.mat
  BY <1>3
<1>5. key.kind \in {"private", "public", "secret"} BY DEF Keys!IsKey, Keys!KindsOf
<1>6. PICK usages \in Keys!Classified(key.name, read.kind, key.usages) : Keys!UsagesOf(read.kind, usages) \subseteq key.usages
  <2> DEFINE private == IF key.kind \in {"secret", "public"} THEN {} ELSE Keys!Masks(key.name).private
             public == IF key.kind = "private" THEN {} ELSE Keys!Masks(key.name).public
  <2>1. key.usages \subseteq private \union public /\ (key.usages = {} => key.kind = "public")
    BY <1>5 DEF Keys!IsKey
  <2>2. Keys!Classified(key.name, key.kind, key.usages)
          = {[private |-> key.usages \intersect private, public |-> key.usages \intersect public]}
    BY <2>1 DEF Keys!Classified
  <2> QED BY <1>4, <2>2 DEF Keys!UsagesOf
<1> DEFINE back == [name |-> key.name, kind |-> read.kind, extractable |-> TRUE,
                    usages |-> key.usages, handle |-> read.handle]
<1>7. back \in Keys!ImportKey(key.name, format, enc, TRUE, key.usages)
  BY <1>1, <1>2, <1>4, <1>6 DEF Keys!ImportKey
<1> QED BY <1>2, <1>4, <1>7

LEMMA OperationsFitKeys ==
  ASSUME \A key \in s2 : Keys!IsKey(key)
  PROVE  Keys!OperationsFit
<1> SUFFICES ASSUME NEW key \in s2
             PROVE  /\ \A alg \in s1, usage \in key.usages \intersect Keys!CipherUsages :
                          Keys!Encrypts(key, alg, usage \in {"wrapKey", "unwrapKey"}) =>
                              /\ Keys!Supports(usage, alg)
                              /\ alg = "AES-KW" \/ alg = key.name
                              /\ alg = "RSA-OAEP" =>
                                   (key.kind = "private" <=> usage \in {"decrypt", "unwrapKey"})
                    /\ \A alg \in s1 : Keys!Signs(key, alg) \/ Keys!Verifies(key, alg) => Keys!Supports("sign", alg)
                    /\ \A public \in s2 :
                          Keys!Derives(key, key.name, public) /\ key.usages # {} /\ key.name \in Keys!Asymmetric =>
                              key.kind = "private" /\ public.kind = "public"
                    /\ \A format \in Keys!Formats : Keys!ExportKey(format, key) # {} => Keys!Supports("exportKey", key.name)
  BY DEF Keys!OperationsFit
<1>0. Keys!IsKey(key) /\ key.name \in Keys!Names BY DEF Keys!IsKey
<1>1. ASSUME NEW alg \in s1, NEW usage \in key.usages \intersect Keys!CipherUsages,
             Keys!Encrypts(key, alg, usage \in {"wrapKey", "unwrapKey"})
      PROVE  /\ Keys!Supports(usage, alg)
             /\ alg = "AES-KW" \/ alg = key.name
             /\ alg = "RSA-OAEP" => (key.kind = "private" <=> usage \in {"decrypt", "unwrapKey"})
  <2>1. alg \in Keys!Encrypting BY <1>1 DEF Keys!Encrypts
  <2>2. Keys!Supports(usage, alg)
    <3>1. CASE usage \in {"wrapKey", "unwrapKey"} BY <2>1, <3>1 DEF Keys!Supports
    <3>2. CASE usage \in {"encrypt", "decrypt"}
      <4>1. alg # "AES-KW" BY <1>1, <3>2 DEF Keys!Encrypts
      <4> QED BY <2>1, <3>2, <4>1 DEF Keys!Supports
    <3> QED BY <3>1, <3>2 DEF Keys!CipherUsages
  <2>3. CASE alg = "RSA-OAEP"
    <3>1. key.name \in Keys!Rsa BY <1>1, <2>3 DEF Keys!Encrypts
    <3>2. key.usages \subseteq IF key.kind = "private" THEN Keys!Masks(key.name).private ELSE Keys!Masks(key.name).public
      BY <1>0 DEF Keys!IsKey
    <3>3. key.name = "RSA-OAEP"
      <4>1. ASSUME key.name \in {"RSA-PSS", "RSASSA-PKCS1-v1_5"} PROVE FALSE
        <5>1. Keys!Masks(key.name) = [private |-> {"sign"}, public |-> {"verify"}] BY <1>0, <4>1, MasksOf
        <5> QED BY <3>2, <5>1 DEF Keys!CipherUsages
      <4> QED BY <3>1, <4>1 DEF Keys!Rsa
    <3>4. Keys!Masks(key.name) = [private |-> {"decrypt", "unwrapKey"}, public |-> {"encrypt", "wrapKey"}]
      BY <1>0, <3>3, MasksOf
    <3> QED BY <2>2, <2>3, <3>2, <3>3, <3>4 DEF Keys!CipherUsages
  <2>4. CASE alg # "RSA-OAEP"
    BY <1>1, <2>2, <2>4 DEF Keys!Encrypts
  <2> QED BY <2>3, <2>4
<1>2. \A alg \in s1 : Keys!Signs(key, alg) \/ Keys!Verifies(key, alg) => Keys!Supports("sign", alg)
  BY DEF Keys!Signs, Keys!Verifies, Keys!Supports
<1>3. ASSUME NEW public \in s2, Keys!Derives(key, key.name, public), key.usages # {}, key.name \in Keys!Asymmetric
      PROVE  key.kind = "private" /\ public.kind = "public"
  <2>1. key.name \in {"ECDH", "X25519"}
    BY <1>0, <1>3, Classes DEF Keys!Derives, Keys!Deriving
  <2>2. Keys!Masks(key.name).public = {} BY <1>0, <2>1, MasksOf
  <2> QED BY <1>0, <1>3, <2>1, <2>2 DEF Keys!Derives, Keys!IsKey
<1>4. \A format \in Keys!Formats : Keys!ExportKey(format, key) # {} => Keys!Supports("exportKey", key.name)
  BY DEF Keys!ExportKey, Keys!Supports
<1> QED BY <1>1, <1>2, <1>3, <1>4

LEMMA KeysInit == Keys!Init => Keys!IInv
<1> SUFFICES ASSUME Keys!Init PROVE Keys!IInv OBVIOUS
<1>1. \A enc \in s3 : Keys!IsEncoding(enc) /\ Keys!Known(enc.mat, s5) /\ enc.mat \notin Keys!Secrets(s6)
  BY KeysAssumption DEF Keys!Init, Keys!Known, Keys!Secrets
<1> QED BY <1>1, KeysAssumption DEF Keys!Init, Keys!IInv

LEMMA KeysImpl == Keys!IInv => Keys!KeysAreSound
<1> SUFFICES ASSUME Keys!IInv PROVE Keys!KeysAreSound OBVIOUS
<1>0. \A key \in s2 : Keys!IsKey(key) BY DEF Keys!IInv
<1>1. Keys!UsagesFit /\ Keys!HandlesFit BY <1>0 DEF Keys!UsagesFit, Keys!HandlesFit, Keys!IsKey
<1>2. Keys!SealedStaySealed BY DEF Keys!IInv, Keys!SealedStaySealed, Keys!Secrets
<1>3. Keys!ExportsComeBack BY <1>0, KeyComesBack DEF Keys!ExportsComeBack
<1> QED BY <1>0, <1>1, <1>2, <1>3, OperationsFitKeys DEF Keys!KeysAreSound

\* A step that makes a key of what is known and of no secret of a sealed key.
LEMMA KeyAdded ==
  ASSUME Keys!IInv, NEW key, s2' = s2 \union {key}, UNCHANGED <<s1, s3, s4, s5, s6>>,
         Keys!IsKey(key), Keys!Known(key.handle.mat, s5), key.extractable => key.handle.mat \notin Keys!Secrets(s6)
  PROVE  Keys!IInv'
  BY DEF Keys!IInv, Keys!Known, Keys!Secrets

LEMMA ImportStep ==
  ASSUME Keys!IInv, NEW name \in s1, NEW format, NEW enc, NEW extractable, NEW asked,
         Keys!IsEncoding(enc), Keys!Known(enc.mat, s5), enc.mat \notin Keys!Secrets(s6),
         Keys!AddImported(name, format, enc, extractable, asked), UNCHANGED <<s1, s3, s4, s5, s6>>
  PROVE  Keys!IInv'
<1>1. PICK key \in Keys!ImportKey(name, format, enc, extractable, asked) : s2' = s2 \union {key}
  BY DEF Keys!AddImported, Keys!Add
<1>2. name \in Keys!Names BY DEF Keys!IInv
<1>3. Keys!IsKey(key) /\ key.handle.mat = enc.mat BY <1>1, <1>2, ImportFits
<1> QED BY <1>1, <1>3, KeyAdded

LEMMA DerivedIsKnown ==
  ASSUME Keys!IInv, NEW key \in s2, NEW shape
  PROVE  LET enc == Keys!Bytes(Keys!Derived(key), shape)
         IN  Keys!IsEncoding(enc) /\ Keys!Known(enc.mat, s5) /\ enc.mat \notin Keys!Secrets(s6)
<1> DEFINE enc == Keys!Bytes(Keys!Derived(key), shape)
<1>1. enc.form = "bytes" /\ enc.mat = Keys!Derived(key) BY DEF Keys!Bytes
<1>2. Keys!Known(key.handle.mat, s5) BY DEF Keys!IInv
<1>3. Keys!Known(Keys!Derived(key), s5) BY <1>2 DEF Keys!Known, Keys!Derived
<1>4. Keys!Derived(key) \notin Keys!Secrets(s6) BY DEF Keys!Secrets, Keys!Derived
<1> QED BY <1>1, <1>3, <1>4 DEF Keys!IsEncoding

LEMMA LearnStep ==
  ASSUME Keys!IInv, NEW enc, Keys!IsEncoding(enc), Keys!Known(enc.mat, s5), enc.mat \notin Keys!Secrets(s6), Keys!Learn(enc),
         UNCHANGED <<s1, s2, s4, s5, s6>>
  PROVE  Keys!IInv'
  BY DEF Keys!IInv, Keys!Learn, Keys!Known, Keys!Secrets

\* What leaves a key is an encoding of it, and only of one that may be exported.
LEMMA ExportedIsKnown ==
  ASSUME Keys!IInv, NEW key \in s2, NEW format, NEW enc \in Keys!ExportKey(format, key)
  PROVE  Keys!IsEncoding(enc) /\ Keys!Known(enc.mat, s5) /\ enc.mat \notin Keys!Secrets(s6)
<1>1. key.extractable /\ key.name \notin Keys!Derivation /\ enc \in Keys!Encoded(format, key) BY DEF Keys!ExportKey
<1>2. Keys!IsKey(key) /\ Keys!Known(key.handle.mat, s5) /\ key.handle.mat \notin Keys!Secrets(s6) BY <1>1 DEF Keys!IInv
<1> QED BY <1>1, <1>2, ExportIs

LEMMA GenerateStep ==
  ASSUME Keys!IInv, NEW name \in s1, NEW extractable \in BOOLEAN, NEW asked,
         Keys!GenerateKey(name, extractable, asked)
  PROVE  Keys!IInv'
<1>0. name \in Keys!Names /\ name \notin Keys!Derivation /\ (name \in Keys!Symmetric \/ name \in Keys!Asymmetric)
  BY DEF Keys!IInv, Keys!GenerateKey, Keys!Names
<1>1. PICK usages \in Keys!Classified(name, "any", asked) :
        Keys!Add(IF name \in Keys!Symmetric
              THEN {Keys!Key(name, "secret", extractable, usages.public,
                        <<s5 + 1, "secret">>, Keys!GeneratedShape(name))}
              ELSE {Keys!Key(name, "private", extractable, usages.private,
                        <<s5 + 1, "secret">>, Keys!GeneratedShape(name)),
                    Keys!Key(name, "public", TRUE, usages.public,
                        <<s5 + 1, "public">>, Keys!PublicShape(name))})
  BY DEF Keys!GenerateKey
<1>2. /\ s5' = s5 + 1 /\ s1' = s1 /\ s3' = s3 /\ s4' = s4
      /\ s6' = IF extractable THEN s6 ELSE s6 \union {s5 + 1}
      /\ s5 \in Nat /\ s6 \subseteq 1..s5
  BY DEF Keys!GenerateKey, Keys!IInv
<1>3. /\ asked # {} /\ asked \subseteq Keys!Masks(name).private \union Keys!Masks(name).public
      /\ usages.private = asked \intersect Keys!Masks(name).private
      /\ usages.public = asked \intersect Keys!Masks(name).public
  BY <1>1 DEF Keys!Classified
<1>4. \A mat : Keys!Known(mat, s5) => Keys!Known(mat, s5') /\ (mat \notin Keys!Secrets(s6) => mat \notin Keys!Secrets(s6'))
  BY <1>2 DEF Keys!Known, Keys!Secrets
<1>5. s6' \subseteq 1..s5' /\ s5' \in Nat BY <1>2
<1>6. ASSUME NEW half \in {"secret", "public"}
      PROVE  /\ Keys!Known(<<s5 + 1, half>>, s5')
             /\ (extractable \/ half = "public") => <<s5 + 1, half>> \notin Keys!Secrets(s6')
  <2>1. s5 + 1 \in 0..s5' /\ half \in {"secret", "public", "derived"} BY <1>2
  <2>2. Keys!Known(<<s5 + 1, half>>, s5') BY <2>1 DEF Keys!Known
  <2>3. (extractable \/ half = "public") => <<s5 + 1, half>> \notin Keys!Secrets(s6')
    BY <1>2 DEF Keys!Secrets
  <2> QED BY <2>2, <2>3
<1>7. ASSUME NEW key \in s2' \ s2
      PROVE  Keys!IsKey(key) /\ Keys!Known(key.handle.mat, s5') /\ (key.extractable => key.handle.mat \notin Keys!Secrets(s6'))
  <2>1. CASE name \in Keys!Symmetric
    <3>1. key = Keys!Key(name, "secret", extractable, usages.public, <<s5 + 1, "secret">>, Keys!GeneratedShape(name))
      BY <1>1, <1>7, <2>1 DEF Keys!Add
    <3>2. /\ key.name = name /\ key.kind = "secret" /\ key.extractable = extractable
          /\ key.usages = usages.public /\ key.handle.mat = <<s5 + 1, "secret">>
          /\ key.handle.shape = Keys!GeneratedShape(name)
      BY <3>1 DEF Keys!Key
    <3>3. Keys!Masks(name).private = {} BY <1>0, <2>1, MasksOf, Classes DEF Keys!Aes
    <3>4. Keys!GeneratedShape(name) \in Keys!ShapesOf(name, "secret")
      <4>1. name \in Keys!Aes \union {"ChaCha20-Poly1305", "HMAC"} BY <1>0, <2>1, Classes
      <4>2. Keys!GeneratedShape(name) = IF name = "HMAC" THEN "64" ELSE "32"
        BY <4>1 DEF Keys!GeneratedShape, Keys!Aes, Keys!Ec, Keys!Rsa, Keys!Modern, Keys!MlDsa, Keys!Kem,
          Keys!MlKem, Keys!HybridKem
      <4> QED BY <1>0, <4>1, <4>2, Shapes
    <3>5. Keys!IsKey(key)
      BY <1>0, <1>3, <2>1, <3>2, <3>3, <3>4, Classes DEF Keys!IsKey, Keys!KindsOf
    <3> QED BY <1>6, <3>2, <3>5
  <2>2. CASE name \notin Keys!Symmetric /\ key.kind = "private"
    <3>1. key = Keys!Key(name, "private", extractable, usages.private, <<s5 + 1, "secret">>, Keys!GeneratedShape(name))
      BY <1>1, <1>7, <2>2 DEF Keys!Add, Keys!Key
    <3>2. /\ key.name = name /\ key.extractable = extractable
          /\ key.usages = usages.private /\ key.handle.mat = <<s5 + 1, "secret">>
          /\ key.handle.shape = Keys!GeneratedShape(name)
      BY <3>1 DEF Keys!Key
    <3>3. Keys!IsKey(key)
      BY <1>0, <1>3, <2>2, <3>2, HalfShapes DEF Keys!IsKey, Keys!KindsOf
    <3> QED BY <1>6, <3>2, <3>3
  <2>3. CASE name \notin Keys!Symmetric /\ key.kind # "private"
    <3>1. key = Keys!Key(name, "public", TRUE, usages.public, <<s5 + 1, "public">>, Keys!PublicShape(name))
      BY <1>1, <1>7, <2>3 DEF Keys!Add, Keys!Key
    <3>2. /\ key.name = name /\ key.kind = "public"
          /\ key.usages = usages.public /\ key.handle.mat = <<s5 + 1, "public">>
          /\ key.handle.shape = Keys!PublicShape(name)
      BY <3>1 DEF Keys!Key
    <3>3. Keys!IsKey(key)
      BY <1>0, <1>3, <2>3, <3>2, HalfShapes DEF Keys!IsKey, Keys!KindsOf
    <3> QED BY <1>6, <3>2, <3>3
  <2> QED BY <2>1, <2>2, <2>3
<1> QED BY <1>2, <1>4, <1>5, <1>7 DEF Keys!IInv

LEMMA KeysNext == Keys!IInv /\ [Keys!Next]_(Keys!vars) => Keys!IInv'
<1> SUFFICES ASSUME Keys!IInv, [Keys!Next]_(Keys!vars) PROVE Keys!IInv' OBVIOUS
<1>1. ASSUME NEW name \in s1, NEW format \in Keys!Formats, NEW enc \in s3, NEW extractable \in BOOLEAN,
             NEW asked, Keys!SubtleImportKey(name, format, enc, extractable, asked)
      PROVE  Keys!IInv'
  BY <1>1, ImportStep DEF Keys!SubtleImportKey, Keys!IInv
<1>2. ASSUME NEW w \in s4, NEW name \in s1, NEW format \in Keys!Formats, NEW key \in s2,
             NEW extractable \in BOOLEAN, NEW asked, Keys!UnwrapKey(w, format, key, name, extractable, asked)
      PROVE  Keys!IInv'
  <2>1. Keys!IsEncoding(w.enc) /\ Keys!Known(w.enc.mat, s5) /\ w.enc.mat \notin Keys!Secrets(s6) BY DEF Keys!IInv
  <2> QED BY <1>2, <2>1, ImportStep DEF Keys!UnwrapKey
<1>3. ASSUME NEW name \in s1, NEW extractable \in BOOLEAN, NEW asked,
             \/ Keys!GenerateKey(name, extractable, asked)
             \/ \E key, public \in s2 : Keys!SubtleDeriveKey(key, public, name, extractable, asked)
             \/ \E key \in s2 : Keys!KemKey(key, name, extractable, asked)
      PROVE  Keys!IInv'
  <2>1. CASE Keys!GenerateKey(name, extractable, asked) BY <2>1, GenerateStep
  <2>2. ASSUME NEW key \in s2, NEW public \in s2, Keys!SubtleDeriveKey(key, public, name, extractable, asked)
        PROVE  Keys!IInv'
    <3> DEFINE enc == Keys!Bytes(Keys!Derived(key), Keys!DerivedShape(name))
    <3>1. Keys!IsEncoding(enc) /\ Keys!Known(enc.mat, s5) /\ enc.mat \notin Keys!Secrets(s6) BY DerivedIsKnown
    <3>2. Keys!AddImported(name, "raw-secret", enc, extractable, asked) /\ UNCHANGED <<s1, s3, s4, s5, s6>>
      BY <2>2 DEF Keys!SubtleDeriveKey
    <3> HIDE DEF enc
    <3> QED BY <3>1, <3>2, ImportStep
  <2>3. ASSUME NEW key \in s2, Keys!KemKey(key, name, extractable, asked) PROVE Keys!IInv'
    <3> DEFINE enc == Keys!Bytes(Keys!Derived(key), "32")
    <3>1. Keys!IsEncoding(enc) /\ Keys!Known(enc.mat, s5) /\ enc.mat \notin Keys!Secrets(s6) BY DerivedIsKnown
    <3>2. Keys!AddImported(name, "raw-secret", enc, extractable, asked) /\ UNCHANGED <<s1, s3, s4, s5, s6>>
      BY <2>3 DEF Keys!KemKey
    <3> HIDE DEF enc
    <3> QED BY <3>1, <3>2, ImportStep
  <2> QED BY <1>3, <2>1, <2>2, <2>3
<1>4. ASSUME NEW key \in s2, Keys!Release(key) PROVE Keys!IInv'
  BY <1>4 DEF Keys!Release, Keys!IInv, Keys!Known, Keys!Secrets
<1>5. ASSUME NEW key \in s2, NEW format \in Keys!Formats, Keys!SubtleExportKey(format, key) PROVE Keys!IInv'
  <2>1. PICK enc \in Keys!ExportKey(format, key) : Keys!Learn(enc) BY <1>5 DEF Keys!SubtleExportKey
  <2>2. UNCHANGED <<s1, s2, s4, s5, s6>> BY <1>5 DEF Keys!SubtleExportKey
  <2> QED BY <2>1, <2>2, ExportedIsKnown, LearnStep
<1>6. ASSUME NEW key \in s2, NEW asked, Keys!GetPublicKey(key, asked) PROVE Keys!IInv'
  <2>1. PICK usages \in Keys!Classified(key.name, "public", asked), handle \in Keys!PublicHandles(key.name, key.handle) :
          Keys!Add({Keys!Key(key.name, "public", TRUE, usages.public, handle.mat, handle.shape)})
    BY <1>6 DEF Keys!GetPublicKey
  <2> DEFINE new == Keys!Key(key.name, "public", TRUE, usages.public, handle.mat, handle.shape)
  <2>2. handle.mat = <<key.handle.mat[1], "public">> /\ handle.shape = Keys!PublicShape(key.name)
    BY <2>1 DEF Keys!PublicHandles
  <2>3. key.name \in Keys!Asymmetric /\ Keys!IsKey(key) /\ Keys!Known(key.handle.mat, s5) BY <1>6 DEF Keys!GetPublicKey, Keys!IInv
  <2>4. usages.public \subseteq Keys!Masks(key.name).public BY <2>1 DEF Keys!Classified
  <2>5. /\ new.name = key.name /\ new.kind = "public" /\ new.usages = usages.public
        /\ new.handle.mat = handle.mat /\ new.handle.shape = handle.shape
    BY DEF Keys!Key
  <2>6. Keys!IsKey(new) BY <2>2, <2>3, <2>4, <2>5, HalfShapes DEF Keys!IsKey, Keys!KindsOf
  <2>7. Keys!Known(handle.mat, s5) /\ handle.mat \notin Keys!Secrets(s6) BY <2>2, <2>3 DEF Keys!Known,
        Keys!Secrets
  <2>8. s2' = s2 \union {new} BY <2>1 DEF Keys!Add
  <2> HIDE DEF new
  <2> QED BY <1>6, <2>5, <2>6, <2>7, <2>8, KeyAdded DEF Keys!GetPublicKey
<1>7. ASSUME NEW key \in s2, NEW wrapping \in s2, NEW alg \in s1, NEW format \in Keys!Formats,
             Keys!WrapKey(format, key, wrapping, alg)
      PROVE  Keys!IInv'
  <2>1. PICK enc \in Keys!ExportKey(format, key) :
          s4' = s4 \union {[enc |-> enc, alg |-> alg, under |-> wrapping.handle.mat[1]]}
    BY <1>7 DEF Keys!WrapKey
  <2>2. Keys!IsEncoding(enc) /\ Keys!Known(enc.mat, s5) /\ enc.mat \notin Keys!Secrets(s6) BY <2>1, ExportedIsKnown
  <2>3. UNCHANGED <<s1, s2, s3, s5, s6>> BY <1>7 DEF Keys!WrapKey
  <2>4. \A w \in s4' : Keys!IsEncoding(w.enc) /\ Keys!Known(w.enc.mat, s5) /\ w.enc.mat \notin Keys!Secrets(s6)
    BY <2>1, <2>2 DEF Keys!IInv
  <2> QED BY <2>3, <2>4 DEF Keys!IInv, Keys!Known, Keys!Secrets
<1>8. ASSUME NEW key \in s2, NEW public \in s2, Keys!DeriveBits(key, public) PROVE Keys!IInv'
  BY <1>8, DerivedIsKnown, LearnStep DEF Keys!DeriveBits
<1>9. ASSUME NEW key \in s2, Keys!KemBits(key) PROVE Keys!IInv'
  BY <1>9, DerivedIsKnown, LearnStep DEF Keys!KemBits
<1>10. CASE UNCHANGED Keys!vars BY <1>10 DEF Keys!vars, Keys!IInv, Keys!Known, Keys!Secrets
<1> QED BY <1>1, <1>2, <1>3, <1>4, <1>5, <1>6, <1>7, <1>8, <1>9, <1>10 DEF Keys!Next, Keys!ReadableAs

LEMMA KeysStaySo == (subject = "keys" => Keys!IInv) /\ [MCNext]_allVars => (subject = "keys" => Keys!IInv)'
<1> SUFFICES ASSUME subject = "keys" => Keys!IInv, [MCNext]_allVars, subject' = "keys" PROVE Keys!IInv'
  OBVIOUS
<1>1. CASE KeysStep BY <1>1, KeysNext DEF KeysStep
<1>2. CASE UNCHANGED allVars BY <1>2, KeysNext DEF allVars, slots, Keys!vars
<1>3. CASE MCNext /\ ~KeysStep
  BY <1>3 DEF MCNext, PermissionsStep, BytesStep, ByteTeeStep, TimersStep, AbortsStep, EmittersStep, KeysStep
<1> QED BY <1>1, <1>2, <1>3

\* Keys are what they say, and the secret of one that is not extractable stays in keys
\* that are not, however many are made, copied, wrapped and derived from (crypto/subtle).
THEOREM KeysHoldTheirSecrets == MCSpec => []KeysAreSound
<1>1. MCInit => (subject = "keys" => Keys!IInv) BY KeysInit DEF MCInit, SlotsUnused
<1>2. (subject = "keys" => Keys!IInv) => KeysAreSound BY KeysImpl DEF KeysAreSound
<1> QED BY <1>1, <1>2, KeysStaySo, PTL DEF MCSpec
===============================================================================
