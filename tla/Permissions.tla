----------------------------- MODULE Permissions -----------------------------
(***************************************************************************)
(* The policy of a realm (Container in crates/ferrijs-permissions, drop in *)
(* crates/ferrijs-std/src/permissions.rs).                                 *)
(*                                                                         *)
(* A check is made against a snapshot of the policy, so it is an operator  *)
(* here; the hook that may grant what a check refused, and the audit, are  *)
(* the host's.  The host narrows the policy from any thread, and so does   *)
(* the script, which drops a kind by way of a copy of the policy.          *)
(*                                                                         *)
(* What rules cover is a parameter, and how the rules on hosts and paths   *)
(* are read is at the end.  There a host is the sequence of its labels     *)
(* from the top-level one down, so that a suffix of its spelling is a      *)
(* prefix, and `*.com' ends in the label "*"; a path is the sequence of    *)
(* its components, kept twice: as written and normalised, and as the       *)
(* filesystem resolves it.                                                 *)
(***************************************************************************)
EXTENDS Naturals, Sequences, SequencesExt

CONSTANTS
    Kinds,              \* read, write, net, env, sys
    RulesOf(_),         \* the entries of the allow and deny lists of a kind
    Resources,          \* what checks ask for
    Covers(_, _),       \* whether a rule covers a resource
    Subsumes(_, _),     \* whether a rule grants all that another does
    Policies,           \* what realms start from and hosts narrow to
    NoKind              \* stands for a drop() that is not under way

Rules == UNION {RulesOf(kind) : kind \in Kinds}

Grant == [all : BOOLEAN, only : SUBSET Rules, deny : SUBSET Rules]

ASSUME NoKindAssumption == NoKind \notin Kinds

ASSUME PoliciesAssumption == Policies \subseteq [Kinds -> Grant]

\* What intersecting lists relies on, and nothing more.
ASSUME SubsumesAssumption ==
    \A a \in Rules :
        /\ Subsumes(a, a)
        /\ \A b \in Rules : Subsumes(a, b) =>
               /\ \A c \in Rules : Subsumes(b, c) => Subsumes(a, c)
               /\ \A x \in Resources : Covers(b, x) => Covers(a, x)

VARIABLES
    policy,     \* Container::policy
    dropping,   \* the kind that drop() is giving up, if it is at it
    copy        \* the policy as drop() copied it

vars == <<policy, dropping, copy>>

\* Allow::None is a list without entries.
Nothing == [all |-> FALSE, only |-> {}, deny |-> {}]

\* check_path, check_net, check_env, check_sys: a denial wins.
Granted(grant, resource) ==
    /\ \A rule \in grant.deny : ~Covers(rule, resource)
    /\ grant.all \/ \E rule \in grant.only : Covers(rule, resource)

\* What one list keeps of its entries next to another.
Kept(mine, theirs) == {e \in mine : \E rule \in theirs : Subsumes(rule, e)}

\* Variant: an entry is kept that covers one of the other side's.
Intersect_Widens(mine, theirs) ==
    [all |-> mine.all /\ theirs.all,
     only |-> CASE mine.all -> theirs.only
                [] theirs.all -> mine.only
                [] OTHER -> {e \in mine.only \union theirs.only :
                                \E rule \in mine.only : Subsumes(e, rule)},
     deny |-> mine.deny \union theirs.deny]

\* intersect_with for a kind, and merged for its denials.
Intersect(mine, theirs) ==
    [all |-> mine.all /\ theirs.all,
     only |-> CASE mine.all -> theirs.only
                [] theirs.all -> mine.only
                [] OTHER -> Kept(mine.only, theirs.only) \union Kept(theirs.only, mine.only),
     deny |-> mine.deny \union theirs.deny]

\* Permissions::intersect.
IntersectAll(mine, theirs) == [k \in Kinds |-> Intersect(mine[k], theirs[k])]

Init ==
    /\ policy \in Policies
    /\ dropping = NoKind
    /\ copy = policy

Revoke(remaining) ==
    /\ policy' = IntersectAll(policy, remaining)
    /\ UNCHANGED <<dropping, copy>>

\* The copy, the push and the exchange happen under the lock.
Deny(kind, rule) ==
    /\ policy' = [policy EXCEPT ![kind].deny = @ \union {rule}]
    /\ UNCHANGED <<dropping, copy>>

\* drop() of a kind as a whole: copy the policy and clear the kind ...
DropCopies(kind) ==
    /\ dropping = NoKind
    /\ dropping' = kind
    /\ copy' = [policy EXCEPT ![kind].all = FALSE, ![kind].only = {}]
    /\ UNCHANGED policy

\* ... then narrow the policy, by now perhaps another, to what is left.
DropRevokes ==
    /\ dropping # NoKind
    /\ policy' = IntersectAll(policy, copy)
    /\ dropping' = NoKind
    /\ copy' = policy'

Next ==
    \/ \E remaining \in Policies : Revoke(remaining)
    \/ \E kind \in Kinds : \E rule \in RulesOf(kind) : Deny(kind, rule)
    \/ \E kind \in Kinds : DropCopies(kind)
    \/ DropRevokes

Spec == Init /\ [][Next]_vars

-----------------------------------------------------------------------------
(* What the entries of a grant cover. *)

AnyPort == 0

IsWildcard(host) == Len(host) > 1 /\ Last(host) = "*"

\* Variant: a wildcard is matched without its dot, and covers siblings.
HostCovers_AnySuffix(entry, host) ==
    \/ entry = host
    \/ IsWildcard(entry) /\ (host = <<>> \/ entry[1] = host[1])

\* `*.suffix' covers the suffix itself and whatever ends in it.
HostCovers(entry, host) ==
    \/ entry = host
    \/ IsWildcard(entry) /\ IsPrefix(Front(entry), host)

\* A rule without a port covers any.
NetCovers(rule, request) ==
    /\ HostCovers(rule.host, request.host)
    /\ rule.port \in {AnyPort, request.port}

\* Variant: the ports are not compared.
NetSubsumes_AnyPort(rule, other) == HostCovers(rule.host, other.host)

NetSubsumes(rule, other) ==
    /\ HostCovers(rule.host, other.host)
    /\ rule.port \in {AnyPort, other.port}

PathCovers(rule, path) ==
    /\ IsPrefix(rule.lexical, path.lexical)
    /\ IsPrefix(rule.resolved, path.resolved)

-----------------------------------------------------------------------------
(* Properties *)

PolicyTypeOK == policy \in [Kinds -> Grant] /\ copy \in [Kinds -> Grant]

\* One grant is no wider than another: it denies all the other does, and each
\* of its entries is within one of the other's.
Within(narrow, wide) ==
    /\ wide.deny \subseteq narrow.deny
    /\ \/ wide.all
       \/ ~narrow.all /\ \A e \in narrow.only : \E rule \in wide.only : Subsumes(rule, e)

\* "It can only ever narrow": whatever host and script do, a resource that the
\* policy once refused it refuses for ever, hook aside.
NeverWidened ==
    \A kind \in Kinds, resource \in Resources :
        Granted(policy[kind], resource)' => Granted(policy[kind], resource)

\* drop() of one kind gives up that kind and nothing else, even when the policy
\* was narrowed between its copy and its revoke.
DropKeepsTheRest ==
    DropRevokes =>
        \A kind \in Kinds, resource \in Resources :
            Granted(policy[kind], resource)' <=>
                kind # dropping /\ Granted(policy[kind], resource)

\* Revoke, deny and drop only narrow the policy, and by no more than asked.
PolicyOnlyNarrows == [][NeverWidened /\ DropKeepsTheRest]_vars

-----------------------------------------------------------------------------
(* The inductive invariant *)

\* The copy drop() works from is of the policy as it was: the policy has stayed
\* within it since, but for the kind that is dropped.
CopyIsOlder ==
    /\ copy \in [Kinds -> Grant]
    /\ \A kind \in Kinds : kind # dropping => Within(policy[kind], copy[kind])
    /\ \A kind \in Kinds : kind = dropping => copy[kind].all = FALSE /\ copy[kind].only = {}

IInv == PolicyTypeOK /\ CopyIsOlder
=============================================================================
