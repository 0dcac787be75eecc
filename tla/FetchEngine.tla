----------------------------- MODULE FetchEngine -----------------------------
(***************************************************************************)
(* One request on its way through redirects, challenges and retries        *)
(* (send in crates/ferrijs-fetch/src/engine.rs), against a server that     *)
(* answers whatever it likes and a jar others use too (cookie.rs).         *)
(*                                                                         *)
(* A host is the sequence of its labels from the top-level one down, a     *)
(* path the sequence of its segments.  A cookie's name is left out: one of *)
(* another name never meets this one.  `expired' is what the clock makes   *)
(* of `expires'; `from' remembers the host that set the cookie.            *)
(* An Authorization value is the origin it was meant for.  A unit of time  *)
(* is the first retry's backoff.                                           *)
(***************************************************************************)
EXTENDS Naturals, Sequences, SequencesExt

CONSTANTS
    Urls,           \* [scheme, host, path]
    RawCookies,     \* what servers put in Set-Cookie
    Answered,       \* the origins the request has credentials for
    Timeout,
    MaxRetries,
    MaxRedirects,   \* Request::max_redirects
    None

VARIABLES
    req,        \* method, url, body, auth, redirect, credentials; explicit cookie
    remaining,  \* redirects that may still be followed, or None
    first,      \* whether this is the first hop
    phase,
    attempt,    \* retries of this hop so far
    now,
    jar,
    hop,        \* what the last attempt put on the wire
    hops,       \* hops so far
    orig        \* the request as it came in

vars == <<req, remaining, first, phase, attempt, now, jar, hop, hops, orig>>

-----------------------------------------------------------------------------
(* Which cookies a jar keeps, and which of them go with a request. *)

IsLocal(host) == host # <<>> /\ host[1] = "localhost"

\* A dotted domain covers the hosts below it, any other one its own host.
DomainMatches(host, cookie) ==
    IF cookie.dotted THEN IsPrefix(cookie.domain, host) ELSE host = cookie.domain

PathMatches(path, cookie) == IsPrefix(cookie.path, path)

\* Variant: a secure cookie goes over http.
MatchesUrl_AnyScheme(cookie, url) ==
    /\ DomainMatches(url.host, cookie)
    /\ PathMatches(url.path, cookie)
    /\ ~cookie.expired

MatchesUrl(cookie, url) ==
    /\ cookie.secure => url.scheme = "https" \/ IsLocal(url.host)
    /\ DomainMatches(url.host, cookie)
    /\ PathMatches(url.path, cookie)
    /\ ~cookie.expired

\* A Set-Cookie with the defaults its response gives it: no domain is the
\* host's own, no path is the directory of the request's.
Parsed(raw, url) ==
    [domain |-> IF raw.domain = <<>> THEN url.host ELSE raw.domain,
     dotted |-> Len(raw.domain) > 1,
     path |-> IF raw.path = "default"
              THEN IF url.path = <<>> THEN <<>> ELSE Front(url.path)
              ELSE <<>>,
     secure |-> raw.secure, expired |-> raw.expired, from |-> url.host]

\* A cookie for a domain its setter is not in is dropped.
Accepted(raws, url) ==
    {cookie \in {Parsed(raw, url) : raw \in raws} : DomainMatches(url.host, cookie)}

SameCookie(a, b) == a.domain = b.domain /\ a.dotted = b.dotted /\ a.path = b.path

\* CookieJar::add: a new cookie replaces its like, an expired one deletes it.
Added(kept, cookies) ==
    {c \in kept : \A new \in cookies : ~SameCookie(c, new)}
      \union {new \in cookies : ~new.expired}

-----------------------------------------------------------------------------

Origin(url) == <<url.scheme, url.host>>

Requests ==
    {r \in [method : {"GET", "POST", "PUT"}, url : Urls, body : {"none", "bytes", "stream"},
            auth : {None} \union {Origin(u) : u \in Urls}, cookie : BOOLEAN,
            redirect : {"follow", "manual", "error"}, credentials : {"omit", "include"}] :
        /\ r.method = "GET" => r.body = "none"
        /\ r.auth \in {None, Origin(r.url)}}

\* follow_budget
FollowBudget(redirect) == IF redirect = "follow" /\ MaxRedirects > 0 THEN MaxRedirects ELSE None

Init ==
    /\ req \in Requests
    /\ remaining = FollowBudget(req.redirect)
    /\ first = TRUE /\ phase = "build"
    /\ attempt = 0 /\ now = 0
    /\ jar = {} /\ hop = None /\ hops = 0
    /\ orig = req

-----------------------------------------------------------------------------
(* A hop *)

\* hop_headers: the jar's cookies for this url, unless the caller's own
\* header stands, as it does on the first hop.
CookiesFor(url) ==
    IF req.credentials = "omit" \/ (first /\ req.cookie) THEN {}
    ELSE {cookie \in jar : MatchesUrl(cookie, url)}

\* check_url lets the policy, which a host may narrow at any time, refuse.
RefusedByGuard ==
    /\ phase = "build"
    /\ phase' = "denied"
    /\ UNCHANGED <<req, remaining, first, attempt, now, jar, hop, hops, orig>>

BuildHop ==
    /\ phase = "build"
    /\ phase' = "attempt" /\ attempt' = 0
    /\ hop' = [url |-> req.url, method |-> req.method, auth |-> req.auth, body |-> "unsent",
               cookies |-> CookiesFor(req.url)]
    /\ hops' = hops + 1
    /\ UNCHANGED <<req, remaining, first, now, jar, orig>>

\* send_hop: a stream is moved into the first attempt, bytes are copied.
Send ==
    /\ phase = "attempt" /\ now < Timeout
    /\ phase' = "wire"
    /\ hop' = [hop EXCEPT !.body = req.body]
    /\ req' = [req EXCEPT !.body = IF @ = "stream" THEN "none" ELSE @]
    /\ UNCHANGED <<remaining, first, attempt, now, jar, hops, orig>>

TooLate ==
    /\ phase = "attempt" /\ now >= Timeout
    /\ phase' = "timeout"
    /\ UNCHANGED <<req, remaining, first, attempt, now, jar, hop, hops, orig>>

\* The transport gives up at the deadline, not later.
Tick ==
    /\ phase = "wire" /\ now < Timeout
    /\ now' = now + 1
    /\ UNCHANGED <<req, remaining, first, phase, attempt, jar, hop, hops, orig>>

Backoff(n) == 2 ^ (IF n = 0 THEN 0 ELSE n - 1)

\* Variant: a stream is sent again, with nothing left in it.
ConnectionReset_Resends ==
    /\ phase = "wire"
    /\ IF attempt < MaxRetries
       THEN /\ attempt' = attempt + 1
            /\ now' = now + Backoff(attempt + 1)
            /\ phase' = "attempt"
       ELSE phase' = "failed" /\ UNCHANGED <<attempt, now>>
    /\ UNCHANGED <<req, remaining, first, jar, hop, hops, orig>>

\* A reset is tried again after its backoff, which takes no notice of the
\* deadline; a request whose stream is gone is not.
ConnectionReset ==
    /\ phase = "wire"
    /\ IF hop.body # "stream" /\ attempt < MaxRetries
       THEN /\ attempt' = attempt + 1
            /\ now' = now + Backoff(attempt + 1)
            /\ phase' = "attempt"
       ELSE phase' = "failed" /\ UNCHANGED <<attempt, now>>
    /\ UNCHANGED <<req, remaining, first, jar, hop, hops, orig>>

OtherFailure ==
    /\ phase = "wire"
    /\ phase' = "failed"
    /\ UNCHANGED <<req, remaining, first, attempt, now, jar, hop, hops, orig>>

-----------------------------------------------------------------------------
(* A response *)

\* store_set_cookies
Stored(raws) == IF req.credentials = "omit" THEN jar ELSE Added(jar, Accepted(raws, req.url))

\* Variant: the header travels on to another origin.
Rewritten_KeepsAuthorization(status, next) ==
    LET toGet == \/ status = 301 /\ req.method = "POST"
                 \/ status = 303 /\ req.method # "GET"
    IN [req EXCEPT !.url = next,
                   !.method = IF toGet THEN "GET" ELSE @,
                   !.body = IF toGet THEN "none" ELSE @]

\* rewrite_for_redirect
Rewritten(status, next) ==
    LET toGet == \/ status = 301 /\ req.method = "POST"
                 \/ status = 303 /\ req.method # "GET"
    IN [req EXCEPT !.url = next,
                   !.method = IF toGet THEN "GET" ELSE @,
                   !.body = IF toGet THEN "none" ELSE @,
                   !.auth = IF Origin(next) = Origin(req.url) THEN @ ELSE None]

\* A redirect that is followed, refused or over the budget.
Redirected(status, next, raws) ==
    /\ phase = "wire" /\ remaining # None
    /\ jar' = Stored(raws)
    /\ IF remaining = 0 \/ (orig.body = "stream" /\ status # 303)
       THEN phase' = "refused" /\ UNCHANGED <<req, remaining, first>>
       ELSE /\ req' = Rewritten(status, next)
            /\ remaining' = remaining - 1
            /\ first' = FALSE
            /\ phase' = "build"
    /\ UNCHANGED <<attempt, now, hop, hops, orig>>

\* challenge_answer: a Basic challenge to a request without Authorization is
\* answered for the url that challenged, and the hop is sent again.
Challenged(raws) ==
    /\ phase = "wire"
    /\ hop.auth = None /\ Origin(req.url) \in Answered /\ orig.body # "stream"
    /\ jar' = Stored(raws)
    /\ req' = [req EXCEPT !.auth = Origin(req.url)]
    /\ phase' = "build"
    /\ UNCHANGED <<remaining, first, attempt, now, hop, hops, orig>>

\* Whatever else comes back is the response; a redirect is refused with
\* redirect: "error", or when its Location is no url.
Answer(raws) ==
    /\ phase = "wire"
    /\ jar' = Stored(raws)
    /\ \/ phase' = "answered"
       \/ req.redirect # "manual" /\ phase' = "refused"
    /\ UNCHANGED <<req, remaining, first, attempt, now, hop, hops, orig>>

\* The host, or another request of the pool, changes the jar.
JarChanges ==
    /\ phase \in {"build", "wire"}
    /\ jar' = {} /\ jar # {}
    /\ UNCHANGED <<req, remaining, first, phase, attempt, now, hop, hops, orig>>

\* At most one cookie to a response.
Raws == {{}} \union {{raw} : raw \in RawCookies}

Next ==
    \/ RefusedByGuard \/ BuildHop \/ Send \/ TooLate \/ Tick
    \/ ConnectionReset \/ OtherFailure \/ JarChanges
    \/ \E raws \in Raws :
        \/ \E status \in {301, 303, 307}, next \in Urls : Redirected(status, next, raws)
        \/ Challenged(raws)
        \/ Answer(raws)

Spec == Init /\ [][Next]_vars

-----------------------------------------------------------------------------
(* Properties *)

\* A hop's Authorization header is for the origin it goes to, its cookies are for a
\* domain that host and their setter's are in, secure ones on no plain connection.
CarriesItsOwn(h) ==
    /\ h.auth \in {None, Origin(h.url)}
    /\ \A cookie \in h.cookies :
        /\ \/ cookie.from = h.url.host
           \/ /\ cookie.dotted
              /\ IsPrefix(cookie.domain, cookie.from)
              /\ IsPrefix(cookie.domain, h.url.host)
        /\ cookie.secure => h.url.scheme = "https" \/ IsLocal(h.url.host)
    /\ orig.credentials = "omit" => h.cookies = {}

\* Over any redirects and challenges, an Authorization header reaches only the
\* origin it was meant for, a cookie only hosts in the domain of its setter, and
\* a secure one no plain connection (rewrite_for_redirect, hop_headers).
CredentialsStayHome == hop # None => CarriesItsOwn(hop)

\* The server gets the payload whole or a request turned into a GET, never a
\* method that has a body without it, and a stream goes once (send).
PayloadIsWhole ==
    hop # None /\ hop.body # "unsent" =>
        IF hop.method = orig.method THEN hop.body = orig.body
        ELSE hop.method = "GET" /\ hop.body = "none"

\* However server, transport and challenges go on, a url is asked at most twice
\* per redirect, and the request is over by the deadline but for one backoff.
RequestIsBounded ==
    /\ hops <= 2 * (MaxRedirects + 1)
    /\ now <= Timeout + Backoff(MaxRetries)
    /\ phase = "wire" => now <= Timeout

\* What a request sends, to whom, and for how long (send).
RequestsAreGoverned == CredentialsStayHome /\ PayloadIsWhole /\ RequestIsBounded

-----------------------------------------------------------------------------
(* The inductive invariant the proofs of MCHost go by.                     *)
(*                                                                         *)
(* What a hop carries is settled when it is built: the request's header is *)
(* for the request's own origin by then, and every cookie of the jar is in *)
(* the domain of its setter.  A method that has a body still has it while  *)
(* an attempt can be made.  And a hop leaves for the next one only with a  *)
(* redirect fewer or with the header its challenge asked for.              *)

Origins == {Origin(u) : u \in Urls}
RequestType ==
    [method : {"GET", "POST", "PUT"}, url : Urls, body : {"none", "bytes", "stream"},
     auth : {None} \union Origins, cookie : BOOLEAN,
     redirect : {"follow", "manual", "error"}, credentials : {"omit", "include"}]
IsHop(h) ==
    h = [url |-> h.url, method |-> h.method, auth |-> h.auth, body |-> h.body, cookies |-> h.cookies]

Typed ==
    /\ req \in RequestType /\ orig \in RequestType
    /\ remaining \in {None} \union (0..MaxRedirects)
    /\ attempt \in 0..MaxRetries
    /\ now \in Nat /\ hops \in Nat
    /\ phase \in {"build", "attempt", "wire", "denied", "timeout", "failed", "refused", "answered"}

HeaderIsForItsOrigin ==
    /\ req.auth \in {None, Origin(req.url)}
    /\ req.credentials = orig.credentials

JarIsHonest == \A cookie \in jar : DomainMatches(cookie.from, cookie)

HopIsTheRequests ==
    phase \in {"attempt", "wire"} =>
        /\ IsHop(hop) /\ CarriesItsOwn(hop)
        /\ hop.url = req.url /\ hop.method = req.method /\ hop.auth = req.auth

BodyIsThere ==
    /\ orig.method = "GET" => orig.body = "none"
    /\ phase \in {"build", "attempt", "wire"} =>
          IF req.method # orig.method THEN req.method = "GET" /\ req.body = "none"
          ELSE IF phase = "wire" /\ orig.body = "stream" THEN req.body = "none" /\ hop.body = "stream"
          ELSE req.body = orig.body

RedirectsLeft == IF remaining = None THEN 0 ELSE remaining
HopsToCome ==
    2 * RedirectsLeft + (IF phase = "build" THEN 1 ELSE 0) + (IF req.auth = None THEN 1 ELSE 0)
HopsAreFew ==
    /\ hops <= 2 * (MaxRedirects + 1)
    /\ phase \in {"build", "attempt", "wire"} => hops + HopsToCome <= 2 * (MaxRedirects + 1)

IInv ==
    /\ Typed /\ HeaderIsForItsOrigin /\ JarIsHonest /\ HopIsTheRequests /\ BodyIsThere
    /\ HopsAreFew /\ CredentialsStayHome /\ PayloadIsWhole

\* With retries the clock runs past the deadline by the last backoff alone.
OnTime ==
    /\ now <= Timeout \/ (attempt > 0 /\ now <= Timeout + Backoff(attempt))
    /\ phase \in {"build", "wire"} => now <= Timeout

ConstantsOK ==
    /\ MaxRetries \in Nat /\ MaxRedirects \in Nat /\ Timeout \in Nat
    /\ None \notin Nat /\ None \notin Origins

\* Powers of two are numbers, and grow: the provers know no arithmetic of `^'.
DoublingGrows == \A m, n \in Nat : m <= n => 2 ^ m \in Nat /\ 2 ^ m <= 2 ^ n
=============================================================================
