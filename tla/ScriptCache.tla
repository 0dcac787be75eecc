----------------------------- MODULE ScriptCache -----------------------------
(***************************************************************************)
(* The compiled scripts of a realm (script_cache.rs), as script_body uses  *)
(* them.  Nothing is awaited between get and put.                          *)
(***************************************************************************)
EXTENDS Naturals, FiniteSets, Sequences, SequencesExt

CONSTANTS
    Sources,
    HashOf,     \* [Sources -> hashes]; two sources may have one hash
    Limit,      \* of entries
    MaxCalls    \* bounds the clock

VARIABLES
    entries,    \* hash -> the source it was compiled from and when it was used
    clock,
    called,     \* the source whose compiled form was called last
    recent      \* the sources called, the last one first, one for each hash

vars == <<entries, clock, called, recent>>

Init == entries = <<>> /\ clock = 0 /\ called = <<>> /\ recent = <<>>

Used(hash, source) ==
    [h \in DOMAIN entries \union {hash} |->
        IF h = hash THEN [source |-> source, used |-> clock + 1] ELSE entries[h]]

Oldest == CHOOSE h \in DOMAIN entries : \A i \in DOMAIN entries : entries[h].used <= entries[i].used

\* Variant: the hash is trusted.
Hits_AnySource(source) == HashOf[source] \in DOMAIN entries

\* get
Hits(source) == HashOf[source] \in DOMAIN entries /\ entries[HashOf[source]].source = source

\* put: a full table gives up its oldest entry, unless the new one takes the
\* place of one it has.
Put(source) ==
    LET hash == HashOf[source]
        evicts == Cardinality(DOMAIN entries) >= Limit /\ hash \notin DOMAIN entries
    IN  IF evicts
        THEN [h \in (DOMAIN entries \ {Oldest}) \union {hash} |-> Used(hash, source)[h]]
        ELSE Used(hash, source)

Call(source) ==
    LET hash == HashOf[source]
    IN  /\ clock < MaxCalls /\ clock' = clock + 1
        /\ entries' = IF Hits(source) THEN [entries EXCEPT ![hash].used = clock + 1] ELSE Put(source)
        /\ called' = <<source, entries'[hash].source>>
        /\ recent' = <<source>> \o SelectSeq(recent, LAMBDA s : HashOf[s] # hash)

Next == \E source \in Sources : Call(source)

Spec == Init /\ [][Next]_vars

-----------------------------------------------------------------------------
(* Properties *)

\* What is called was compiled from the source that was asked for, whatever its
\* hash (get).
RightScript == called # <<>> => called[1] = called[2]

\* The table is that of the scripts used last, as many as the limit (put).
LeastRecentGoes ==
    LET kept == SubSeq(recent, 1, IF Len(recent) < Limit THEN Len(recent) ELSE Limit)
    IN  {entries[h].source : h \in DOMAIN entries} = ToSet(kept)
=============================================================================
