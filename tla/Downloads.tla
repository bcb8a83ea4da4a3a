------------------------------- MODULE Downloads -------------------------------
(***************************************************************************)
(* Downloads of a released file: attachment_version_download issues        *)
(* licences and attachment_version_content serves bytes on them            *)
(* (plm/attachment_views.py).                                              *)
(*                                                                         *)
(* A request for content reads the version, the licence and the account,   *)
(* then adds licence nonce and request nonce to the cache, then looks at   *)
(* the release again and serves.  Other requests, the clock, a rescan, the *)
(* end of the release and a change of the account come between.  The cache *)
(* is a Redis that evicts any key when it is full and keeps nothing over a *)
(* restart (allkeys-lru, save "", appendonly no in docker-compose.yaml).   *)
(*                                                                         *)
(* Mode "draft" is left out: nothing makes a placement in the draft tier,  *)
(* so _context refuses it.  Times are in the units of the three lives.     *)
(***************************************************************************)
EXTENDS Integers

CONSTANTS
  Users,       \* accounts
  Licences,    \* licences that can be issued
  Nonces,      \* request nonces that clients choose
  Requests,    \* requests for content at work at a time
  Placements,  \* release placements of the file
  Sizes,       \* sizes the file may have
  LicenceLife, \* max_age of a licence (600 s)
  NonceLife,   \* timeout of a cache entry (900 s)
  RequestLife, \* a worker that is silent for longer is killed (gunicorn --timeout 60)
  MaxTime,     \* bound: the clock
  MaxChanges,  \* bound: changes of an account
  MaxEvictions \* bound: evictions of one cache entry

ASSUME SizesAssumption == Sizes \subseteq Nat
ASSUME LivesAssumption ==
  /\ LicenceLife \in Nat /\ NonceLife \in Nat /\ RequestLife \in Nat
  /\ LicenceLife + RequestLife < NonceLife
ASSUME BoundsAssumption == MaxTime \in Nat /\ MaxChanges \in Nat /\ MaxEvictions \in Nat

VARIABLES
  now,     \* the clock
  file,    \* the AttachmentVersion, its placement and its release
  version, \* version[u]: permission_version
  licence, \* licence[l]: the signed payload, or Unissued
  cache,   \* cache[l, n]: when the entry expires, or 0 where there is none
  evicted, \* evicted[l, n]: history, how often the entry went before it expired
  request, \* request[q]: a request in progress, or Idle
  served,  \* served[l, n, e]: history, answers on the entry made after e evictions
  sent     \* history: the byte intervals sent

vars == <<now, file, version, licence, cache, evicted, request, served, sent>>

Modes == {"current", "historical"}
Unissued == [state |-> "unissued"]
Idle == [step |-> "idle"]

File == [size : Sizes, usable : BOOLEAN, released : BOOLEAN, placement : Placements]
Payload == [user : Users, version : Nat, mode : Modes, placement : Placements,
            start : Nat, end : Int, max : Nat, issued : Nat]
Evictions == 0 .. MaxEvictions
InProgress == [step : {"begun", "claimed"}, licence : Licences, nonce : Nonces,
               evictions : Evictions, usable : BOOLEAN, begun : Nat]

TypeOK ==
  /\ now \in 0 .. MaxTime
  /\ file \in File
  /\ version \in [Users -> 0 .. MaxChanges]
  /\ licence \in [Licences -> Payload \cup {Unissued}]
  /\ cache \in [Licences \X Nonces -> Nat]
  /\ evicted \in [Licences \X Nonces -> Evictions]
  /\ request \in [Requests -> InProgress \cup {Idle}]
  /\ served \in [Licences \X Nonces \X Evictions -> Nat]
  /\ sent \in SUBSET [licence : Licences, placement : Placements, start : Nat, end : Int]

Init ==
  /\ now = 0
  /\ \E size \in Sizes, p \in Placements :
       file = [size |-> size, usable |-> TRUE, released |-> TRUE, placement |-> p]
  /\ version = [u \in Users |-> 0]
  /\ licence = [l \in Licences |-> Unissued]
  /\ cache = [k \in Licences \X Nonces |-> 0]
  /\ evicted = [k \in Licences \X Nonces |-> 0]
  /\ request = [q \in Requests |-> Idle]
  /\ served = [k \in Licences \X Nonces \X Evictions |-> 0]
  /\ sent = {}

-----------------------------------------------------------------------------
(* Byte ranges.                                                            *)

Absent == [kind |-> "absent"]
Invalid == [kind |-> "invalid"]

\* A Range value: Absent, "bytes=first-", "bytes=first-last" or "bytes=-suffix".
Open(first) == [kind |-> "open", first |-> first]
Closed(first, last) == [kind |-> "closed", first |-> first, last |-> last]
Suffix(count) == [kind |-> "suffix", count |-> count]
Ranges(n) ==
  {Absent} \cup {Open(i) : i \in 0 .. n} \cup {Suffix(i) : i \in 0 .. n}
           \cup {Closed(i, j) : i \in 0 .. n, j \in 0 .. n}

Min2(a, b) == IF a < b THEN a ELSE b
Max2(a, b) == IF a > b THEN a ELSE b
Interval(start, end) == [start |-> start, end |-> end]
Length(i) == i.end - i.start + 1
Whole(size) == Interval(0, size - 1)

\* Mutant: a suffix longer than the file begins before it.
SuffixStart_Long(count, size) == size - count

SuffixStart(count, size) == Max2(0, size - count)

\* _parse_range, with the whole file where it returns None.
ParseRange(value, size) ==
  CASE value.kind = "absent" -> Whole(size)
    [] value.kind = "suffix" /\ value.count > 0 /\ size > 0 ->
         Interval(SuffixStart(value.count, size), size - 1)
    [] value.kind = "open" /\ value.first < size -> Interval(value.first, size - 1)
    [] value.kind = "closed" /\ value.first < size /\ value.first <= value.last ->
         Interval(value.first, Min2(value.last, size - 1))
    [] OTHER -> Invalid

Ceiling(count) == [kind |-> "ceiling", count |-> count]
Ceilings(n) == {Absent} \cup {Ceiling(i) : i \in 0 .. n}

\* Mutant: a limit of no bytes is accepted.
MayLimit_Zero(maximum, size) == TRUE

MayLimit(maximum, size) == maximum # Absent /\ size > 0 => maximum.count > 0

\* _download_bounds: what max_bytes becomes.
Limit(maximum, bounds) ==
  IF maximum = Absent THEN Length(bounds) ELSE Min2(maximum.count, Length(bounds))

-----------------------------------------------------------------------------

\* _context
Context(mode) == file.released \/ mode = "historical"

\* attachment_version_download
Issue(l, u, mode, range, maximum) ==
  /\ licence[l] = Unissued
  /\ file.usable
  /\ Context(mode)
  /\ LET bounds == ParseRange(range, file.size) IN
       /\ bounds # Invalid
       /\ MayLimit(maximum, file.size)
       /\ licence' = [licence EXCEPT ![l] =
            [user |-> u, version |-> version[u], mode |-> mode,
             placement |-> file.placement, start |-> bounds.start, end |-> bounds.end,
             max |-> Limit(maximum, bounds), issued |-> now]]
  /\ UNCHANGED <<now, file, version, cache, evicted, request, served, sent>>

\* Mutant: a licence has no age.
Fresh_Ageless(l) == TRUE

Fresh(l) == now - licence[l].issued <= LicenceLife

\* attachment_version_content begins: version, licence and account are read.
Begin(q, l, n) ==
  /\ request[q] = Idle
  /\ licence[l] # Unissued
  /\ Fresh(l)
  /\ licence[l].version = version[licence[l].user]
  /\ request' = [request EXCEPT ![q] =
       [step |-> "begun", licence |-> l, nonce |-> n, evictions |-> 0,
        usable |-> file.usable, begun |-> now]]
  /\ UNCHANGED <<now, file, version, licence, cache, evicted, served, sent>>

Key(q) == <<request[q].licence, request[q].nonce>>

Cached(k) == now < cache[k]

End(q) == request' = [request EXCEPT ![q] = Idle]

\* cache.add makes the entry, or finds it there: DOWNLOAD_NONCE_REPLAY.  ("evictions" is
\* history: those of the entry before this one.)
Claim(q) ==
  /\ request[q] # Idle /\ request[q].step = "begun"
  /\ ~Cached(Key(q))
  /\ cache' = [cache EXCEPT ![Key(q)] = now + NonceLife]
  /\ request' = [request EXCEPT ![q].step = "claimed", ![q].evictions = evicted[Key(q)]]
  /\ UNCHANGED <<now, file, version, licence, evicted, served, sent>>

Replay(q) ==
  /\ request[q] # Idle /\ request[q].step = "begun"
  /\ Cached(Key(q))
  /\ End(q)
  /\ UNCHANGED <<now, file, version, licence, cache, evicted, served, sent>>

Pinned(l) == file.placement = licence[l].placement

\* Mutant: only the ends of the interval are compared.
Permits_AnyLength(l, bounds) == licence[l].start <= bounds.start /\ bounds.end <= licence[l].end

Permits(l, bounds) ==
  /\ licence[l].start <= bounds.start /\ bounds.end <= licence[l].end
  /\ Length(bounds) <= licence[l].max

\* The context is read afresh, but not whether the file is usable.
Serve(q, range) ==
  /\ request[q] # Idle /\ request[q].step = "claimed"
  /\ request[q].usable
  /\ LET l == request[q].licence  bounds == ParseRange(range, file.size) IN
       /\ Context(licence[l].mode)
       /\ Pinned(l)
       /\ bounds # Invalid
       /\ Permits(l, bounds)
       /\ sent' = sent \cup {[licence |-> l, placement |-> file.placement,
                             start |-> bounds.start, end |-> bounds.end]}
  /\ served' = [served EXCEPT ![<<request[q].licence, request[q].nonce, request[q].evictions>>] = @ + 1]
  /\ End(q)
  /\ UNCHANGED <<now, file, version, licence, cache, evicted>>

\* The request is refused, the store fails, or the worker dies.
Fail(q) ==
  /\ request[q] # Idle
  /\ End(q)
  /\ UNCHANGED <<now, file, version, licence, cache, evicted, served, sent>>

-----------------------------------------------------------------------------
(* What happens meanwhile.                                                 *)

\* No request outlives RequestLife.
Tick ==
  /\ now < MaxTime
  /\ \A q \in Requests : request[q] # Idle => now < request[q].begun + RequestLife
  /\ now' = now + 1
  /\ UNCHANGED <<file, version, licence, cache, evicted, request, served, sent>>

\* scan_attachment runs again, and once more.
Rescan ==
  /\ file' = [file EXCEPT !.usable = ~@]
  /\ UNCHANGED <<now, version, licence, cache, evicted, request, served, sent>>

\* The revision becomes obsolete.
Retire ==
  /\ file.released
  /\ file' = [file EXCEPT !.released = FALSE]
  /\ UNCHANGED <<now, version, licence, cache, evicted, request, served, sent>>

\* An operator makes another placement the visible one.
Replace(p) ==
  /\ file.placement # p
  /\ file' = [file EXCEPT !.placement = p]
  /\ UNCHANGED <<now, version, licence, cache, evicted, request, served, sent>>

\* The cache loses an entry before its time: it was full, or was restarted.
Evict(k) ==
  /\ Cached(k)
  /\ evicted[k] < MaxEvictions
  /\ cache' = [cache EXCEPT ![k] = 0]
  /\ evicted' = [evicted EXCEPT ![k] = @ + 1]
  /\ UNCHANGED <<now, file, version, licence, request, served, sent>>

\* See SessionSecurity.
ChangeAccount(u) ==
  /\ version[u] < MaxChanges
  /\ version' = [version EXCEPT ![u] = @ + 1]
  /\ UNCHANGED <<now, file, licence, cache, evicted, request, served, sent>>

Next ==
  \/ \E l \in Licences, u \in Users, mode \in Modes :
       \E range \in Ranges(file.size + 1), maximum \in Ceilings(file.size + 1) :
         Issue(l, u, mode, range, maximum)
  \/ \E q \in Requests, l \in Licences, n \in Nonces : Begin(q, l, n)
  \/ \E q \in Requests : Claim(q)
  \/ \E q \in Requests : Replay(q)
  \/ \E q \in Requests : \E range \in Ranges(file.size + 1) : Serve(q, range)
  \/ \E q \in Requests : Fail(q)
  \/ Tick
  \/ Rescan
  \/ Retire
  \/ \E p \in Placements : Replace(p)
  \/ \E k \in Licences \X Nonces : Evict(k)
  \/ \E u \in Users : ChangeAccount(u)

Spec == Init /\ [][Next]_vars

-----------------------------------------------------------------------------
(* Correctness.                                                            *)

\* A licence is good for one answer per request nonce, however many requests race for it
\* and although entries expire, since they outlive the licence: except that each time the
\* cache loses the entry early, it is good for one more.
ServedOnce == \A k \in Licences \X Nonces \X Evictions : served[k] <= 1

\* What is sent lies inside the file and inside the licensed interval, is no longer than
\* the licence allows, and comes from the placement that the licence names, whatever
\* became visible since.
SentAsLicensed ==
  \A d \in sent :
    LET l == licence[d.licence] IN
      /\ l # Unissued
      /\ 0 <= d.start /\ d.end < file.size
      /\ l.start <= d.start /\ d.end <= l.end
      /\ Length(d) <= l.max
      /\ d.placement = l.placement

\* No licence is issued that could not be used: some Range header passes its checks.
LicencesCanBeUsed ==
  \A l \in Licences : licence[l] # Unissued =>
    \E range \in Ranges(file.size) :
      LET bounds == ParseRange(range, file.size) IN bounds # Invalid /\ Permits(l, bounds)
=============================================================================
