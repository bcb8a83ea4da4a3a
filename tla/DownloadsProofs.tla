---------------------------- MODULE DownloadsProofs ----------------------------
(***************************************************************************)
(* For any accounts, licences, requests and sizes, and for any lives with  *)
(* LicenceLife + RequestLife < NonceLife: one answer for each nonce and    *)
(* each early loss of its entry, and nothing but licensed bytes.           *)
(***************************************************************************)
EXTENDS Downloads, TLAPS

\* A parsed range: an interval inside the file.
Inside(i, size) ==
  /\ i.start \in Nat /\ i.end \in Int
  /\ i.end < size
  /\ size > 0 => i.start <= i.end
  /\ size = 0 => i.start = 0 /\ i.end = -1

Intervals == [start : Nat, end : Int]

\* A licence was issued in the past, for an interval inside the file of which it
\* permits at least one byte, if there is one.
Issued(l) ==
  licence[l] # Unissued =>
    /\ licence[l].issued <= now
    /\ Inside(licence[l], file.size)
    /\ file.size > 0 => licence[l].max > 0

\* A request works on a licence that was fresh when it began, and is not overdue.
InTime(q) ==
  request[q] # Idle =>
    /\ licence[request[q].licence] # Unissued
    /\ request[q].begun <= licence[request[q].licence].issued + LicenceLife
    /\ now <= request[q].begun + RequestLife

\* An entry outlives its licence.
Remembered(l, n) ==
  cache[<<l, n>>] # 0 =>
    /\ licence[l] # Unissued
    /\ licence[l].issued + NonceLife <= cache[<<l, n>>]

Claimed(q, l, n, e) ==
  /\ request[q] # Idle /\ request[q].step = "claimed"
  /\ request[q].licence = l /\ request[q].nonce = n /\ request[q].evictions = e

\* The entry that follows e evictions has been made.
Made(l, n, e) == e < evicted[<<l, n>>] \/ (e = evicted[<<l, n>>] /\ cache[<<l, n>>] # 0)

\* Whatever was claimed or served had an entry; the claim is the only one of that entry,
\* and has not been served yet.
Single(l, n, e) ==
  /\ served[<<l, n, e>>] # 0 => Made(l, n, e)
  /\ served[<<l, n, e>>] <= 1
  /\ \A q \in Requests : Claimed(q, l, n, e) =>
       /\ Made(l, n, e)
       /\ served[<<l, n, e>>] = 0
       /\ \A r \in Requests : Claimed(r, l, n, e) => r = q

AllSingle(l, n) == \A e \in Evictions : Single(l, n, e)

IInv ==
  /\ TypeOK
  /\ \A l \in Licences : Issued(l)
  /\ \A q \in Requests : InTime(q)
  /\ \A l \in Licences, n \in Nonces : Remembered(l, n) /\ AllSingle(l, n)
  /\ SentAsLicensed

-----------------------------------------------------------------------------

LEMMA ParsedInside ==
  ASSUME NEW size \in Nat, NEW n \in Nat, NEW value \in Ranges(n)
  PROVE  ParseRange(value, size) = Invalid
           \/ (ParseRange(value, size) \in Intervals /\ Inside(ParseRange(value, size), size))
<1>1. CASE value.kind = "absent"
  <2>1. ParseRange(value, size) = Interval(0, size - 1)
    BY <1>1 DEF ParseRange, Whole
  <2>2. Interval(0, size - 1) \in Intervals /\ Inside(Interval(0, size - 1), size)
    BY DEF Interval, Intervals, Inside
  <2> QED
    BY <2>1, <2>2
<1>2. CASE value.kind = "suffix" /\ value.count > 0 /\ size > 0
  <2>1. value.count \in Nat
    BY <1>2 DEF Ranges, Absent, Open, Suffix, Closed
  <2>2. ParseRange(value, size) = Interval(SuffixStart(value.count, size), size - 1)
    BY <1>2 DEF ParseRange
  <2>3. /\ SuffixStart(value.count, size) \in Nat
        /\ SuffixStart(value.count, size) <= size - 1
    BY <2>1, <1>2 DEF SuffixStart, Max2
  <2> QED
    BY <2>2, <2>3, <1>2 DEF Interval, Intervals, Inside
<1>3. CASE value.kind = "open" /\ value.first < size
  <2>1. value.first \in Nat
    BY <1>3 DEF Ranges, Absent, Open, Suffix, Closed
  <2>2. ParseRange(value, size) = Interval(value.first, size - 1)
    BY <1>3 DEF ParseRange
  <2> QED
    BY <2>1, <2>2, <1>3 DEF Interval, Intervals, Inside
<1>4. CASE value.kind = "closed" /\ value.first < size /\ value.first <= value.last
  <2>1. value.first \in Nat /\ value.last \in Nat
    BY <1>4 DEF Ranges, Absent, Open, Suffix, Closed
  <2>2. ParseRange(value, size) = Interval(value.first, Min2(value.last, size - 1))
    BY <1>4 DEF ParseRange
  <2>3. /\ Min2(value.last, size - 1) \in Int
        /\ Min2(value.last, size - 1) < size
        /\ value.first <= Min2(value.last, size - 1)
    BY <2>1, <1>4 DEF Min2
  <2> QED
    BY <2>1, <2>2, <2>3, <1>4 DEF Interval, Intervals, Inside
<1>5. CASE /\ value.kind # "absent"
           /\ ~(value.kind = "suffix" /\ value.count > 0 /\ size > 0)
           /\ ~(value.kind = "open" /\ value.first < size)
           /\ ~(value.kind = "closed" /\ value.first < size /\ value.first <= value.last)
  BY <1>5 DEF ParseRange
<1> QED
  BY <1>1, <1>2, <1>3, <1>4, <1>5

LEMMA LimitBounded ==
  ASSUME NEW size \in Nat, NEW n \in Nat, NEW maximum \in Ceilings(n), MayLimit(maximum, size),
         NEW bounds \in Intervals, Inside(bounds, size)
  PROVE  /\ Limit(maximum, bounds) \in Nat
         /\ size > 0 => Limit(maximum, bounds) > 0
<1>1. /\ Length(bounds) \in Nat
      /\ size > 0 => Length(bounds) > 0
  BY DEF Length, Inside, Intervals
<1>2. CASE maximum = Absent
  BY <1>1, <1>2 DEF Limit
<1>3. CASE maximum # Absent
  <2>1. maximum.count \in Nat
    BY <1>3 DEF Ceilings, Ceiling
  <2>2. size > 0 => maximum.count > 0
    BY <1>3 DEF MayLimit
  <2> QED
    BY <1>1, <1>3, <2>1, <2>2 DEF Limit, Min2
<1> QED
  BY <1>2, <1>3

-----------------------------------------------------------------------------

LEMMA FileSize == TypeOK => file.size \in Nat /\ file.size + 1 \in Nat /\ file.placement \in Placements
<1> SUFFICES ASSUME TypeOK PROVE file.size \in Nat /\ file.size + 1 \in Nat /\ file.placement \in Placements
  OBVIOUS
<1>1. file.size \in Sizes /\ file.placement \in Placements
  BY DEF TypeOK, File
<1>2. file.size \in Nat
  BY <1>1, SizesAssumption
<1> QED
  BY <1>1, <1>2

LEMMA InitInv == Init => IInv
<1> SUFFICES ASSUME Init PROVE IInv
  OBVIOUS
<1> USE SizesAssumption, LivesAssumption, BoundsAssumption
<1>1. TypeOK
  BY DEF Init, TypeOK, File, Evictions
<1>2. \A l \in Licences : Issued(l)
  BY DEF Init, Issued
<1>3. \A q \in Requests : InTime(q)
  BY DEF Init, InTime
<1>4. \A l \in Licences, n \in Nonces : Remembered(l, n) /\ AllSingle(l, n)
  BY DEF Init, Remembered, AllSingle, Single, Claimed
<1>5. SentAsLicensed
  BY DEF Init, SentAsLicensed
<1> QED
  BY <1>1, <1>2, <1>3, <1>4, <1>5 DEF IInv

LEMMA IssueInv ==
  ASSUME IInv, NEW l \in Licences, NEW u \in Users, NEW mode \in Modes,
         NEW range \in Ranges(file.size + 1), NEW maximum \in Ceilings(file.size + 1),
         Issue(l, u, mode, range, maximum)
  PROVE  IInv'
<1> USE SizesAssumption, LivesAssumption, BoundsAssumption
<1> DEFINE bounds == ParseRange(range, file.size)
           new == [user |-> u, version |-> version[u], mode |-> mode,
                   placement |-> file.placement, start |-> bounds.start, end |-> bounds.end,
                   max |-> Limit(maximum, bounds), issued |-> now]
<1>1. /\ licence[l] = Unissued
      /\ bounds # Invalid /\ MayLimit(maximum, file.size)
      /\ licence' = [licence EXCEPT ![l] = new]
      /\ UNCHANGED <<now, file, version, cache, evicted, request, served, sent>>
  BY DEF Issue
<1>2. file.size \in Nat /\ file.size + 1 \in Nat /\ file.placement \in Placements
  BY FileSize DEF IInv
<1>3. bounds \in Intervals /\ Inside(bounds, file.size)
  BY <1>1, <1>2, ParsedInside
<1>4. /\ Limit(maximum, bounds) \in Nat
      /\ file.size > 0 => Limit(maximum, bounds) > 0
  BY <1>1, <1>2, <1>3, LimitBounded
<1> HIDE DEF bounds
<1>5. new \in Payload
  <2>1. version[u] \in Nat /\ now \in Nat
    BY DEF IInv, TypeOK
  <2> QED
    BY <1>2, <1>3, <1>4, <2>1 DEF Payload, Intervals
<1>6. new # Unissued
  BY DEF Unissued
<1>7. licence' \in [Licences -> Payload \cup {Unissued}] /\ licence'[l] = new
      /\ \A k \in Licences \ {l} : licence'[k] = licence[k]
  BY <1>1, <1>5 DEF IInv, TypeOK
<1>8. Inside(new, file.size)
  BY <1>3 DEF Inside, Intervals
<1>9. now \in Nat
  BY DEF IInv, TypeOK
<1> HIDE DEF new
<1>10. TypeOK'
  BY <1>1, <1>7 DEF IInv, TypeOK
<1>11. \A k \in Licences : Issued(k)'
  <2>1. new.issued <= now /\ (file.size > 0 => new.max > 0)
    BY <1>4, <1>9 DEF new
  <2>2. Issued(l)'
    BY <1>1, <1>7, <1>8, <2>1 DEF Issued, Inside
  <2>3. ASSUME NEW k \in Licences \ {l} PROVE Issued(k)'
    <3>1. Issued(k) /\ licence'[k] = licence[k] /\ now' = now /\ file' = file
      BY <2>3, <1>1, <1>7 DEF IInv
    <3> QED
      BY <3>1 DEF Issued, Inside
  <2> QED
    BY <2>2, <2>3
<1>12. \A q \in Requests : InTime(q)'
  <2> SUFFICES ASSUME NEW q \in Requests, request[q] # Idle PROVE InTime(q)'
    BY <1>1 DEF InTime
  <2>1. InTime(q) /\ request[q].licence \in Licences
    BY DEF IInv, TypeOK, InProgress
  <2>2. request[q].licence # l
    BY <2>1, <1>1 DEF InTime
  <2> QED
    BY <2>1, <2>2, <1>1, <1>7 DEF InTime
<1>13. \A k \in Licences, n \in Nonces : Remembered(k, n)' /\ AllSingle(k, n)'
  <2> SUFFICES ASSUME NEW k \in Licences, NEW n \in Nonces PROVE Remembered(k, n)' /\ AllSingle(k, n)'
    OBVIOUS
  <2>1. Remembered(k, n) /\ AllSingle(k, n)
    BY DEF IInv
  <2>2. AllSingle(k, n)'
    BY <1>1, <2>1 DEF AllSingle, Single, Made, Claimed
  <2>3. Remembered(k, n)'
    BY <1>1, <1>7, <2>1 DEF Remembered
  <2> QED
    BY <2>2, <2>3
<1>14. SentAsLicensed'
  <2> SUFFICES ASSUME NEW d \in sent PROVE /\ licence[d.licence] # Unissued
                                           /\ licence'[d.licence] = licence[d.licence]
    BY <1>1 DEF IInv, SentAsLicensed, Length
  <2>1. d.licence \in Licences /\ licence[d.licence] # Unissued
    BY DEF IInv, TypeOK, SentAsLicensed
  <2> QED
    BY <2>1, <1>1, <1>7
<1> QED
  BY <1>10, <1>11, <1>12, <1>13, <1>14 DEF IInv

LEMMA BeginInv ==
  ASSUME IInv, NEW q \in Requests, NEW l \in Licences, NEW n \in Nonces, Begin(q, l, n)
  PROVE  IInv'
<1> USE LivesAssumption
<1> DEFINE new == [step |-> "begun", licence |-> l, nonce |-> n, evictions |-> 0,
                   usable |-> file.usable, begun |-> now]
<1>1. /\ request[q] = Idle /\ licence[l] # Unissued /\ Fresh(l)
      /\ request' = [request EXCEPT ![q] = new]
      /\ UNCHANGED <<now, file, version, licence, cache, evicted, served, sent>>
  BY DEF Begin
<1>2. now \in Nat /\ file.usable \in BOOLEAN
  BY DEF IInv, TypeOK, File
<1>3. new \in InProgress /\ new # Idle
  BY <1>2, BoundsAssumption DEF InProgress, Evictions, Idle
<1>4. request' \in [Requests -> InProgress \cup {Idle}] /\ request'[q] = new
      /\ \A r \in Requests \ {q} : request'[r] = request[r]
  BY <1>1, <1>3 DEF IInv, TypeOK
<1>5. TypeOK'
  BY <1>1, <1>4 DEF IInv, TypeOK
<1>6. \A k \in Licences : Issued(k)'
  BY <1>1 DEF IInv, Issued, Inside
<1>7. \A r \in Requests : InTime(r)'
  <2>1. licence[l] \in Payload /\ licence[l].issued \in Nat
    BY <1>1 DEF IInv, TypeOK, Payload
  <2>2. now <= licence[l].issued + LicenceLife
    BY <1>1, <1>2, <2>1 DEF Fresh
  <2>3. InTime(q)'
    BY <1>1, <1>2, <1>4, <2>2 DEF InTime
  <2>4. ASSUME NEW r \in Requests \ {q} PROVE InTime(r)'
    BY <1>1, <1>4 DEF IInv, InTime
  <2> QED
    BY <2>3, <2>4
<1>8. \A k \in Licences, m \in Nonces : Remembered(k, m)' /\ AllSingle(k, m)'
  <2> SUFFICES ASSUME NEW k \in Licences, NEW m \in Nonces PROVE Remembered(k, m)' /\ AllSingle(k, m)'
    OBVIOUS
  <2>1. Remembered(k, m) /\ AllSingle(k, m)
    BY DEF IInv
  <2>2. \A r \in Requests, e \in Evictions : Claimed(r, k, m, e)' => Claimed(r, k, m, e)
    BY <1>1, <1>4 DEF Claimed
  <2> QED
    BY <1>1, <2>1, <2>2 DEF Remembered, AllSingle, Single, Made
<1>9. SentAsLicensed'
  BY <1>1 DEF IInv, SentAsLicensed
<1> QED
  BY <1>5, <1>6, <1>7, <1>8, <1>9 DEF IInv

\* The claim of a nonce finds no trace of an earlier one.
LEMMA ClaimInv ==
  ASSUME IInv, NEW q \in Requests, Claim(q)
  PROVE  IInv'
<1> USE LivesAssumption
<1>0. request[q] \in InProgress
  BY DEF Claim, IInv, TypeOK
<1> SUFFICES ASSUME NEW l \in Licences, NEW n \in Nonces,
                    request[q].licence = l, request[q].nonce = n
             PROVE  IInv'
  BY <1>0 DEF InProgress
<1> DEFINE c == evicted[<<l, n>>]
<1>1. /\ request[q] # Idle /\ request[q].step = "begun" /\ cache[<<l, n>>] <= now
      /\ cache' = [cache EXCEPT ![<<l, n>>] = now + NonceLife]
      /\ request' = [request EXCEPT ![q].step = "claimed", ![q].evictions = c]
      /\ UNCHANGED <<now, file, version, licence, evicted, served, sent>>
  <2>1. cache[<<l, n>>] \in Nat /\ now \in Nat
    BY DEF IInv, TypeOK
  <2> QED
    BY <2>1 DEF Claim, Cached, Key
<1>3. /\ now \in Nat /\ cache[<<l, n>>] \in Nat /\ request[q].begun \in Nat
      /\ licence[l] # Unissued /\ licence[l].issued \in Nat /\ c \in Evictions
  BY <1>1, <1>0 DEF IInv, TypeOK, InTime, InProgress, Payload
<1>4. now < licence[l].issued + NonceLife
  BY <1>1, <1>0, <1>3 DEF IInv, InTime
<1>5. cache[<<l, n>>] = 0
  BY <1>1, <1>0, <1>3, <1>4 DEF IInv, Remembered
<1>6. request' \in [Requests -> InProgress \cup {Idle}]
      /\ request'[q] = [request[q] EXCEPT !.step = "claimed", !.evictions = c]
      /\ \A r \in Requests \ {q} : request'[r] = request[r]
  BY <1>1, <1>0, <1>3 DEF IInv, TypeOK, InProgress
<1>7. /\ request'[q] # Idle /\ request'[q].step = "claimed" /\ request'[q].licence = l
      /\ request'[q].nonce = n /\ request'[q].begun = request[q].begun
      /\ request'[q].evictions = c
  BY <1>0, <1>6 DEF InProgress, Idle
<1>8. cache' \in [Licences \X Nonces -> Nat] /\ cache'[<<l, n>>] = now + NonceLife
      /\ \A k \in Licences, m \in Nonces : <<k, m>> # <<l, n>> => cache'[<<k, m>>] = cache[<<k, m>>]
  BY <1>1, <1>3 DEF IInv, TypeOK
<1>9. TypeOK'
  BY <1>1, <1>6, <1>8 DEF IInv, TypeOK
<1>10. \A k \in Licences : Issued(k)'
  BY <1>1 DEF IInv, Issued, Inside
<1>11. \A r \in Requests : InTime(r)'
  <2>1. InTime(q)'
    BY <1>1, <1>6, <1>7 DEF IInv, InTime
  <2>2. ASSUME NEW r \in Requests \ {q} PROVE InTime(r)'
    BY <1>1, <1>6 DEF IInv, InTime
  <2> QED
    BY <2>1, <2>2
<1>12. \A k \in Licences, m \in Nonces : Remembered(k, m)' /\ AllSingle(k, m)'
  <2> SUFFICES ASSUME NEW k \in Licences, NEW m \in Nonces PROVE Remembered(k, m)' /\ AllSingle(k, m)'
    OBVIOUS
  <2>1. Remembered(k, m) /\ AllSingle(k, m)
    BY DEF IInv
  <2>2. CASE k = l /\ m = n
    <3>1. Issued(l)
      BY <1>0 DEF IInv
    <3>2. Remembered(l, n)'
      BY <1>1, <1>3, <1>8, <3>1 DEF Remembered, Issued
    <3>3. ASSUME NEW e \in Evictions PROVE Single(l, n, e)'
      <4>1. Single(l, n, e)
        BY <2>1, <2>2 DEF AllSingle
      <4>2. CASE e = c
        <5>1. ~Made(l, n, c)
          BY <1>3, <1>5 DEF Made, Evictions
        <5>2. \A r \in Requests : ~Claimed(r, l, n, e)
          BY <4>1, <4>2, <5>1 DEF Single
        <5>3. \A r \in Requests : Claimed(r, l, n, e)' => r = q
          BY <1>6, <5>2 DEF Claimed
        <5>4. served'[<<l, n, e>>] = 0
          BY <1>1, <4>1, <4>2, <5>1 DEF Single
        <5>5. cache'[<<l, n>>] # 0 /\ evicted' = evicted
          BY <1>1, <1>3, <1>8
        <5>6. Made(l, n, e)'
          BY <4>2, <5>5 DEF Made
        <5> QED
          BY <5>3, <5>4, <5>6 DEF Single
      <4>3. CASE e # c
        <5>1. \A r \in Requests : Claimed(r, l, n, e)' => Claimed(r, l, n, e)
          BY <1>6, <1>7, <4>3 DEF Claimed
        <5>2. Made(l, n, e) => Made(l, n, e)'
          BY <1>1, <4>3 DEF Made
        <5> QED
          BY <1>1, <4>1, <5>1, <5>2 DEF Single
      <4> QED
        BY <4>2, <4>3
    <3> QED
      BY <2>2, <3>2, <3>3 DEF AllSingle
  <2>3. CASE ~(k = l /\ m = n)
    <3>1. cache'[<<k, m>>] = cache[<<k, m>>]
      BY <1>8, <2>3
    <3>2. \A r \in Requests, e \in Evictions : Claimed(r, k, m, e)' => Claimed(r, k, m, e)
      BY <1>6, <1>7, <2>3 DEF Claimed
    <3>3. Remembered(k, m)'
      BY <1>1, <2>1, <3>1 DEF Remembered
    <3>4. \A e \in Evictions : Made(k, m, e) => Made(k, m, e)'
      BY <1>1, <3>1 DEF Made
    <3> QED
      BY <1>1, <2>1, <3>2, <3>3, <3>4 DEF AllSingle, Single
  <2> QED
    BY <2>2, <2>3
<1>13. SentAsLicensed'
  BY <1>1 DEF IInv, SentAsLicensed
<1> QED
  BY <1>9, <1>10, <1>11, <1>12, <1>13 DEF IInv

\* A request that ends leaves no claim.
LEMMA EndStep ==
  ASSUME IInv, NEW q \in Requests, End(q)
  PROVE  /\ request' \in [Requests -> InProgress \cup {Idle}]
         /\ \A r \in Requests : request'[r] # Idle => r # q /\ request'[r] = request[r]
         /\ \A r \in Requests, l \in Licences, n \in Nonces, e \in Evictions :
              Claimed(r, l, n, e)' => r # q /\ Claimed(r, l, n, e)
<1>1. request \in [Requests -> InProgress \cup {Idle}] /\ request' = [request EXCEPT ![q] = Idle]
  BY DEF End, IInv, TypeOK
<1> QED
  BY <1>1 DEF Claimed

LEMMA GiveUpInv ==
  ASSUME IInv, NEW q \in Requests, Replay(q) \/ Fail(q)
  PROVE  IInv'
<1>1. End(q) /\ UNCHANGED <<now, file, version, licence, cache, evicted, served, sent>>
  BY DEF Replay, Fail
<1>2. /\ request' \in [Requests -> InProgress \cup {Idle}]
      /\ \A r \in Requests : request'[r] # Idle => r # q /\ request'[r] = request[r]
      /\ \A r \in Requests, l \in Licences, n \in Nonces, e \in Evictions :
           Claimed(r, l, n, e)' => r # q /\ Claimed(r, l, n, e)
  BY <1>1, EndStep
<1>3. TypeOK'
  BY <1>1, <1>2 DEF IInv, TypeOK
<1>4. \A l \in Licences : Issued(l)'
  BY <1>1 DEF IInv, Issued, Inside
<1>5. \A r \in Requests : InTime(r)'
  BY <1>1, <1>2 DEF IInv, InTime
<1>6. \A l \in Licences, n \in Nonces : Remembered(l, n)' /\ AllSingle(l, n)'
  <2> SUFFICES ASSUME NEW l \in Licences, NEW n \in Nonces PROVE Remembered(l, n)' /\ AllSingle(l, n)'
    OBVIOUS
  <2>1. Remembered(l, n) /\ AllSingle(l, n)
    BY DEF IInv
  <2>2. Remembered(l, n)'
    BY <1>1, <2>1 DEF Remembered
  <2>3. AllSingle(l, n)'
    BY <1>1, <1>2, <2>1 DEF AllSingle, Single, Made
  <2> QED
    BY <2>2, <2>3
<1>7. SentAsLicensed'
  BY <1>1 DEF IInv, SentAsLicensed
<1> QED
  BY <1>3, <1>4, <1>5, <1>6, <1>7 DEF IInv

LEMMA ServeInv ==
  ASSUME IInv, NEW q \in Requests, NEW range \in Ranges(file.size + 1), Serve(q, range)
  PROVE  IInv'
<1>1. request[q] # Idle /\ request[q] \in InProgress
  BY DEF Serve, IInv, TypeOK
<1> SUFFICES ASSUME NEW l \in Licences, NEW n \in Nonces, NEW c \in Evictions,
                    request[q].licence = l, request[q].nonce = n, request[q].evictions = c
             PROVE  IInv'
  BY <1>1 DEF InProgress
<1> DEFINE bounds == ParseRange(range, file.size)
           d == [licence |-> l, placement |-> file.placement,
                 start |-> bounds.start, end |-> bounds.end]
<1>2. /\ Claimed(q, l, n, c) /\ Pinned(l) /\ bounds # Invalid /\ Permits(l, bounds)
      /\ sent' = sent \cup {d}
      /\ served' = [served EXCEPT ![<<l, n, c>>] = @ + 1]
      /\ End(q)
      /\ UNCHANGED <<now, file, version, licence, cache, evicted>>
  BY DEF Serve, Claimed, Key
<1>3. file.size \in Nat /\ file.size + 1 \in Nat /\ file.placement \in Placements
  BY FileSize DEF IInv
<1>4. bounds \in Intervals /\ Inside(bounds, file.size)
  BY <1>2, <1>3, ParsedInside
<1> HIDE DEF bounds
<1>5. /\ request' \in [Requests -> InProgress \cup {Idle}]
      /\ \A r \in Requests : request'[r] # Idle => r # q /\ request'[r] = request[r]
      /\ \A r \in Requests, k \in Licences, m \in Nonces, e \in Evictions :
           Claimed(r, k, m, e)' => r # q /\ Claimed(r, k, m, e)
  BY <1>2, EndStep
<1>6. /\ served[<<l, n, c>>] = 0 /\ Made(l, n, c)
      /\ \A r \in Requests : Claimed(r, l, n, c) => r = q
  BY <1>2 DEF IInv, AllSingle, Single
<1>7. /\ served' \in [Licences \X Nonces \X Evictions -> Nat]
      /\ served'[<<l, n, c>>] = 1
      /\ \A k \in Licences, m \in Nonces, e \in Evictions :
           <<k, m, e>> # <<l, n, c>> => served'[<<k, m, e>>] = served[<<k, m, e>>]
  BY <1>2, <1>6 DEF IInv, TypeOK
<1>8. d \in [licence : Licences, placement : Placements, start : Nat, end : Int]
  BY <1>3, <1>4 DEF Intervals
<1>9. TypeOK'
  BY <1>2, <1>5, <1>7, <1>8 DEF IInv, TypeOK
<1>10. \A k \in Licences : Issued(k)'
  BY <1>2 DEF IInv, Issued, Inside
<1>11. \A r \in Requests : InTime(r)'
  BY <1>2, <1>5 DEF IInv, InTime
<1>12. \A k \in Licences, m \in Nonces : Remembered(k, m)' /\ AllSingle(k, m)'
  <2> SUFFICES ASSUME NEW k \in Licences, NEW m \in Nonces PROVE Remembered(k, m)' /\ AllSingle(k, m)'
    OBVIOUS
  <2>1. Remembered(k, m) /\ AllSingle(k, m)
    BY DEF IInv
  <2>2. Remembered(k, m)'
    BY <1>2, <2>1 DEF Remembered
  <2>3. ASSUME NEW e \in Evictions PROVE Single(k, m, e)'
    <3>1. Single(k, m, e)
      BY <2>1 DEF AllSingle
    <3>2. Made(k, m, e)' = Made(k, m, e)
      BY <1>2 DEF Made
    <3>3. CASE k = l /\ m = n /\ e = c
      <4>1. \A r \in Requests : ~Claimed(r, l, n, c)'
        BY <1>5, <1>6
      <4>2. Made(l, n, c)'
        BY <1>6, <3>2, <3>3
      <4>3. Single(l, n, c)'
        BY <1>7, <4>1, <4>2 DEF Single
      <4> QED
        BY <3>3, <4>3
    <3>4. CASE ~(k = l /\ m = n /\ e = c)
      <4>1. served'[<<k, m, e>>] = served[<<k, m, e>>]
        BY <1>7, <3>4
      <4> QED
        BY <1>5, <3>1, <3>2, <4>1 DEF Single
    <3> QED
      BY <3>3, <3>4
  <2> QED
    BY <2>2, <2>3 DEF AllSingle
<1>13. SentAsLicensed'
  <2>1. licence[l] # Unissued /\ licence[l] \in Payload
    BY <1>1 DEF IInv, InTime, TypeOK
  <2>2. /\ d.licence = l /\ d.placement = licence[l].placement
        /\ 0 <= d.start /\ d.end < file.size
        /\ licence[l].start <= d.start /\ d.end <= licence[l].end
        /\ Length(d) <= licence[l].max
    BY <1>2, <1>4 DEF Pinned, Permits, Length, Inside, Intervals
  <2>3. ASSUME NEW e \in sent
        PROVE  LET k == licence[e.licence] IN
                 /\ k # Unissued
                 /\ 0 <= e.start /\ e.end < file.size
                 /\ k.start <= e.start /\ e.end <= k.end
                 /\ Length(e) <= k.max
                 /\ e.placement = k.placement
    BY DEF IInv, SentAsLicensed
  <2> HIDE DEF d
  <2> QED
    BY <1>2, <2>1, <2>2, <2>3 DEF SentAsLicensed, Length
<1> QED
  BY <1>9, <1>10, <1>11, <1>12, <1>13 DEF IInv

\* What happens outside the requests.
LEMMA OutsideInv ==
  ASSUME IInv,
         Tick \/ Rescan \/ Retire \/ (\E p \in Placements : Replace(p))
           \/ (\E u \in Users : ChangeAccount(u))
  PROVE  IInv'
<1> USE LivesAssumption, BoundsAssumption
<1>1. /\ UNCHANGED <<licence, cache, evicted, request, served, sent>>
      /\ file'.size = file.size
  <2>1. file \in File
    BY DEF IInv, TypeOK
  <2> QED
    BY <2>1 DEF File, Tick, Rescan, Retire, Replace, ChangeAccount
<1>2. now \in Nat /\ now' \in Nat /\ now <= now'
      /\ \A q \in Requests : request[q] # Idle /\ now # now' => now' <= request[q].begun + RequestLife
  <2>1. \A q \in Requests : request[q] # Idle => request[q].begun \in Nat
    BY DEF IInv, TypeOK, InProgress
  <2> QED
    BY <2>1 DEF IInv, TypeOK, Tick, Rescan, Retire, Replace, ChangeAccount
<1>3. TypeOK'
  <2>1. CASE Tick
    BY <2>1 DEF IInv, TypeOK, Tick
  <2>2. CASE Rescan \/ Retire \/ \E p \in Placements : Replace(p)
    BY <2>2 DEF IInv, TypeOK, File, Rescan, Retire, Replace
  <2>3. ASSUME NEW u \in Users, ChangeAccount(u) PROVE TypeOK'
    BY <2>3 DEF IInv, TypeOK, ChangeAccount
  <2> QED
    BY <2>1, <2>2, <2>3
<1>4. \A l \in Licences : Issued(l)'
  <2> SUFFICES ASSUME NEW l \in Licences, licence[l] # Unissued PROVE Issued(l)'
    BY <1>1 DEF Issued
  <2>1. Issued(l) /\ licence[l].issued \in Nat
    BY DEF IInv, TypeOK, Payload
  <2> QED
    BY <1>1, <1>2, <2>1 DEF Issued, Inside
<1>5. \A q \in Requests : InTime(q)'
  BY <1>1, <1>2 DEF IInv, InTime
<1>6. \A l \in Licences, n \in Nonces : Remembered(l, n)' /\ AllSingle(l, n)'
  <2> SUFFICES ASSUME NEW l \in Licences, NEW n \in Nonces PROVE Remembered(l, n)' /\ AllSingle(l, n)'
    OBVIOUS
  <2>1. Remembered(l, n) /\ AllSingle(l, n)
    BY DEF IInv
  <2>2. Remembered(l, n)'
    BY <1>1, <2>1 DEF Remembered
  <2>3. AllSingle(l, n)'
    BY <1>1, <2>1 DEF AllSingle, Single, Made, Claimed
  <2> QED
    BY <2>2, <2>3
<1>7. SentAsLicensed'
  BY <1>1 DEF IInv, SentAsLicensed
<1> QED
  BY <1>3, <1>4, <1>5, <1>6, <1>7 DEF IInv

\* An entry that is lost takes its claims and its answer with it.
LEMMA EvictInv ==
  ASSUME IInv, NEW l \in Licences, NEW n \in Nonces, Evict(<<l, n>>)
  PROVE  IInv'
<1> DEFINE c == evicted[<<l, n>>]
<1>1. /\ c < MaxEvictions
      /\ cache' = [cache EXCEPT ![<<l, n>>] = 0]
      /\ evicted' = [evicted EXCEPT ![<<l, n>>] = c + 1]
      /\ UNCHANGED <<now, file, version, licence, request, served, sent>>
  BY DEF Evict
<1>2. c \in Nat /\ c + 1 \in Evictions
  BY <1>1, BoundsAssumption DEF IInv, TypeOK, Evictions
<1> HIDE DEF c
<1>3. /\ cache' \in [Licences \X Nonces -> Nat] /\ cache'[<<l, n>>] = 0
      /\ evicted' \in [Licences \X Nonces -> Evictions] /\ evicted'[<<l, n>>] = c + 1
      /\ \A k \in Licences, m \in Nonces : <<k, m>> # <<l, n>> =>
           cache'[<<k, m>>] = cache[<<k, m>>] /\ evicted'[<<k, m>>] = evicted[<<k, m>>]
  BY <1>1, <1>2 DEF IInv, TypeOK
<1>4. TypeOK'
  BY <1>1, <1>3 DEF IInv, TypeOK
<1>5. (\A k \in Licences : Issued(k)') /\ (\A q \in Requests : InTime(q)') /\ SentAsLicensed'
  BY <1>1 DEF IInv, Issued, Inside, InTime, SentAsLicensed
<1>6. \A k \in Licences, m \in Nonces : Remembered(k, m)' /\ AllSingle(k, m)'
  <2> SUFFICES ASSUME NEW k \in Licences, NEW m \in Nonces PROVE Remembered(k, m)' /\ AllSingle(k, m)'
    OBVIOUS
  <2>1. Remembered(k, m) /\ AllSingle(k, m)
    BY DEF IInv
  <2>2. Remembered(k, m)'
    BY <1>1, <1>3, <2>1 DEF Remembered
  <2>3. ASSUME NEW e \in Evictions PROVE Made(k, m, e) => Made(k, m, e)'
    <3>1. CASE k = l /\ m = n
      <4>1. Made(l, n, e) => e < c + 1
        BY <1>2 DEF Made, Evictions, c
      <4> QED
        BY <1>3, <3>1, <4>1 DEF Made
    <3>2. CASE ~(k = l /\ m = n)
      BY <1>3, <3>2 DEF Made
    <3> QED
      BY <3>1, <3>2
  <2>4. AllSingle(k, m)'
    BY <1>1, <2>1, <2>3 DEF AllSingle, Single, Claimed
  <2> QED
    BY <2>2, <2>4
<1> QED
  BY <1>4, <1>5, <1>6 DEF IInv

-----------------------------------------------------------------------------

LEMMA NextInv == IInv /\ [Next]_vars => IInv'
<1> SUFFICES ASSUME IInv, [Next]_vars PROVE IInv'
  OBVIOUS
<1>1. CASE \E l \in Licences, u \in Users, mode \in Modes :
             \E range \in Ranges(file.size + 1), maximum \in Ceilings(file.size + 1) :
               Issue(l, u, mode, range, maximum)
  BY <1>1, IssueInv
<1>2. CASE \E q \in Requests, l \in Licences, n \in Nonces : Begin(q, l, n)
  BY <1>2, BeginInv
<1>3. CASE \E q \in Requests : Claim(q)
  BY <1>3, ClaimInv
<1>4. CASE \E q \in Requests : Replay(q) \/ Fail(q)
  BY <1>4, GiveUpInv
<1>5. CASE \E q \in Requests : \E range \in Ranges(file.size + 1) : Serve(q, range)
  BY <1>5, ServeInv
<1>6. CASE \/ Tick \/ Rescan \/ Retire \/ (\E p \in Placements : Replace(p))
           \/ (\E u \in Users : ChangeAccount(u))
  BY <1>6, OutsideInv
<1>7. CASE \E k \in Licences \X Nonces : Evict(k)
  BY <1>7, EvictInv
<1>8. CASE UNCHANGED vars
  BY <1>8 DEF vars, IInv, TypeOK, Issued, Inside, InTime, Remembered, AllSingle, Single, Made,
              Claimed, SentAsLicensed
<1> QED
  BY <1>1, <1>2, <1>3, <1>4, <1>5, <1>6, <1>7, <1>8 DEF Next

LEMMA Inductive == Spec => []IInv
  BY InitInv, NextInv, PTL DEF Spec

\* The variables keep their types.
THEOREM DownloadsTypeOK == Spec => []TypeOK
<1>1. IInv => TypeOK
  BY DEF IInv
<1> QED
  BY <1>1, Inductive, PTL

\* However many requests race and however long the clock runs, a licence gives one answer
\* for each request nonce, and one more for each time the cache loses the entry early: this
\* needs LicenceLife + RequestLife < NonceLife, which 600 s, 60 s and 900 s satisfy.
THEOREM DownloadsServedOnce == Spec => []ServedOnce
<1>1. IInv => ServedOnce
  BY DEF IInv, AllSingle, Single, ServedOnce
<1> QED
  BY <1>1, Inductive, PTL

\* Whatever ranges and limits are asked for, the bytes sent lie in the file and in the
\* licence, and come from the licensed placement.
THEOREM DownloadsSentAsLicensed == Spec => []SentAsLicensed
<1>1. IInv => SentAsLicensed
  BY DEF IInv
<1> QED
  BY <1>1, Inductive, PTL

\* A licence for a file with bytes permits its first byte, one for an empty file all of it.
LEMMA CanBeUsed ==
  ASSUME IInv, NEW l \in Licences, licence[l] # Unissued
  PROVE  \E range \in Ranges(file.size) :
           LET bounds == ParseRange(range, file.size) IN bounds # Invalid /\ Permits(l, bounds)
<1>1. file.size \in Nat
  BY FileSize DEF IInv
<1>2. /\ licence[l].start \in Nat /\ licence[l].end \in Int /\ licence[l].max \in Nat
      /\ Inside(licence[l], file.size)
      /\ file.size > 0 => licence[l].max > 0
  BY DEF IInv, TypeOK, Payload, Issued
<1>3. CASE file.size = 0
  <2>1. Absent \in Ranges(file.size)
    BY DEF Ranges
  <2>2. ParseRange(Absent, file.size) = Interval(0, -1)
    BY <1>3 DEF ParseRange, Absent, Whole
  <2>3. Interval(0, -1) # Invalid /\ Permits(l, Interval(0, -1))
    BY <1>2, <1>3 DEF Interval, Invalid, Permits, Length, Inside
  <2> QED
    BY <2>1, <2>2, <2>3
<1>4. CASE file.size > 0
  <2> DEFINE first == licence[l].start
  <2>1. first \in 0 .. file.size /\ first < file.size
    BY <1>1, <1>2, <1>4 DEF Inside
  <2>2. Closed(first, first) \in Ranges(file.size)
    BY <2>1 DEF Ranges
  <2>3. ParseRange(Closed(first, first), file.size) = Interval(first, first)
    BY <1>1, <1>2, <2>1 DEF ParseRange, Closed, Min2
  <2>4. Interval(first, first) # Invalid /\ Permits(l, Interval(first, first))
    BY <1>2, <1>4 DEF Interval, Invalid, Permits, Length, Inside
  <2> QED
    BY <2>2, <2>3, <2>4
<1> QED
  BY <1>1, <1>3, <1>4

\* No size, range or limit makes a licence that permits nothing.
THEOREM DownloadsLicencesCanBeUsed == Spec => []LicencesCanBeUsed
<1>1. IInv => LicencesCanBeUsed
  BY CanBeUsed DEF LicencesCanBeUsed
<1> QED
  BY <1>1, Inductive, PTL
=============================================================================
