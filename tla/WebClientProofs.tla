--------------------------- MODULE WebClientProofs ---------------------------
(***************************************************************************)
(* Proofs about the pages of the web client, for any number of tabs, files *)
(* and notes and any number of calls in flight.  Every page keeps an       *)
(* invariant of its own; a step of the client is a step of one page and    *)
(* leaves the others alone.                                                *)
(***************************************************************************)
EXTENDS WebClient, FiniteSetTheorems, SequenceTheorems, TLAPS

-----------------------------------------------------------------------------
(* Lists of calls in flight.                                               *)

\* The calls on their way are numbered from one, and each is a call.
LEMMA SeqFacts ==
  ASSUME NEW S, NEW s \in Seq(S)
  PROVE  /\ Len(s) \in Nat /\ DOMAIN s = 1..Len(s)
         /\ \A i \in DOMAIN s : s[i] \in S
OBVIOUS

\* A function on an initial segment is such a list.
LEMMA FunctionIsSeq ==
  ASSUME NEW S, NEW n \in Nat, NEW f \in [1..n -> S]
  PROVE  f \in Seq(S)
BY SeqDef

\* A call that is sent comes last, and the others stay where they are.
LEMMA AppendFacts ==
  ASSUME NEW S, NEW s \in Seq(S), NEW x \in S
  PROVE  LET a == Append(s, x)
         IN /\ a \in Seq(S) /\ DOMAIN a = DOMAIN s \cup {Len(s) + 1} /\ Len(s) + 1 \notin DOMAIN s
            /\ a[Len(s) + 1] = x /\ \A k \in DOMAIN s : a[k] = s[k]
OBVIOUS

\* A call that the server executed stays where it is.
LEMMA ExceptFacts ==
  ASSUME NEW S, NEW s \in Seq(S), NEW i \in DOMAIN s, NEW x \in S
  PROVE  LET e == [s EXCEPT ![i] = x]
         IN /\ e \in Seq(S) /\ DOMAIN e = DOMAIN s
            /\ e[i] = x /\ \A k \in DOMAIN s \ {i} : e[k] = s[k]
OBVIOUS

\* Where the k-th call was before the i-th one was answered.
Before(i, k) == IF k < i THEN k ELSE k + 1

\* What is left when the i-th call was answered.
LEMMA RemoveAtFacts ==
  ASSUME NEW S, NEW s \in Seq(S), NEW i \in DOMAIN s
  PROVE  /\ RemoveAt(s, i) \in Seq(S)
         /\ Len(RemoveAt(s, i)) = Len(s) - 1
         /\ \A k \in 1..(Len(s) - 1) : RemoveAt(s, i)[k] = s[Before(i, k)]
<1> DEFINE a == SubSeq(s, 1, i - 1)
           b == SubSeq(s, i + 1, Len(s))
<1>0. i \in 1..Len(s) /\ Len(s) \in Nat
  OBVIOUS
<1>1. a \in Seq(S) /\ Len(a) = i - 1 /\ \A k \in 1..(i - 1) : a[k] = s[k]
  OBVIOUS
<1>2. b \in Seq(S) /\ Len(b) = Len(s) - i /\ \A k \in 1..(Len(s) - i) : b[k] = s[i + k]
  OBVIOUS
<1>3. RemoveAt(s, i) = a \o b
  BY DEF RemoveAt
<1> HIDE DEF a, b
<1>4. \A k \in 1..(Len(s) - 1) : (a \o b)[k] = IF k < i THEN a[k] ELSE b[k - (i - 1)]
  <2>1. \A k \in 1 .. Len(a) + Len(b) : (a \o b)[k] = IF k <= Len(a) THEN a[k] ELSE b[k - Len(a)]
    BY <1>1, <1>2, ConcatProperties
  <2>2. Len(a) + Len(b) = Len(s) - 1
    BY <1>0, <1>1, <1>2
  <2>3. \A k \in 1..(Len(s) - 1) : (a \o b)[k] = IF k <= i - 1 THEN a[k] ELSE b[k - (i - 1)]
    BY <1>1, <2>1, <2>2
  <2>4. \A k \in 1..(Len(s) - 1) : k <= i - 1 <=> k < i
    BY <1>0
  <2>. QED BY <2>3, <2>4
<1>5. a \o b \in Seq(S) /\ Len(a \o b) = Len(s) - 1
  BY <1>1, <1>2, <1>0, ConcatProperties
<1>6. \A k \in 1..(Len(s) - 1) : (a \o b)[k] = s[Before(i, k)]
  <2> SUFFICES ASSUME NEW k \in 1..(Len(s) - 1) PROVE (a \o b)[k] = s[Before(i, k)]
    OBVIOUS
  <2>1. CASE k < i
    BY <2>1, <1>1, <1>4, <1>0 DEF Before
  <2>2. CASE ~(k < i)
    <3>1. k - (i - 1) \in 1..(Len(s) - i) /\ i + (k - (i - 1)) = k + 1
      BY <2>2, <1>0
    <3>. QED BY <2>2, <3>1, <1>2, <1>4 DEF Before
  <2>. QED BY <2>1, <2>2
<1>. QED
  BY <1>3, <1>5, <1>6

\* When a call is answered the others stay, in their order.
LEMMA OthersStay ==
  ASSUME NEW S, NEW s \in Seq(S), NEW i \in DOMAIN s
  PROVE  LET r == RemoveAt(s, i)
         IN /\ r \in Seq(S)
            /\ \A k \in DOMAIN r : Before(i, k) \in DOMAIN s \ {i} /\ r[k] = s[Before(i, k)]
            /\ \A k, m \in DOMAIN r : Before(i, k) = Before(i, m) => k = m
            /\ \A j \in DOMAIN s \ {i} : \E k \in DOMAIN r : Before(i, k) = j
<1> DEFINE r == RemoveAt(s, i)
<1>1. /\ r \in Seq(S) /\ Len(r) = Len(s) - 1 /\ DOMAIN r = 1..(Len(s) - 1)
      /\ \A k \in 1..(Len(s) - 1) : r[k] = s[Before(i, k)]
  BY RemoveAtFacts
<1>2. i \in 1..Len(s) /\ Len(s) \in Nat /\ DOMAIN s = 1..Len(s)
  OBVIOUS
<1> HIDE DEF r
<1>3. \A k \in DOMAIN r : Before(i, k) \in DOMAIN s \ {i}
  BY <1>1, <1>2 DEF Before
<1>4. \A k, m \in DOMAIN r : Before(i, k) = Before(i, m) => k = m
  BY <1>1, <1>2 DEF Before
<1>5. ASSUME NEW j \in DOMAIN s \ {i} PROVE \E k \in DOMAIN r : Before(i, k) = j
  <2>1. CASE j < i
    <3>1. j \in DOMAIN r /\ Before(i, j) = j
      BY <1>1, <1>2, <2>1 DEF Before
    <3>. QED BY <3>1
  <2>2. CASE ~(j < i)
    <3>1. j - 1 \in DOMAIN r /\ Before(i, j - 1) = j
      BY <1>1, <1>2, <2>2 DEF Before
    <3>. QED BY <3>1
  <2>. QED BY <2>1, <2>2
<1>. QED
  BY <1>1, <1>3, <1>4, <1>5 DEF r

-----------------------------------------------------------------------------
(* A page of rows.                                                         *)

\* The rows of a list have the places 0, 1, ..., one each.
LEMMA PlaceFacts ==
  ASSUME NEW ids \in SUBSET Int, IsFiniteSet(ids)
  PROVE  /\ Cardinality(ids) \in Nat
         /\ \A k \in 0 .. Cardinality(ids) - 1 : \E id \in ids : Place(ids, id) = k
<1> DEFINE n == Cardinality(ids)
           before(id) == {other \in ids : other > id}
           f == [id \in ids |-> Place(ids, id)]
<1>1. n \in Nat
  BY FS_CardinalityType
<1>2. ASSUME NEW id \in ids
      PROVE  /\ IsFiniteSet(before(id)) /\ Cardinality(before(id)) \in Nat
             /\ Cardinality(before(id)) <= n - 1
  <2>1. before(id) \in SUBSET (ids \ {id})
    OBVIOUS
  <2> HIDE DEF before
  <2>2. IsFiniteSet(ids \ {id}) /\ Cardinality(ids \ {id}) = n - 1
    BY FS_RemoveElement
  <2>3. IsFiniteSet(before(id)) /\ Cardinality(before(id)) <= Cardinality(ids \ {id})
    BY <2>1, <2>2, FS_Subset
  <2>. QED BY <2>2, <2>3, FS_CardinalityType
<1>3. ASSUME NEW a \in ids, NEW b \in ids, a < b
      PROVE  Cardinality(before(b)) < Cardinality(before(a))
  <2>a. a \in Int /\ b \in Int
    OBVIOUS
  <2>b. \A o \in ids : o > b => o > a /\ o # b
    <3> SUFFICES ASSUME NEW o \in ids, o > b PROVE o > a /\ o # b
      OBVIOUS
    <3>1. o \in Int
      OBVIOUS
    <3>. QED BY <1>3, <2>a, <3>1
  <2>c. b > a
    BY <1>3, <2>a
  <2>1. before(b) \in SUBSET (before(a) \ {b}) /\ b \in before(a)
    BY <2>b, <2>c
  <2>0. /\ IsFiniteSet(before(a)) /\ Cardinality(before(a)) \in Nat
        /\ Cardinality(before(b)) \in Nat
    BY <1>2
  <2> HIDE DEF before
  <2>2. /\ IsFiniteSet(before(a) \ {b})
        /\ Cardinality(before(a) \ {b}) = Cardinality(before(a)) - 1
    BY <2>0, <2>1, FS_RemoveElement
  <2>3. Cardinality(before(b)) <= Cardinality(before(a) \ {b})
    BY <2>1, <2>2, FS_Subset
  <2>. QED BY <2>0, <2>2, <2>3
<1>4. \A id \in ids : f[id] = Cardinality(before(id))
  BY DEF Place
<1> HIDE DEF n, before
<1>5. \A id \in ids : f[id] \in 0 .. n - 1
  BY <1>1, <1>2, <1>4
<1>6. \A a, b \in ids : f[a] = f[b] => a = b
  <2> SUFFICES ASSUME NEW a \in ids, NEW b \in ids, f[a] = f[b], a # b PROVE FALSE
    OBVIOUS
  <2>1. a < b \/ b < a
    OBVIOUS
  <2>2. Cardinality(before(a)) \in Nat /\ Cardinality(before(b)) \in Nat
        /\ Cardinality(before(a)) = Cardinality(before(b))
    BY <1>2, <1>4
  <2>. QED BY <1>3, <2>1, <2>2
<1>7. f \in Injection(ids, 0 .. n - 1)
  BY <1>5, <1>6 DEF Injection, IsInjective
<1>8. IsFiniteSet(0 .. n - 1) /\ Cardinality(0 .. n - 1) = n
  <2>1. 0 \in Int /\ n - 1 \in Int
    BY <1>1
  <2>2. /\ IsFiniteSet(0 .. n - 1)
        /\ Cardinality(0 .. n - 1) = IF 0 > n - 1 THEN 0 ELSE (n - 1) - 0 + 1
    BY <2>1, FS_Interval
  <2>. QED BY <1>1, <2>2
<1>9. f \in Surjection(ids, 0 .. n - 1)
  <2> HIDE DEF f
  <2>. QED BY <1>7, <1>8, FS_Injection DEF n
<1>10. \A k \in 0 .. n - 1 : \E id \in ids : f[id] = k
  BY <1>9 DEF Surjection
<1>. QED BY <1>1, <1>10 DEF n

\* A page up to the last one starts before the rows end.
LEMMA PageStarts ==
  ASSUME NEW total \in Nat, NEW size \in Nat \ {0}, NEW page \in Int, page <= PagesOf(total, size)
  PROVE  (page - 1) * size < total
<1> DEFINE q == (total + size - 1) \div size
<1>1. q \in Int /\ q * size <= total + size - 1
  OBVIOUS
<1>2. page <= q
  BY DEF PagesOf
<1> HIDE DEF q
<1>3. page * size <= q * size
  BY <1>1, <1>2
<1>. QED BY <1>1, <1>3

\* When there are rows there is a first page.
LEMMA PagesPositive ==
  ASSUME NEW total \in Nat, NEW size \in Nat \ {0}
  PROVE  PagesOf(total, size) \in Nat /\ (total > 0 => PagesOf(total, size) >= 1)
<1> DEFINE q == (total + size - 1) \div size
<1>1. q \in Int /\ total + size - 1 < (q + 1) * size
  OBVIOUS
<1> HIDE DEF q
<1>2. q >= 0
  <2> SUFFICES ASSUME q + 1 <= 0 PROVE FALSE
    BY <1>1
  <2>1. (q + 1) * size <= 0
    BY <1>1
  <2>. QED BY <1>1, <2>1
<1>3. ASSUME total > 0, q = 0 PROVE FALSE
  BY <1>1, <1>3
<1>. QED BY <1>1, <1>2, <1>3 DEF PagesOf, q

\* A page from the first to the last one has rows.
LEMMA PageHasRows ==
  ASSUME NEW ids \in SUBSET Int, IsFiniteSet(ids), NEW size \in Nat \ {0}, NEW page \in Int,
         1 <= page, page <= PagesOf(Cardinality(ids), size)
  PROVE  PageOf(ids, page, size) # {}
<1> DEFINE n == Cardinality(ids)
           k == (page - 1) * size
<1>1. n \in Nat /\ \A m \in 0 .. n - 1 : \E id \in ids : Place(ids, id) = m
  BY PlaceFacts
<1> HIDE DEF n
<1>2. k < n
  BY <1>1, PageStarts DEF n
<1>3. k \in Int /\ k >= 0 /\ k < page * size
  <2>1. page - 1 >= 0 /\ page * size = k + size
    OBVIOUS
  <2>. QED BY <2>1
<1> HIDE DEF k
<1>4. PICK id \in ids : Place(ids, id) = k
  BY <1>1, <1>2, <1>3
<1>5. id \in PageOf(ids, page, size)
  BY <1>3, <1>4 DEF PageOf, k
<1>. QED BY <1>5

-----------------------------------------------------------------------------
(* Sessions.                                                               *)

CookiePairs == {[session |-> n, csrf_token |-> n] : n \in Nat}
SessionCalls == [op: {"none", "me", "login", "logout", "change"}, cookies: CookiePairs, header: Nat,
                 state: {"none", "made", "sent", "ok", "unauthorized", "forbidden"}, set: CookiePairs]

\* The answer to a login is on its way with new cookies.
LoginComes(t) == adminCall[t].op = "login" /\ adminCall[t].state = "ok"

\* Under a session that already refused a change of this tab, a change has the token of
\* that session in its header: before the browser sends it, after that, and so never
\* when it is refused.
TokenIsRenewed(t) ==
  LET call == adminCall[t]
  IN /\ call.op = "change" /\ call.state = "made" /\ cookies.session \in refused[t]
          => call.header = cookies.session
     /\ call.op = "change" /\ call.state = "sent" /\ call.cookies.session \in refused[t]
          => call.header = call.cookies.session
     /\ call.state = "forbidden" => /\ call.cookies.session \notin refused[t]
                                    /\ call.cookies.session >= 1

\* The session of a login's answer is nowhere else yet: not in the browser, in no call,
\* in no other answer, and nothing was refused under it.
SessionIsNew(t) ==
  LET n == adminCall[t].set.session
  IN LoginComes(t) => /\ n \in 1 .. lastSession /\ n # cookies.session
                      /\ \A u \in Tabs : n \notin refused[u] /\ n # adminCall[u].cookies.session
                      /\ \A u \in Tabs : u # t /\ LoginComes(u) => adminCall[u].set.session # n

\* Session and token are of the same login everywhere, and of one that was made.
SessionShapes ==
  /\ lastSession \in Nat
  /\ sessions \subseteq 1 .. lastSession
  /\ cookies \in CookiePairs /\ cookies.session =< lastSession
  /\ adminCall \in [Tabs -> SessionCalls]
  /\ \A t \in Tabs : adminCall[t].cookies.session =< lastSession
  /\ \A t \in Tabs : adminCall[t].op = "logout" => adminCall[t].set = NoCookies
  /\ refused \in [Tabs -> SUBSET Nat]
  /\ \A t \in Tabs : \A n \in refused[t] : n >= 1 /\ n =< lastSession

SessionInv ==
  /\ SessionShapes
  /\ \A t \in Tabs : TokenIsRenewed(t)
  /\ \A t \in Tabs : SessionIsNew(t)

\* The two cookies carry the same number, also when there are none.
LEMMA PairFacts ==
  /\ NoCookies \in CookiePairs /\ NoCookies.session = 0
  /\ \A n \in Nat : LET c == [session |-> n, csrf_token |-> n] IN c \in CookiePairs /\ c.session = n
  /\ \A c \in CookiePairs : c.session \in Nat /\ c.csrf_token = c.session
BY DEF CookiePairs, NoCookies

\* The first state has no session, no cookies and no call.
LEMMA SessionBegins == AdminSessionInit => SessionInv
BY PairFacts DEF AdminSessionInit, SessionInv, SessionShapes, SessionCalls, TokenIsRenewed, SessionIsNew,
                 LoginComes, Idle

\* One tab's call is replaced by one that is neither refused nor brings cookies, and the
\* cookies may become those the old call brought, or none.
CallBecomes(t, call) ==
  /\ adminCall' = [adminCall EXCEPT ![t] = call]
  /\ UNCHANGED <<sessions, lastSession>>
  /\ ~(call.op = "login" /\ call.state = "ok") /\ call.state # "forbidden"
  /\ call.op = "logout" => call.set = NoCookies
  /\ call.cookies \in {NoCookies, cookies}
  /\ \/ cookies' \in {cookies, NoCookies}
     \/ LoginComes(t) /\ cookies' = adminCall[t].set /\ call.cookies = NoCookies
  /\ \/ refused' = refused
     \/ /\ adminCall[t].state = "forbidden"
        /\ refused' = [refused EXCEPT ![t] = @ \cup {adminCall[t].cookies.session}]
  /\ call.op = "change" /\ call.state = "made" /\ cookies'.session \in refused'[t]
       => call.header = cookies'.session
  /\ call.op = "change" /\ call.state = "sent" /\ call.cookies.session \in refused'[t]
       => call.header = call.cookies.session

\* Such a step keeps the invariant.
LEMMA CallReplaced ==
  ASSUME SessionInv, NEW t \in Tabs, NEW call \in SessionCalls, CallBecomes(t, call)
  PROVE  SessionInv'
<1> USE PairFacts
<1> HIDE DEF CookiePairs, NoCookies
<1>1. /\ adminCall'[t] = call
      /\ \A u \in Tabs : u # t => adminCall'[u] = adminCall[u] /\ (LoginComes(u)' <=> LoginComes(u))
      /\ ~LoginComes(t)'
  BY DEF CallBecomes, SessionInv, SessionShapes, LoginComes
<1>2. adminCall[t] \in SessionCalls /\ adminCall[t].set \in CookiePairs /\ adminCall[t].cookies \in CookiePairs
  BY DEF SessionInv, SessionShapes, SessionCalls
<1>0. /\ call.cookies.session =< lastSession /\ lastSession' = lastSession /\ sessions' = sessions
      /\ call.cookies.session \in {0, cookies.session} /\ call.state # "forbidden"
      /\ call.op = "logout" => call.set = NoCookies
  BY DEF CallBecomes, SessionInv, SessionShapes
<1>3. /\ cookies' \in CookiePairs /\ cookies'.session =< lastSession
      /\ cookies'.session \in {cookies.session, 0} \/ (LoginComes(t) /\ cookies'.session = adminCall[t].set.session)
  BY <1>2 DEF CallBecomes, SessionInv, SessionShapes, SessionIsNew
<1>4. /\ refused' \in [Tabs -> SUBSET Nat]
      /\ \A u \in Tabs : u # t => refused'[u] = refused[u]
      /\ \A n \in refused'[t] : \/ n \in refused[t]
                                \/ n = adminCall[t].cookies.session /\ n >= 1
  BY <1>2 DEF CallBecomes, SessionInv, SessionShapes, TokenIsRenewed
<1>5. SessionShapes'
  <2>1. adminCall' \in [Tabs -> SessionCalls]
    BY DEF CallBecomes, SessionInv, SessionShapes
  <2>. QED BY <1>0, <1>1, <1>2, <1>3, <1>4, <2>1 DEF SessionInv, SessionShapes
<1>6. ASSUME NEW u \in Tabs PROVE TokenIsRenewed(u)'
  <2>1. CASE u = t
    BY <1>0, <1>1, <2>1 DEF CallBecomes, TokenIsRenewed
  <2>2. CASE u # t
    <3>1. refused'[u] = refused[u] /\ adminCall'[u] = adminCall[u]
      BY <1>1, <1>4, <2>2
    <3>2. cookies'.session \in refused[u] => cookies'.session = cookies.session
      BY <1>3 DEF SessionInv, SessionShapes, SessionIsNew
    <3>. QED BY <3>1, <3>2 DEF SessionInv, TokenIsRenewed
  <2>. QED BY <2>1, <2>2
<1>7. ASSUME NEW u \in Tabs PROVE SessionIsNew(u)'
  <2>1. CASE u = t
    BY <1>1, <2>1 DEF SessionIsNew
  <2>2. CASE u # t /\ LoginComes(u)
    <3> DEFINE n == adminCall[u].set.session
    <3>1. /\ n \in 1 .. lastSession /\ n # cookies.session /\ n \in Nat
          /\ \A v \in Tabs : n \notin refused[v] /\ n # adminCall[v].cookies.session
          /\ \A v \in Tabs : v # u /\ LoginComes(v) => adminCall[v].set.session # n
      BY <2>2 DEF SessionInv, SessionShapes, SessionIsNew
    <3>2. adminCall'[u].set.session = n /\ LoginComes(u)'
      BY <1>1, <2>2
    <3> HIDE DEF n
    <3>3. n # cookies'.session
      BY <1>3, <2>2, <3>1
    <3>4. n # call.cookies.session
      BY <1>0, <3>1
    <3>5. ASSUME NEW v \in Tabs PROVE n \notin refused'[v] /\ n # adminCall'[v].cookies.session
      BY <1>1, <1>4, <3>1, <3>4
    <3>6. ASSUME NEW v \in Tabs, v # u, LoginComes(v)' PROVE adminCall'[v].set.session # n
      BY <1>1, <3>1, <3>6
    <3>. QED BY <1>0, <3>1, <3>2, <3>3, <3>5, <3>6 DEF SessionIsNew, n
  <2>3. CASE u # t /\ ~LoginComes(u)
    BY <1>1, <2>3 DEF SessionIsNew
  <2>. QED BY <2>1, <2>2, <2>3
<1>. QED BY <1>5, <1>6, <1>7 DEF SessionInv

\* The server answers a call: what it read of the header and the cookies is kept, and a
\* change is refused only when they differ.
CallGets(t, state, set) ==
  /\ Respond(t, state, set)
  /\ lastSession' \in Nat /\ lastSession =< lastSession' /\ sessions' \subseteq 1 .. lastSession'
  /\ adminCall[t].op = "login" /\ state = "ok" => set.session = lastSession' /\ lastSession < lastSession'
  /\ adminCall[t].op = "logout" => set = NoCookies
  /\ state = "forbidden" => /\ adminCall[t].op = "change"
                            /\ adminCall[t].cookies.session >= 1
                            /\ adminCall[t].header # adminCall[t].cookies.session

\* Such a step keeps the invariant too.
LEMMA CallAnswered ==
  ASSUME SessionInv, NEW t \in Tabs, NEW state \in {"ok", "unauthorized", "forbidden"},
         NEW set \in CookiePairs, CallGets(t, state, set)
  PROVE  SessionInv'
<1> USE PairFacts
<1> HIDE DEF CookiePairs, NoCookies
<1> DEFINE new == [adminCall[t] EXCEPT !.state = state, !.set = set]
<1>1. /\ adminCall[t].state = "sent" /\ adminCall[t] \in SessionCalls
      /\ adminCall' = [adminCall EXCEPT ![t] = new] /\ UNCHANGED <<cookies, refused>>
  BY DEF CallGets, Respond, SessionInv, SessionShapes
<1>2. /\ new \in SessionCalls /\ new.op = adminCall[t].op /\ new.header = adminCall[t].header
      /\ new.cookies = adminCall[t].cookies /\ new.state = state /\ new.set = set
  BY <1>1 DEF SessionCalls
<1> HIDE DEF new
<1>3. adminCall'[t] = new /\ \A u \in Tabs : u # t => adminCall'[u] = adminCall[u]
  BY <1>1 DEF SessionInv, SessionShapes
<1>4. SessionShapes'
  <2>1. \A u \in Tabs : adminCall'[u].cookies = adminCall[u].cookies /\ adminCall[u].cookies.session \in Nat
    BY <1>2, <1>3 DEF SessionInv, SessionShapes, SessionCalls
  <2>2. adminCall' \in [Tabs -> SessionCalls]
    BY <1>1, <1>2 DEF SessionInv, SessionShapes
  <2>3. \A u \in Tabs : adminCall'[u].op = "logout" => adminCall'[u].set = NoCookies
    BY <1>2, <1>3 DEF CallGets, SessionInv, SessionShapes
  <2>. QED BY <1>1, <2>1, <2>2, <2>3 DEF CallGets, SessionInv, SessionShapes
<1>5. ASSUME NEW u \in Tabs PROVE TokenIsRenewed(u)'
  <2>1. CASE u = t
    BY <1>1, <1>2, <1>3, <2>1 DEF CallGets, SessionInv, TokenIsRenewed
  <2>2. CASE u # t
    BY <1>1, <1>3, <2>2 DEF SessionInv, TokenIsRenewed
  <2>. QED BY <2>1, <2>2
<1>6. ASSUME NEW u \in Tabs, LoginComes(u)' PROVE SessionIsNew(u)'
  <2> DEFINE n == adminCall'[u].set.session
  <2>1. CASE u = t
    <3>1. n = lastSession' /\ lastSession < lastSession' /\ lastSession \in Nat
      BY <1>2, <1>3, <1>6, <2>1 DEF CallGets, LoginComes, SessionInv, SessionShapes
    <3>2. n # cookies' .session /\ \A v \in Tabs : n \notin refused'[v]
      BY <1>1, <3>1 DEF SessionInv, SessionShapes
    <3>3. ASSUME NEW v \in Tabs PROVE n # adminCall'[v].cookies.session
      BY <1>2, <1>3, <3>1 DEF SessionInv, SessionShapes, SessionCalls
    <3>4. ASSUME NEW v \in Tabs, v # u, LoginComes(v)' PROVE adminCall'[v].set.session # n
      <4>1. v # t /\ adminCall'[v] = adminCall[v] /\ LoginComes(v)
        BY <1>3, <2>1, <3>4 DEF LoginComes
      <4>2. adminCall[v].set.session \in 1 .. lastSession
        BY <4>1 DEF SessionInv, SessionIsNew
      <4> HIDE DEF n
      <4>. QED BY <3>1, <4>1, <4>2
    <3>5. n \in 1 .. lastSession'
      <4> HIDE DEF n
      <4>. QED BY <3>1 DEF CallGets
    <3>. QED BY <3>2, <3>3, <3>4, <3>5 DEF SessionIsNew
  <2>2. CASE u # t
    <3>1. LoginComes(u) /\ adminCall'[u] = adminCall[u]
      BY <1>3, <1>6, <2>2 DEF LoginComes
    <3>2. /\ n \in 1 .. lastSession /\ n # cookies.session
          /\ \A v \in Tabs : n \notin refused[v] /\ n # adminCall[v].cookies.session
          /\ \A v \in Tabs : v # u /\ LoginComes(v) => adminCall[v].set.session # n
      BY <3>1 DEF SessionInv, SessionIsNew
    <3> HIDE DEF n
    <3>4. n \in 1 .. lastSession'
      BY <3>2 DEF CallGets, SessionInv, SessionShapes
    <3>5. ASSUME NEW v \in Tabs PROVE n \notin refused'[v] /\ n # adminCall'[v].cookies.session
      BY <1>1, <1>2, <1>3, <3>2
    <3>6. ASSUME NEW v \in Tabs, v # u, LoginComes(v)' PROVE adminCall'[v].set.session # n
      <4>1. CASE v = t
        BY <1>2, <1>3, <3>2, <3>6, <4>1 DEF CallGets, LoginComes, SessionInv, SessionShapes
      <4>2. CASE v # t
        BY <1>3, <3>2, <3>6, <4>2 DEF LoginComes
      <4>. QED BY <4>1, <4>2
    <3>7. n # cookies'.session
      BY <1>1, <3>2
    <3>. QED BY <3>4, <3>5, <3>6, <3>7 DEF SessionIsNew, n
  <2>. QED BY <2>1, <2>2
<1>7. \A u \in Tabs : SessionIsNew(u)'
  BY <1>6 DEF SessionIsNew
<1>. QED BY <1>4, <1>5, <1>7 DEF SessionInv

\* Every step of the browser and of the server keeps the invariant.
LEMMA SessionStep == SessionInv /\ [AdminSessionNext]_sessionVars => SessionInv'
<1> SUFFICES ASSUME SessionInv, [AdminSessionNext]_sessionVars PROVE SessionInv'
  OBVIOUS
<1> USE PairFacts
<1> HIDE DEF CookiePairs, NoCookies
<1>0. /\ lastSession \in Nat /\ sessions \subseteq 1 .. lastSession /\ cookies \in CookiePairs
      /\ cookies.session =< lastSession
      /\ \A t \in Tabs : adminCall[t] \in SessionCalls /\ adminCall[t].cookies.session =< lastSession
      /\ \A t \in Tabs : adminCall[t].cookies \in CookiePairs /\ adminCall[t].set \in CookiePairs
      /\ \A t \in Tabs : adminCall[t].op = "logout" => adminCall[t].set = NoCookies
  BY DEF SessionInv, SessionShapes, SessionCalls
<1>1. ASSUME NEW t \in Tabs, NEW op \in {"me", "login", "logout", "change"},
             SendFrom(t, op), UNCHANGED <<cookies, sessions, lastSession, refused>>
      PROVE  SessionInv'
  <2> DEFINE call == Request(t, op)
  <2>1. /\ call \in SessionCalls /\ call.op = op /\ call.state = "made" /\ call.cookies = NoCookies
        /\ call.set = NoCookies
        /\ op = "change" => call.header = cookies.session
    BY <1>0 DEF Request, getCSRFToken, SessionCalls
  <2>2. adminCall' = [adminCall EXCEPT ![t] = call]
    BY <1>1 DEF SendFrom
  <2> HIDE DEF call
  <2>3. CallBecomes(t, call)
    BY <1>0, <1>1, <2>1, <2>2 DEF CallBecomes
  <2>. QED BY <2>1, <2>3, CallReplaced
<1>2. ASSUME NEW t \in Tabs, AttachCookies(t) PROVE SessionInv'
  <2> DEFINE call == [adminCall[t] EXCEPT !.state = "sent", !.cookies = cookies]
  <2>1. /\ call \in SessionCalls /\ call.op = adminCall[t].op /\ call.state = "sent"
        /\ call.cookies = cookies /\ call.header = adminCall[t].header /\ call.set = adminCall[t].set
    BY <1>0 DEF SessionCalls
  <2>2. adminCall' = [adminCall EXCEPT ![t] = call] /\ adminCall[t].state = "made"
        /\ UNCHANGED <<cookies, sessions, lastSession, refused>>
    BY <1>2 DEF AttachCookies
  <2>3. call.op = "change" /\ cookies.session \in refused[t] => call.header = cookies.session
    BY <2>1, <2>2 DEF SessionInv, TokenIsRenewed
  <2> HIDE DEF call
  <2>4. CallBecomes(t, call)
    BY <1>0, <2>1, <2>2, <2>3 DEF CallBecomes
  <2>. QED BY <2>1, <2>4, CallReplaced
<1>3. Idle \in SessionCalls /\ Idle.op = "none" /\ Idle.state = "none" /\ Idle.cookies = NoCookies
  BY DEF Idle, SessionCalls
<1>4. CASE SessionExpires
  BY <1>4 DEF SessionExpires, SessionInv, SessionShapes, TokenIsRenewed, SessionIsNew, LoginComes
<1>5. CASE CookiesExpire
  <2>1. cookies' = NoCookies /\ UNCHANGED <<adminCall, sessions, lastSession, refused>>
    BY <1>5 DEF CookiesExpire
  <2>2. SessionShapes'
    BY <1>0, <2>1 DEF SessionInv, SessionShapes
  <2>3. \A t \in Tabs : TokenIsRenewed(t)' /\ SessionIsNew(t)'
    BY <2>1 DEF SessionInv, SessionShapes, TokenIsRenewed, SessionIsNew, LoginComes
  <2>. QED BY <2>2, <2>3 DEF SessionInv
<1>6. ASSUME NEW t \in Tabs, OpenAdmin(t) PROVE SessionInv'
  BY <1>6, <1>1 DEF OpenAdmin
<1>7. ASSUME NEW t \in Tabs, SubmitLogin(t) \/ handleLogout(t) \/ Change(t) PROVE SessionInv'
  BY <1>7, <1>1 DEF SubmitLogin, handleLogout, Change, Click
<1>8. ASSUME NEW t \in Tabs, CloseTab(t) PROVE SessionInv'
  <2>1. adminCall' = [adminCall EXCEPT ![t] = Idle] /\ UNCHANGED <<cookies, sessions, lastSession, refused>>
    BY <1>8 DEF CloseTab
  <2>2. CallBecomes(t, Idle)
    BY <1>3, <2>1 DEF CallBecomes
  <2>. QED BY <1>3, <2>2, CallReplaced
<1>9. ASSUME NEW t \in Tabs, ServeAuthed(t) PROVE SessionInv'
  <2> DEFINE call == adminCall[t]
             state == Verdict(call)
  <2>1. /\ call.op \in {"me", "change"} /\ Respond(t, state, NoCookies)
        /\ UNCHANGED <<sessions, lastSession>>
    BY <1>9 DEF ServeAuthed
  <2>2. /\ state \in {"ok", "unauthorized", "forbidden"}
        /\ state = "forbidden" => /\ call.op = "change" /\ call.cookies.session \in sessions
                                  /\ \/ call.cookies.csrf_token = 0
                                     \/ call.header # call.cookies.csrf_token
    BY DEF Verdict
  <2>3. state = "forbidden" => /\ call.op = "change" /\ call.cookies.session >= 1
                               /\ call.header # call.cookies.session
    BY <1>0, <2>2
  <2> HIDE DEF state
  <2>4. CallGets(t, state, NoCookies)
    BY <1>0, <2>1, <2>2, <2>3 DEF CallGets
  <2>. QED BY <2>2, <2>4, CallAnswered
<1>10. ASSUME NEW t \in Tabs, Login(t) PROVE SessionInv'
  <2>1. CASE lastSession' = lastSession + 1 /\ sessions' = sessions \union {lastSession'}
             /\ Respond(t, "ok", [session |-> lastSession', csrf_token |-> lastSession'])
    <3> DEFINE set == [session |-> lastSession', csrf_token |-> lastSession']
    <3>1. lastSession' \in Nat /\ lastSession < lastSession' /\ sessions' \subseteq 1 .. lastSession'
      BY <1>0, <2>1
    <3>2. set \in CookiePairs /\ set.session = lastSession' /\ Respond(t, "ok", set)
      BY <2>1, <3>1
    <3> HIDE DEF set
    <3>3. CallGets(t, "ok", set)
      BY <1>0, <1>10, <3>1, <3>2 DEF CallGets, Login
    <3>. QED BY <3>2, <3>3, CallAnswered
  <2>2. CASE Respond(t, "unauthorized", NoCookies) /\ UNCHANGED <<sessions, lastSession>>
    <3>1. CallGets(t, "unauthorized", NoCookies)
      BY <1>0, <2>2 DEF CallGets
    <3>. QED BY <3>1, CallAnswered
  <2>. QED BY <1>10, <2>1, <2>2 DEF Login
<1>11. ASSUME NEW t \in Tabs, Logout(t) PROVE SessionInv'
  <2>1. /\ adminCall[t].op = "logout" /\ sessions' \subseteq sessions /\ Respond(t, "ok", NoCookies)
        /\ UNCHANGED lastSession
    BY <1>11 DEF Logout
  <2>2. CallGets(t, "ok", NoCookies)
    BY <1>0, <2>1 DEF CallGets
  <2>. QED BY <2>2, CallAnswered
<1>12. ASSUME NEW t \in Tabs, SessionAnswer(t) PROVE SessionInv'
  <2>1. PICK state : Ended(t, state)
    BY <1>12 DEF SessionAnswer
  <2>2. PICK call \in {Idle, Request(t, "me")} : adminCall' = [adminCall EXCEPT ![t] = call]
    BY <2>1 DEF Ended, SendFrom
  <2>3. /\ call \in SessionCalls /\ call.op \in {"none", "me"} /\ call.state \in {"none", "made"}
        /\ call.cookies = NoCookies
    BY <1>3 DEF Request, SessionCalls
  <2>4. /\ UNCHANGED <<sessions, lastSession>>
        /\ refused' = IF adminCall[t].state = "forbidden"
                      THEN [refused EXCEPT ![t] = @ \cup {adminCall[t].cookies.session}] ELSE refused
        /\ cookies' \in {cookies, SetCookies(adminCall[t])}
    BY <1>12 DEF SessionAnswer
  <2>5. \/ cookies' = cookies
        \/ cookies' = NoCookies
        \/ LoginComes(t) /\ cookies' = adminCall[t].set
    BY <1>0, <2>4 DEF SetCookies, LoginComes
  <2>6. CallBecomes(t, call)
    BY <2>2, <2>3, <2>4, <2>5 DEF CallBecomes
  <2>. QED BY <2>3, <2>6, CallReplaced
<1>13. CASE UNCHANGED sessionVars
  BY <1>13 DEF sessionVars, SessionInv, SessionShapes, TokenIsRenewed, SessionIsNew, LoginComes
<1>. QED
  BY <1>2, <1>4, <1>5, <1>6, <1>7, <1>8, <1>9, <1>10, <1>11, <1>12, <1>13 DEF AdminSessionNext

\* A tab's changes are refused for their CSRF token at most once under one session, for
\* any number of tabs that log in and out, any number of logins, and wherever their
\* answers fall between a header and the cookies sent with it.
THEOREM RefusedAtMostOnce == ClientSpec => []RefusedOnce
<1>1. ClientInit => SessionInv
  BY SessionBegins DEF ClientInit
<1>2. [ClientNext]_clientVars => [AdminSessionNext]_sessionVars
  BY DEF ClientNext, clientVars, sessionVars, But
<1>3. SessionInv => RefusedOnce
  BY DEF SessionInv, TokenIsRenewed, RefusedOnce
<1>. QED
  BY <1>1, <1>2, <1>3, SessionStep, PTL DEF ClientSpec

-----------------------------------------------------------------------------
(* Site settings.                                                          *)

SettingsValues == [version: Nat, has_logo: BOOLEAN]
SiteCalls == [op: {"load", "save"}, logo: LogoFiles \cup {NoLogo}, remove: BOOLEAN,
              mine: BOOLEAN, done: BOOLEAN, answer: SettingsValues]
LogoChecks == [file: LogoFiles, current: BOOLEAN]
SettingsForms == [mounted: BOOLEAN, title: {"same", "changed", "invalid"},
                  logoFile: LogoFiles \cup {NoLogo}, removeLogo: BOOLEAN,
                  saving: BOOLEAN, error: BOOLEAN]

SiteTypes ==
  /\ site \in [settings: SettingsValues, status: {"loading", "ready", "error"}]
  /\ siteForm \in SettingsForms
  /\ siteChecks \in Seq(LogoChecks)
  /\ siteNet \in Seq(SiteCalls)
  /\ siteRow \in SettingsValues

\* A validation that still counts is of the file chosen last.
ChecksCurrent ==
  \A i \in DOMAIN siteChecks : siteChecks[i].current => siteChecks[i].file = siteChoice

\* Until the settings are there nothing can be saved.
NothingBeforeLoad ==
  site.status # "ready" =>
    /\ site.settings.version = 0 /\ ~siteForm.mounted
    /\ \A i \in DOMAIN siteNet : siteNet[i].op = "load"

\* One load at a time is on its way, and only while the provider says so.
OneLoad ==
  \A i \in DOMAIN siteNet : siteNet[i].op = "load" =>
    /\ site.status = "loading"
    /\ \A j \in DOMAIN siteNet : siteNet[j].op = "load" => j = i

SiteInv == SiteTypes /\ ChecksCurrent /\ NothingBeforeLoad /\ OneLoad

\* At first the provider's load is on its way, and nothing else.
LEMMA SiteBegins == SiteInit => SiteInv
<1> SUFFICES ASSUME SiteInit PROVE SiteInv
  OBVIOUS
<1>1. SiteTypes
  BY DEF SiteInit, SiteTypes, Settings, DefaultSettings, SettingsForm, SiteCall, SettingsValues,
         SiteCalls, SettingsForms, LogoChecks
<1>2. ChecksCurrent
  BY DEF SiteInit, ChecksCurrent
<1>3. NothingBeforeLoad /\ OneLoad
  BY DEF SiteInit, NothingBeforeLoad, OneLoad, Settings, DefaultSettings, SettingsForm, SiteCall
<1>. QED BY <1>1, <1>2, <1>3 DEF SiteInv

\* Unmounting the form leaves its calls where they are in the list.
LEMMA OrphanFacts ==
  ASSUME NEW net \in Seq(SiteCalls)
  PROVE  /\ Orphaned(net) \in Seq(SiteCalls)
         /\ DOMAIN Orphaned(net) = DOMAIN net
         /\ \A i \in DOMAIN net : Orphaned(net)[i].op = net[i].op
<1>1. \A call \in SiteCalls : /\ [call EXCEPT !.mine = FALSE] \in SiteCalls
                              /\ [call EXCEPT !.mine = FALSE].op = call.op
  BY DEF SiteCalls
<1>2. Orphaned(net) \in [1..Len(net) -> SiteCalls]
  BY <1>1, SeqFacts DEF Orphaned
<1>. QED BY <1>1, <1>2, SeqFacts, FunctionIsSeq DEF Orphaned

\* A validation that is withdrawn stays where it is in the list.
LEMMA WithdrawnFacts ==
  ASSUME NEW checks \in Seq(LogoChecks)
  PROVE  /\ Withdrawn(checks) \in Seq(LogoChecks)
         /\ DOMAIN Withdrawn(checks) = DOMAIN checks
         /\ \A i \in DOMAIN checks : ~Withdrawn(checks)[i].current
<1>1. \A check \in LogoChecks : /\ [check EXCEPT !.current = FALSE] \in LogoChecks
                                /\ ~[check EXCEPT !.current = FALSE].current
  BY DEF LogoChecks
<1>2. Withdrawn(checks) \in [1..Len(checks) -> LogoChecks]
  BY <1>1, SeqFacts DEF Withdrawn
<1>. QED BY <1>1, <1>2, SeqFacts, FunctionIsSeq DEF Withdrawn

\* Every step of the provider, the form and the calls keeps the invariant.
LEMMA SiteStep == SiteInv /\ [SiteNext]_siteVars => SiteInv'
<1> SUFFICES ASSUME SiteInv, [SiteNext]_siteVars PROVE SiteInv'
  OBVIOUS
<1> USE DEF SiteInv
<1>0. /\ \A mounted \in BOOLEAN : /\ SettingsForm(mounted) \in SettingsForms
                                  /\ SettingsForm(mounted).mounted = mounted
      /\ \A op \in {"load", "save"}, logo \in LogoFiles \cup {NoLogo}, remove, mine \in BOOLEAN :
           SiteCall(op, logo, remove, mine) \in SiteCalls /\ SiteCall(op, logo, remove, mine).op = op
  BY DEF SettingsForm, SettingsForms, SiteCall, SiteCalls, DefaultSettings, Settings, SettingsValues
<1>a. /\ \A call \in SiteCalls : call.op \in {"load", "save"} /\ call.answer \in SettingsValues
      /\ \A check \in LogoChecks : check.file \in LogoFiles
      /\ siteForm.logoFile \in LogoFiles \cup {NoLogo} /\ siteForm.removeLogo \in BOOLEAN
      /\ siteForm.mounted \in BOOLEAN
  BY DEF SiteTypes, SiteCalls, LogoChecks, SettingsForms
<1>b. siteNet \in Seq(SiteCalls) /\ \A i \in DOMAIN siteNet : siteNet[i] \in SiteCalls
  BY SeqFacts DEF SiteTypes
<1>1. CASE refresh
  <2> DEFINE new == SiteCall("load", NoLogo, FALSE, FALSE)
  <2>1. new \in SiteCalls /\ new.op = "load"
    BY <1>0
  <2>2. siteNet' = Append(siteNet, new) /\ site' = [site EXCEPT !.status = "loading"]
    BY <1>1 DEF refresh
  <2>3. \A i \in DOMAIN siteNet : siteNet[i].op # "load"
    BY <1>1 DEF refresh, OneLoad
  <2> HIDE DEF new
  <2>4. /\ siteNet' \in Seq(SiteCalls)
        /\ \A i \in DOMAIN siteNet' : siteNet'[i].op = "load" => i = Len(siteNet) + 1
        /\ \A i \in DOMAIN siteNet' :
             (i \in DOMAIN siteNet /\ siteNet'[i] = siteNet[i]) \/ siteNet'[i] = new
    BY <2>1, <2>2, <2>3, <1>b, AppendFacts
  <2>5. SiteTypes' /\ ChecksCurrent'
    BY <1>1, <2>2, <2>4 DEF refresh, SiteTypes, ChecksCurrent
  <2>6. site.status = "error" /\ UNCHANGED siteForm
    BY <1>1 DEF refresh
  <2>7. NothingBeforeLoad' /\ OneLoad'
    BY <2>1, <2>2, <2>4, <2>6 DEF NothingBeforeLoad, OneLoad, SiteTypes
  <2>. QED BY <2>5, <2>7
<1>2. CASE OpenForm
  BY <1>0, <1>2 DEF OpenForm, SiteTypes, ChecksCurrent, NothingBeforeLoad, OneLoad
<1>3. CASE LeaveForm
  <2>1. /\ siteNet' \in Seq(SiteCalls) /\ DOMAIN siteNet' = DOMAIN siteNet
        /\ \A j \in DOMAIN siteNet : siteNet'[j].op = siteNet[j].op
    BY <1>3, OrphanFacts DEF LeaveForm, SiteTypes
  <2>2. siteForm' \in SettingsForms /\ siteChecks' = <<>> /\ UNCHANGED <<site, siteRow>>
    BY <1>0, <1>3 DEF LeaveForm
  <2>4. SiteTypes' /\ ChecksCurrent'
    BY <2>1, <2>2 DEF SiteTypes, ChecksCurrent
  <2>3. NothingBeforeLoad' /\ OneLoad'
    BY <1>0, <1>3, <2>1 DEF LeaveForm, NothingBeforeLoad, OneLoad
  <2>. QED BY <2>4, <2>3
<1>4. ASSUME NEW title \in {"same", "changed", "invalid"}, EditTitle(title) PROVE SiteInv'
  BY <1>4 DEF EditTitle, SiteTypes, SettingsForms, ChecksCurrent, NothingBeforeLoad, OneLoad
<1>5. ASSUME NEW file \in LogoFiles, ChooseLogo(file) PROVE SiteInv'
  <2> DEFINE w == Withdrawn(siteChecks)
             new == [file |-> file, current |-> TRUE]
  <2>1. new \in LogoChecks /\ new.file = file
    BY DEF LogoChecks
  <2>2. w \in Seq(LogoChecks) /\ DOMAIN w = DOMAIN siteChecks /\ \A i \in DOMAIN w : ~w[i].current
    BY WithdrawnFacts DEF SiteTypes
  <2>3. siteChecks' = Append(w, new) /\ siteChoice' = file
    BY <1>5 DEF ChooseLogo
  <2> HIDE DEF w, new
  <2>4. ChecksCurrent' /\ siteChecks' \in Seq(LogoChecks)
    BY <2>1, <2>2, <2>3 DEF ChecksCurrent
  <2>. QED BY <1>5, <2>4 DEF ChooseLogo, SiteTypes, SettingsForms, NothingBeforeLoad, OneLoad
<1>6. ASSUME NEW i \in DOMAIN siteChecks, LogoChecked(i) PROVE SiteInv'
  <2>1. /\ siteChecks \in Seq(LogoChecks) /\ siteChecks' = RemoveAt(siteChecks, i)
        /\ siteChoice' = siteChoice
    BY <1>6 DEF LogoChecked, SiteTypes
  <2>2. siteChecks' \in Seq(LogoChecks) /\ ChecksCurrent'
    BY <2>1, OthersStay DEF ChecksCurrent
  <2>3. siteForm' \in SettingsForms /\ siteForm'.mounted = siteForm.mounted
    <3>1. siteChecks[i].file \in LogoFiles
      BY <2>1, <1>a, SeqFacts
    <3>. QED BY <1>6, <3>1 DEF LogoChecked, SiteTypes, SettingsForms, UseLogo
  <2>. QED BY <1>6, <2>2, <2>3 DEF LogoChecked, SiteTypes, NothingBeforeLoad, OneLoad
<1>7. CASE handleRemoveLogo
  <2>1. siteForm' \in SettingsForms /\ siteForm'.mounted = siteForm.mounted
    BY <1>7 DEF handleRemoveLogo, SiteTypes, SettingsForms
  <2>. QED
    BY <1>7, <2>1, WithdrawnFacts DEF handleRemoveLogo, SiteTypes, ChecksCurrent, NothingBeforeLoad, OneLoad
<1>8. CASE UndoRemoval
  BY <1>8 DEF UndoRemoval, SiteTypes, SettingsForms, ChecksCurrent, NothingBeforeLoad, OneLoad
<1>9. CASE SaveSettings
  <2>1. siteForm' \in SettingsForms /\ siteForm'.mounted = siteForm.mounted
    BY <1>9 DEF SaveSettings, SiteTypes, SettingsForms
  <2>2. site.status = "ready"
    BY <1>9 DEF SaveSettings, FormReady, NothingBeforeLoad, SiteTypes
  <2> DEFINE new == SiteCall("save", siteForm.logoFile, siteForm.removeLogo, TRUE)
  <2>3. new \in SiteCalls /\ new.op = "save"
    BY <1>0, <1>a
  <2>4. siteNet' = Append(siteNet, new) /\ siteChecks' = Withdrawn(siteChecks)
        /\ UNCHANGED <<site, siteRow>>
    BY <1>9 DEF SaveSettings
  <2> HIDE DEF new
  <2>5. SiteTypes' /\ ChecksCurrent'
    BY <2>1, <2>3, <2>4, WithdrawnFacts DEF SiteTypes, ChecksCurrent
  <2>6. NothingBeforeLoad' /\ OneLoad'
    BY <2>2, <2>3, <2>4, AppendFacts DEF SiteTypes, NothingBeforeLoad, OneLoad
  <2>. QED BY <2>5, <2>6
<1>10. ASSUME NEW i \in DOMAIN siteNet, ServeSite(i) PROVE SiteInv'
  <2>1. siteNet \in Seq(SiteCalls) /\ siteNet[i] \in SiteCalls /\ siteRow \in SettingsValues
    BY DEF SiteTypes
  <2>2. PICK next \in SettingsValues :
          siteRow' = next /\ siteNet' = [siteNet EXCEPT ![i].done = TRUE, ![i].answer = next]
    <3> DEFINE logo == (siteRow.has_logo \/ siteNet[i].logo # NoLogo) /\ ~siteNet[i].remove
               next == IF siteNet[i].op = "save" THEN Settings(siteRow.version + 1, logo) ELSE siteRow
    <3>1. next \in SettingsValues
      BY <2>1 DEF Settings, SettingsValues
    <3>. QED BY <1>10, <3>1 DEF ServeSite
  <2> DEFINE call == [siteNet[i] EXCEPT !.done = TRUE, !.answer = next]
  <2>3. call \in SiteCalls /\ call.op = siteNet[i].op /\ siteNet' = [siteNet EXCEPT ![i] = call]
    BY <2>1, <2>2 DEF SiteCalls
  <2> HIDE DEF call
  <2>4. /\ siteNet' \in Seq(SiteCalls) /\ DOMAIN siteNet' = DOMAIN siteNet
        /\ \A j \in DOMAIN siteNet : siteNet'[j].op = siteNet[j].op
    BY <2>1, <2>3, ExceptFacts
  <2>. QED
    BY <1>10, <2>2, <2>4 DEF ServeSite, SiteTypes, ChecksCurrent, NothingBeforeLoad, OneLoad
<1>11. ASSUME NEW i \in DOMAIN siteNet, SiteAnswered(i) \/ SiteFails(i)
       PROVE  SiteInv'
  <2>1. siteNet \in Seq(SiteCalls) /\ siteNet[i] \in SiteCalls
    BY DEF SiteTypes
  <2> DEFINE r == RemoveAt(siteNet, i)
  <2>2. /\ r \in Seq(SiteCalls)
        /\ \A k \in DOMAIN r : Before(i, k) \in DOMAIN siteNet \ {i} /\ r[k] = siteNet[Before(i, k)]
        /\ \A k, m \in DOMAIN r : Before(i, k) = Before(i, m) => k = m
    BY <2>1, OthersStay
  <2> HIDE DEF r
  <2>3. CASE SiteAnswered(i)
    <3>1. /\ site' = [settings |-> siteNet[i].answer, status |-> "ready"]
          /\ siteForm' = SettingsForm(siteForm.mounted) /\ siteChecks' = <<>>
          /\ siteNet' = Orphaned(r) /\ siteRow' = siteRow
      BY <2>3 DEF SiteAnswered, TakeSettings, r
    <3>2. SiteTypes' /\ ChecksCurrent'
      BY <3>1, <2>1, <2>2, <1>0, <1>a, OrphanFacts DEF SiteTypes, ChecksCurrent
    <3>3. \A k \in DOMAIN siteNet' : siteNet'[k].op = "save"
      <4> SUFFICES ASSUME NEW k \in DOMAIN siteNet' PROVE siteNet'[k].op = "save"
        OBVIOUS
      <4>1. /\ k \in DOMAIN r /\ siteNet'[k].op = siteNet[Before(i, k)].op
            /\ Before(i, k) \in DOMAIN siteNet /\ Before(i, k) # i
        BY <3>1, <2>2, OrphanFacts
      <4>2. siteNet[Before(i, k)].op \in {"load", "save"} /\ siteNet[i].op \in {"load", "save"}
        BY <4>1, <1>a, <1>b
      <4>. QED BY <4>1, <4>2 DEF OneLoad, NothingBeforeLoad
    <3>. QED BY <3>1, <3>2, <3>3 DEF NothingBeforeLoad, OneLoad
  <2>4. CASE SiteFails(i)
    <3>1. siteForm' \in SettingsForms /\ siteForm'.mounted = siteForm.mounted
      BY <2>4 DEF SiteFails, SiteTypes, SettingsForms
    <3>2. SiteTypes' /\ ChecksCurrent'
      BY <2>4, <3>1, <2>2 DEF SiteFails, SiteTypes, ChecksCurrent, r
    <3>3. CASE siteNet[i].op = "load"
      <4>1. site.status = "loading" /\ site' = [site EXCEPT !.status = "error"] /\ siteNet' = r
        BY <2>4, <3>3 DEF SiteFails, OneLoad, r
      <4>2. \A k \in DOMAIN r : siteNet[Before(i, k)].op # "load"
        BY <2>2, <3>3 DEF OneLoad
      <4>3. \A k \in DOMAIN r : siteNet[Before(i, k)].op = "load"
        BY <4>1, <2>2 DEF NothingBeforeLoad
      <4>. QED BY <3>1, <3>2, <4>1, <4>2, <4>3, <2>2 DEF NothingBeforeLoad, OneLoad, SiteTypes
    <3>4. CASE siteNet[i].op # "load"
      <4>1. site' = site /\ siteNet' = r
        BY <2>4, <3>4 DEF SiteFails, r
      <4>. QED BY <3>1, <3>2, <4>1, <2>2 DEF NothingBeforeLoad, OneLoad
    <3>. QED BY <3>3, <3>4
  <2>. QED BY <1>11, <2>3, <2>4
<1>12. CASE UNCHANGED siteVars
  BY <1>12 DEF siteVars, SiteTypes, ChecksCurrent, NothingBeforeLoad, OneLoad
<1>. QED
  BY <1>1, <1>2, <1>3, <1>4, <1>5, <1>6, <1>7, <1>8, <1>9, <1>10, <1>11, <1>12 DEF SiteNext

\* A step of the client is a step of its settings, or leaves them alone.
LEMMA SiteProjected == [ClientNext]_clientVars => [SiteNext]_siteVars
BY DEF ClientNext, clientVars, siteVars, But

\* Whenever the file to be saved changes it becomes the file chosen last, or none:
\* for any number of validations that end in any order.
THEOREM LastChoiceAlwaysWins == ClientSpec => LastChoiceWins
<1>1. ClientInit => SiteInv
  BY SiteBegins DEF ClientInit
<1>2. SiteInv /\ [SiteNext]_siteVars
        => [siteForm'.logoFile \in {siteForm.logoFile, NoLogo, siteChoice}]_siteVars
  <2> SUFFICES ASSUME SiteInv, SiteNext
               PROVE  siteForm'.logoFile \in {siteForm.logoFile, NoLogo, siteChoice}
    OBVIOUS
  <2>1. siteForm \in SettingsForms
    BY DEF SiteInv, SiteTypes
  <2>2. ASSUME siteForm' = siteForm \/ \E mounted : siteForm' = SettingsForm(mounted)
        PROVE  siteForm'.logoFile \in {siteForm.logoFile, NoLogo, siteChoice}
    BY <2>2 DEF SettingsForm
  <2>3. CASE refresh \/ OpenForm \/ LeaveForm
    BY <2>3, <2>2 DEF refresh, OpenForm, LeaveForm
  <2>4. ASSUME NEW title, EditTitle(title)
        PROVE  siteForm'.logoFile \in {siteForm.logoFile, NoLogo, siteChoice}
    BY <2>4, <2>1 DEF EditTitle, SettingsForms
  <2>5. ASSUME NEW file, ChooseLogo(file)
        PROVE  siteForm'.logoFile \in {siteForm.logoFile, NoLogo, siteChoice}
    BY <2>5, <2>1 DEF ChooseLogo, SettingsForms
  <2>6. ASSUME NEW i \in DOMAIN siteChecks, LogoChecked(i)
        PROVE  siteForm'.logoFile \in {siteForm.logoFile, NoLogo, siteChoice}
    <3>1. StillCurrent(siteChecks[i]) => siteChecks[i].file = siteChoice
      BY DEF SiteInv, ChecksCurrent, StillCurrent
    <3>. QED BY <2>6, <2>1, <3>1 DEF LogoChecked, SettingsForms, UseLogo
  <2>7. CASE handleRemoveLogo \/ UndoRemoval \/ SaveSettings
    BY <2>7, <2>1 DEF handleRemoveLogo, UndoRemoval, SaveSettings, SettingsForms
  <2>8. ASSUME NEW i \in DOMAIN siteNet, ServeSite(i) \/ SiteAnswered(i)
        PROVE  siteForm'.logoFile \in {siteForm.logoFile, NoLogo, siteChoice}
    BY <2>8, <2>2 DEF ServeSite, SiteAnswered, TakeSettings
  <2>9. ASSUME NEW i \in DOMAIN siteNet, SiteFails(i)
        PROVE  siteForm'.logoFile \in {siteForm.logoFile, NoLogo, siteChoice}
    BY <2>9, <2>1 DEF SiteFails, SettingsForms
  <2>. QED BY <2>3, <2>4, <2>5, <2>6, <2>7, <2>8, <2>9 DEF SiteNext
<1>. QED
  BY <1>1, <1>2, SiteProjected, SiteStep, PTL DEF ClientSpec, LastChoiceWins

\* When a save is answered one save less is on its way.
LEMMA OneSaveLess ==
  ASSUME NEW net \in Seq(SiteCalls), NEW i \in DOMAIN net, net[i].op = "save"
  PROVE  Saves(Orphaned(RemoveAt(net, i))) < Saves(net)
<1> DEFINE rest == RemoveAt(net, i)
           all == {j \in DOMAIN net : net[j].op = "save"}
           left == {k \in DOMAIN rest : rest[k].op = "save"}
           back == [k \in left |-> Before(i, k)]
<1>1. /\ rest \in Seq(SiteCalls)
      /\ \A k \in DOMAIN rest : Before(i, k) \in DOMAIN net \ {i} /\ rest[k] = net[Before(i, k)]
      /\ \A k, m \in DOMAIN rest : Before(i, k) = Before(i, m) => k = m
  BY OthersStay
<1> HIDE DEF rest
<1>2. back \in Injection(left, all \ {i})
  BY <1>1 DEF Injection, IsInjective
<1>3. IsFiniteSet(all)
  <2>1. all \in SUBSET (1..Len(net)) /\ Len(net) \in Nat
    BY SeqFacts
  <2>2. IsFiniteSet(1..Len(net))
    BY <2>1, FS_Interval
  <2>. QED BY <2>1, <2>2, FS_Subset
<1>4. /\ IsFiniteSet(all \ {i}) /\ Cardinality(all \ {i}) = Cardinality(all) - 1
      /\ Cardinality(all) \in Nat
  BY <1>3, FS_RemoveElement, FS_CardinalityType
<1>5. Cardinality(left) <= Cardinality(all \ {i})
  BY <1>2, <1>4, FS_Injection
<1>6. /\ Saves(net) = Cardinality(all)
      /\ Saves(Orphaned(rest)) = Cardinality(left)
  <2>1. {k \in DOMAIN Orphaned(rest) : Orphaned(rest)[k].op = "save"} = left
    BY <1>1, OrphanFacts
  <2>. QED BY <2>1 DEF Saves
<1>7. IsFiniteSet(left) /\ Cardinality(left) \in Nat
  BY <1>2, <1>4, FS_Injection, FS_CardinalityType
<1>. QED BY <1>4, <1>5, <1>6, <1>7 DEF rest

\* A load never replaces settings by older ones, whatever loads fail and are tried
\* again, and however often the form is left and opened.
THEOREM LoadsNeverRevert == ClientSpec => LoadNeverReverts
<1>1. ClientInit => SiteInv
  BY SiteBegins DEF ClientInit
<1>2. SiteInv /\ [SiteNext]_siteVars
        => [site'.settings.version < site.settings.version => Saves(siteNet') < Saves(siteNet)]_siteVars
  <2> SUFFICES ASSUME SiteInv, SiteNext, site'.settings.version < site.settings.version
               PROVE  Saves(siteNet') < Saves(siteNet)
    OBVIOUS
  <2>1. /\ site \in [settings: SettingsValues, status: {"loading", "ready", "error"}]
        /\ site.settings.version \in Nat /\ siteNet \in Seq(SiteCalls)
        /\ \A i \in DOMAIN siteNet : siteNet[i].op \in {"load", "save"}
                                     /\ siteNet[i].answer.version \in Nat
    <3>1. \A call \in SiteCalls : call.op \in {"load", "save"} /\ call.answer.version \in Nat
      BY DEF SiteCalls, SettingsValues
    <3>2. siteNet \in Seq(SiteCalls) /\ \A i \in DOMAIN siteNet : siteNet[i] \in SiteCalls
      BY SeqFacts DEF SiteInv, SiteTypes
    <3>3. site.settings.version \in Nat
      BY DEF SiteInv, SiteTypes, SettingsValues
    <3>. QED BY <3>1, <3>2, <3>3 DEF SiteInv, SiteTypes
  <2>2. PICK i \in DOMAIN siteNet : SiteAnswered(i)
    <3>1. site'.settings # site.settings
      BY <2>1
    <3>. QED
      BY <2>1, <3>1 DEF SiteNext, refresh, OpenForm, LeaveForm, EditTitle, ChooseLogo, LogoChecked,
         handleRemoveLogo, UndoRemoval, SaveSettings, ServeSite, SiteFails
  <2>3. site'.settings = siteNet[i].answer /\ siteNet' = Orphaned(RemoveAt(siteNet, i))
    BY <2>2 DEF SiteAnswered, TakeSettings
  <2>4. site.settings.version # 0
    BY <2>1, <2>3
  <2>5. siteNet[i].op = "save"
    BY <2>1, <2>4 DEF SiteInv, NothingBeforeLoad, OneLoad
  <2>. QED BY <2>1, <2>3, <2>5, OneSaveLess
<1>. QED
  BY <1>1, <1>2, SiteProjected, SiteStep, PTL DEF ClientSpec, LoadNeverReverts

-----------------------------------------------------------------------------
(* The notes.                                                              *)

\* The calls in flight are a list of records with an op; what else they carry
\* does not matter here.
FaqCalls == {faqNet[k] : k \in DOMAIN faqNet}
FaqInv ==
  /\ faqNet \in Seq(FaqCalls)
  /\ \A k \in DOMAIN faqNet : "op" \in DOMAIN faqNet[k]
  /\ OwnOrderIsChecked

\* A list stays a list of its own elements.
LEMMA OwnElements ==
  ASSUME NEW S, NEW s \in Seq(S) PROVE s \in Seq({s[k] : k \in DOMAIN s})
<1>1. s \in [1..Len(s) -> {s[k] : k \in DOMAIN s}] /\ Len(s) \in Nat
  BY SeqFacts
<1>. QED BY <1>1, FunctionIsSeq

\* At first the notes are being loaded.
LEMMA FaqBegins == FaqInit => FaqInv
<1> SUFFICES ASSUME FaqInit PROVE FaqInv
  OBVIOUS
<1>1. faqNet = <<loadFaq>> /\ ~faqSeen.own
  BY DEF FaqInit
<1>2. faqNet \in Seq({loadFaq})
  BY <1>1
<1>. QED
  BY <1>1, <1>2, OwnElements DEF FaqInv, FaqCalls, OwnOrderIsChecked, loadFaq, FaqCall

\* A step keeps the order on the page checked: what ends a move asks for the list.
LEMMA FaqStep == FaqInv /\ [FaqNext]_faqVars => FaqInv'
<1> SUFFICES ASSUME FaqInv, [FaqNext]_faqVars PROVE FaqInv'
  OBVIOUS
<1> DEFINE Checked(net) == \E k \in DOMAIN net : net[k].op \in {"reorder", "load"}
<1>0. /\ faqNet \in Seq(FaqCalls) /\ \A k \in DOMAIN faqNet : "op" \in DOMAIN faqNet[k]
      /\ faqSeen.own => faqSeen.failed \/ Checked(faqNet)
  BY DEF FaqInv, OwnOrderIsChecked
<1>1. ASSUME NEW S, faqNet' \in Seq(S), \A k \in DOMAIN faqNet' : "op" \in DOMAIN faqNet'[k],
             faqSeen'.own => faqSeen'.failed \/ Checked(faqNet')
      PROVE  FaqInv'
  BY <1>1, OwnElements DEF FaqInv, FaqCalls, OwnOrderIsChecked
<1>2. ASSUME NEW call, SendFaq(call), "op" \in DOMAIN call,
             faqSeen' = faqSeen \/ call.op \in {"reorder", "load"}
      PROVE  FaqInv'
  <2> DEFINE S == FaqCalls \cup {call}
  <2>1. faqNet' = Append(faqNet, call)
    BY <1>2 DEF SendFaq
  <2>2. faqNet \in Seq(S) /\ call \in S
    BY <1>0, SeqMonotonic
  <2> HIDE DEF S
  <2>3. /\ faqNet' \in Seq(S) /\ DOMAIN faqNet' = DOMAIN faqNet \cup {Len(faqNet) + 1}
        /\ faqNet'[Len(faqNet) + 1] = call /\ \A k \in DOMAIN faqNet : faqNet'[k] = faqNet[k]
    BY <2>1, <2>2, AppendFacts
  <2>4. \A k \in DOMAIN faqNet' : "op" \in DOMAIN faqNet'[k]
    BY <2>3, <1>0, <1>2
  <2>5. faqSeen'.own => faqSeen'.failed \/ Checked(faqNet')
    BY <2>3, <1>0, <1>2
  <2>. QED BY <2>3, <2>4, <2>5, <1>1
<1>3. CASE UNCHANGED <<faqNet, faqSeen>>
  BY <1>3, <1>0, <1>1
<1>4. CASE openCreate \/ closeForm
  BY <1>4, <1>3 DEF openCreate, closeForm, OpenFaq
<1>5. CASE SaveFaq
  BY <1>5, <1>2 DEF SaveFaq, FaqCall
<1>6. ASSUME NEW text, TypeFaq(text) PROVE FaqInv'
  BY <1>6, <1>3 DEF TypeFaq, OpenFaq
<1>7. ASSUME NEW i, openEdit(i) PROVE FaqInv'
  BY <1>7, <1>3 DEF openEdit, OpenFaq
<1>8. ASSUME NEW i, DeleteFaq(i) PROVE FaqInv'
  BY <1>8, <1>2 DEF DeleteFaq, FaqCall
<1>9. ASSUME NEW i, NEW j, move(i, j) PROVE FaqInv'
  BY <1>9, <1>2 DEF move, FaqCall
<1>10. ASSUME NEW k \in DOMAIN faqNet, ServeFaq(k) PROVE FaqInv'
  <2>1. PICK call : /\ faqNet' = [faqNet EXCEPT ![k] = call] /\ "op" \in DOMAIN call
                    /\ call.op = faqNet[k].op /\ UNCHANGED faqSeen
    <3>1. CASE faqNet' = [faqNet EXCEPT ![k].state = "ok", ![k].items = Body(faqNet[k])]
      <4> DEFINE call == [faqNet[k] EXCEPT !.state = "ok", !.items = Body(faqNet[k])]
      <4>1. faqNet' = [faqNet EXCEPT ![k] = call]
        BY <3>1, <1>0, SeqFacts
      <4>. QED BY <4>1, <1>0, <1>10 DEF ServeFaq
    <3>2. CASE faqNet' = [faqNet EXCEPT ![k].state = "refused"]
      <4> DEFINE call == [faqNet[k] EXCEPT !.state = "refused"]
      <4>1. faqNet' = [faqNet EXCEPT ![k] = call]
        BY <3>2
      <4>. QED BY <4>1, <1>0, <1>10 DEF ServeFaq
    <3>. QED BY <1>10, <3>1, <3>2 DEF ServeFaq
  <2> DEFINE S == FaqCalls \cup {call}
  <2>2. faqNet \in Seq(S) /\ call \in S
    BY <1>0, SeqMonotonic
  <2> HIDE DEF S
  <2>3. /\ faqNet' \in Seq(S) /\ DOMAIN faqNet' = DOMAIN faqNet
        /\ faqNet'[k] = call /\ \A j \in DOMAIN faqNet \ {k} : faqNet'[j] = faqNet[j]
    BY <2>1, <2>2, ExceptFacts
  <2>4. \A j \in DOMAIN faqNet' : "op" \in DOMAIN faqNet'[j] /\ faqNet'[j].op = faqNet[j].op
    BY <2>1, <2>3, <1>0
  <2>. QED BY <2>1, <2>3, <2>4, <1>0, <1>1
<1>11. ASSUME NEW k \in DOMAIN faqNet, FaqAnswer(k) PROVE FaqInv'
  <2> DEFINE r == RemoveAt(faqNet, k)
  <2>1. /\ r \in Seq(FaqCalls)
        /\ \A m \in DOMAIN r : Before(k, m) \in DOMAIN faqNet \ {k} /\ r[m] = faqNet[Before(k, m)]
        /\ \A j \in DOMAIN faqNet \ {k} : \E m \in DOMAIN r : Before(k, m) = j
    BY <1>0, OthersStay
  <2>2. \A m \in DOMAIN r : "op" \in DOMAIN r[m]
    BY <2>1, <1>0
  <2> HIDE DEF r
  <2>3. ASSUME NEW ok, FaqLoaded(k, ok) PROVE FaqInv'
    <3>1. faqNet' = r /\ faqSeen'.own = (faqSeen.own /\ ~ok) /\ faqSeen'.failed = ~ok
      BY <2>3 DEF FaqLoaded, r
    <3>. QED BY <3>1, <2>1, <2>2, <1>1
  <2>4. ASSUME NEW ok, FaqChanged(k, ok) PROVE FaqInv'
    <3>1. faqNet' = r \o Follow(faqNet[k], ok) /\ UNCHANGED faqSeen /\ faqNet[k].op # "load"
      BY <2>4 DEF FaqChanged, r
    <3>2. "op" \in DOMAIN loadFaq /\ loadFaq.op = "load"
      BY DEF loadFaq, FaqCall
    <3>3. CASE Follow(faqNet[k], ok) = <<loadFaq>>
      <4> DEFINE S == FaqCalls \cup {loadFaq}
      <4>1. r \in Seq(S) /\ loadFaq \in S
        BY <2>1, SeqMonotonic
      <4> HIDE DEF S
      <4>2. faqNet' = Append(r, loadFaq)
        BY <3>1, <3>3, <4>1
      <4>3. /\ faqNet' \in Seq(S) /\ DOMAIN faqNet' = DOMAIN r \cup {Len(r) + 1}
            /\ faqNet'[Len(r) + 1] = loadFaq /\ \A m \in DOMAIN r : faqNet'[m] = r[m]
        BY <4>1, <4>2, AppendFacts
      <4>4. \A m \in DOMAIN faqNet' : "op" \in DOMAIN faqNet'[m]
        BY <4>3, <2>2, <3>2
      <4>5. Checked(faqNet')
        BY <4>3, <3>2
      <4>. QED BY <4>3, <4>4, <4>5, <1>1
    <3>4. CASE Follow(faqNet[k], ok) # <<loadFaq>>
      <4>1. faqNet' = r /\ faqNet[k].op # "reorder"
        BY <3>1, <3>4, <2>1 DEF Follow
      <4>2. Checked(faqNet) => Checked(r)
        BY <4>1, <3>1, <2>1
      <4>. QED BY <3>1, <4>1, <4>2, <2>1, <2>2, <1>0, <1>1
    <3>. QED BY <3>3, <3>4
  <2>. QED BY <1>11, <2>3, <2>4 DEF FaqAnswer
<1>12. CASE UNCHANGED faqVars
  BY <1>12, <1>3 DEF faqVars
<1>. QED
  BY <1>4, <1>5, <1>6, <1>7, <1>8, <1>9, <1>10, <1>11, <1>12 DEF FaqNext

\* An order the page showed before the server agreed is always about to be checked,
\* for any list of notes and any number of moves, saves and deletions that cross.
THEOREM OwnOrdersAreChecked == ClientSpec => []OwnOrderIsChecked
<1>1. ClientInit => FaqInv
  BY FaqBegins DEF ClientInit
<1>2. [ClientNext]_clientVars => [FaqNext]_faqVars
  BY DEF ClientNext, clientVars, faqVars, But
<1>3. FaqInv => OwnOrderIsChecked
  BY DEF FaqInv
<1>. QED
  BY <1>1, <1>2, <1>3, FaqStep, PTL DEF ClientSpec

=============================================================================
