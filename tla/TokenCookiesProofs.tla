------------------------- MODULE TokenCookiesProofs -------------------------
(***************************************************************************)
(* Theorems of TokenCookies, for any number of replies and pairs of        *)
(* tokens, any cookie names and lifetimes, and any delay of a revocation.  *)
(***************************************************************************)
EXTENDS TokenCookies, TLAPS

Cookies == [val : Tokens \cup {None}, maxAge : Nat \cup {None}]

\* The lifetime of a cookie is what was asked for, in whole seconds.
Fits(c, wish) ==
    IF c.maxAge = None THEN wish = 0
                       ELSE c.maxAge * Second >= wish /\ c.maxAge * Second < wish + Second

Kind(o, n) == IF n = o.accessTokenName THEN "access" ELSE "refresh"

GoodCookie(o, n, c, wish) ==
    /\ c \in Cookies /\ Fits(c, wish)
    /\ c.val = None => c.maxAge = 0
    /\ c.val # None => c.val.kind = Kind(o, n)

\* Two cookies of one pair, or two cleared ones.
SamePair(v, w) == (v = None <=> w = None) /\ (v # None => v.pair = w.pair)

Both(o) == {o.accessTokenName, o.refreshTokenName}

\* A reply sets no cookie, both of one pair, or what setTokens left behind.
GoodReply(o, answer, wish) ==
    /\ DOMAIN answer = {"cookies", "threw"} /\ answer.threw \in BOOLEAN
    /\ wish \in [Names -> Nat]
    /\ \/ DOMAIN answer.cookies = {}
       \/ DOMAIN answer.cookies = Both(o)
       \/ DOMAIN answer.cookies = {o.accessTokenName} /\ answer.threw
    /\ \A n \in DOMAIN answer.cookies : GoodCookie(o, n, answer.cookies[n], wish[n])
    /\ ~answer.threw /\ DOMAIN answer.cookies = Both(o) =>
          SamePair(answer.cookies[o.accessTokenName].val, answer.cookies[o.refreshTokenName].val)

\* A cookie the browser keeps holds the token its name is for, as long as asked.
GoodEntry(o, n, e, wish) ==
    /\ e \in Entries(Tokens) /\ wish \in Nat
    /\ Store!Exists(e) <=> e.val # None
    /\ e.val # None => n \in Both(o) /\ e.val.kind = Kind(o, n)
    /\ IF e.left = Store!Forever THEN wish = 0 ELSE e.left >= wish /\ e.left < wish + Second

\* The access token is that of the last reply, and so is the refresh token
\* unless the reply was torn.
Current(o, n, e, pair, half) ==
    e.val # None /\ (n = o.accessTokenName \/ ~half) => e.val.pair = pair

CookieInv ==
    /\ options \in Policies
    /\ DOMAIN reply = Replies
    /\ asked \in [Replies -> [Names -> Nat]]
    /\ \A q \in Replies : GoodReply(options, reply[q], asked[q])
    /\ jar \in [Names -> Entries(Tokens)] /\ due \in [Names -> Nat]
    /\ torn \in BOOLEAN /\ last \in Pairs \cup {None}
    /\ \A n \in Names : /\ GoodEntry(options, n, jar[n], due[n])
                        /\ Current(options, n, jar[n], last, torn)

\* What is revoked stays so as long as its token lives, and little longer.
RevokedInv ==
    /\ life    \in [Pairs -> 0..TokenLife]
    /\ revoked \in [Pairs -> Entries({"1"})]
    /\ signedOut \subseteq Pairs
    /\ \A p \in Pairs :
          /\ revoked[p].left \in Nat /\ revoked[p].left < life[p] + MaxLag + Second
          /\ revoked[p].left <= TokenLife + Second
          /\ p \in signedOut => revoked[p].left >= life[p]
-----------------------------------------------------------------------------
\* Rounding up to seconds adds less than one (Math.ceil(ms / 1000)).
LEMMA CeilSuffices ==
    ASSUME NEW n \in Nat
    PROVE  /\ CeilSeconds(n) \in Nat
           /\ CeilSeconds(n) * Second >= n /\ CeilSeconds(n) * Second < n + Second
<1> DEFINE a == n + Second - 1
<1>1. a \in Nat /\ Second \in Nat \ {0}
      BY TimeAssumption
<1> HIDE DEF a
<1>2. a = Second * (a \div Second) + (a % Second) /\ a % Second \in 0..(Second - 1)
      BY <1>1
<1>3. a \div Second \in Nat
      BY <1>1
<1>4. (a \div Second) * Second = Second * (a \div Second)
      BY <1>1, <1>3
<1>5. (a \div Second) * Second >= n /\ (a \div Second) * Second < n + Second
      BY <1>1, <1>2, <1>3, <1>4 DEF a
<1> QED BY <1>3, <1>5 DEF CeilSeconds, a

\* The cookie of a token has the lifetime the handler or the options ask for
\* (lifetimes.x ?? options.x, cookieOptions).
LEMMA CookieFits ==
    ASSUME NEW o \in Policies, NEW n, NEW token \in Tokens, token.kind = Kind(o, n),
           NEW lifetime \in Nat \cup {None, Invalid}, NEW option \in Nat \cup {None, Invalid},
           Given(lifetime, option) # Invalid
    PROVE  /\ GoodCookie(o, n, cookieOptions(token, Given(lifetime, option)), Wanted(lifetime, option))
           /\ cookieOptions(token, Given(lifetime, option)).val = token
           /\ Wanted(lifetime, option) \in Nat
<1> DEFINE given == Given(lifetime, option)
<1>1. given \in Nat \cup {None} /\ token # None
      BY NoneAssumption DEF Given, Tokens
<1>2. CASE given = None
  <2>1. Wanted(lifetime, option) = 0
        BY <1>2, NoneAssumption DEF Given, Wanted
  <2> QED BY <1>1, <1>2, <2>1 DEF GoodCookie, Cookies, Fits, cookieOptions
<1>3. CASE given # None
  <2>1. Wanted(lifetime, option) = given /\ given \in Nat
        BY <1>1, <1>3, NoneAssumption DEF Given, Wanted
  <2>2. /\ CeilSeconds(given) \in Nat /\ CeilSeconds(given) # None
        /\ CeilSeconds(given) * Second >= given /\ CeilSeconds(given) * Second < given + Second
        BY <2>1, CeilSuffices, NoneAssumption
  <2> HIDE DEF given
  <2>3. cookieOptions(token, given) = [val |-> token, maxAge |-> CeilSeconds(given)]
        BY <1>3 DEF cookieOptions
  <2> QED BY <1>1, <2>1, <2>2, <2>3 DEF GoodCookie, Cookies, Fits, given
<1> QED BY <1>2, <1>3

\* So has the cleared one, whose lifetime is zero.
LEMMA ClearedFits ==
    ASSUME NEW o, NEW n
    PROVE  GoodCookie(o, n, clearedCookie, 0)
<1>1. 0 \in Nat /\ 0 # None /\ Second > 0 /\ Second \in Nat
      BY NoneAssumption, TimeAssumption
<1> QED BY <1>1 DEF GoodCookie, Cookies, Fits, clearedCookie

\* The browser keeps it so.
LEMMA KeptGood ==
    ASSUME NEW o \in Policies, NEW n \in Both(o), NEW c, NEW wish \in Nat, GoodCookie(o, n, c, wish)
    PROVE  /\ GoodEntry(o, n, Kept(c), wish)
           /\ Kept(c).val \in {None, c.val}
<1>1. Second \in Nat \ {0} /\ 0 # None
      BY TimeAssumption, NoneAssumption
<1>2. c.val \in Tokens \cup {None} /\ c.maxAge \in Nat \cup {None}
      BY DEF GoodCookie, Cookies
<1>3. CASE c.maxAge = None
  <2>1. Kept(c) = [val |-> c.val, left |-> -1] /\ wish = 0 /\ c.val # None
        BY <1>1, <1>3 DEF Kept, Store!Set, Store!Forever, GoodCookie, Fits
  <2> QED BY <1>2, <2>1 DEF GoodEntry, Entries, Store!Exists, Store!Forever, GoodCookie
<1>4. CASE c.maxAge = 0
  <2>1. Kept(c) = [val |-> None, left |-> 0]
        BY <1>1, <1>4 DEF Kept, Store!Gone
  <2>2. 0 >= wish /\ 0 < wish + Second
        BY <1>1, <1>4 DEF GoodCookie, Fits
  <2> QED BY <2>1, <2>2 DEF GoodEntry, Entries, Store!Exists, Store!Forever
<1>5. CASE c.maxAge # None /\ c.maxAge # 0
  <2> DEFINE k == c.maxAge * Second
  <2>1. k \in Nat \ {0}
    <3>1. c.maxAge \in Nat \ {0}
          BY <1>2, <1>5
    <3> QED BY <1>1, <3>1
  <2>2. Kept(c) = [val |-> c.val, left |-> k]
        BY <1>5 DEF Kept, Store!Set
  <2>3. k >= wish /\ k < wish + Second /\ c.val # None
        BY <1>5 DEF GoodCookie, Fits
  <2> HIDE DEF k
  <2> QED BY <1>2, <2>1, <2>2, <2>3 DEF GoodEntry, Entries, Store!Exists, Store!Forever, GoodCookie
<1> QED BY <1>3, <1>4, <1>5
-----------------------------------------------------------------------------
\* What setCookie makes of a reply: the new cookies stand beside the old ones.
Merged(answer, cookies, threw) ==
    [cookies |-> [n \in DOMAIN answer.cookies \cup DOMAIN cookies |->
                     IF n \in DOMAIN cookies THEN cookies[n] ELSE answer.cookies[n]],
     threw |-> threw]

\* A reply to which both cookies of one pair are added, or the first and an
\* exception, is a good one.
LEMMA MergedGood ==
    ASSUME NEW o \in Policies, NEW answer, NEW wish, GoodReply(o, answer, wish), ~answer.threw,
           NEW cookies, NEW threw \in BOOLEAN, NEW wanted \in [Names -> Nat],
           \/ DOMAIN cookies = Both(o) /\ SamePair(cookies[o.accessTokenName].val,
                                                   cookies[o.refreshTokenName].val)
           \/ DOMAIN cookies = {o.accessTokenName} /\ threw,
           \A n \in DOMAIN cookies : GoodCookie(o, n, cookies[n], wanted[n]),
           \A n \in Names \ DOMAIN cookies : wanted[n] = wish[n]
    PROVE  GoodReply(o, Merged(answer, cookies, threw), wanted)
<1> DEFINE m == Merged(answer, cookies, threw)
<1>1. /\ DOMAIN m = {"cookies", "threw"} /\ m.threw = threw
      /\ DOMAIN m.cookies = DOMAIN answer.cookies \cup DOMAIN cookies
      /\ \A n \in DOMAIN m.cookies :
            m.cookies[n] = IF n \in DOMAIN cookies THEN cookies[n] ELSE answer.cookies[n]
      BY DEF Merged
<1> HIDE DEF m
<1>2. o.accessTokenName \in Names /\ o.refreshTokenName \in Names
      BY DEF Names
<1>3. \A n \in DOMAIN m.cookies : GoodCookie(o, n, m.cookies[n], wanted[n])
  <2>1. TAKE n \in DOMAIN m.cookies
  <2>2. CASE n \in DOMAIN cookies
        BY <1>1, <2>2
  <2>3. CASE n \notin DOMAIN cookies
    <3>1. n \in DOMAIN answer.cookies /\ n \in Names
          BY <1>1, <1>2, <2>3 DEF GoodReply, Both
    <3> QED BY <1>1, <2>3, <3>1 DEF GoodReply
  <2> QED BY <2>2, <2>3
<1>4. \/ DOMAIN m.cookies = Both(o)
      \/ DOMAIN m.cookies = {o.accessTokenName} /\ m.threw
      BY <1>1 DEF GoodReply, Both
<1>5. ~m.threw => SamePair(m.cookies[o.accessTokenName].val, m.cookies[o.refreshTokenName].val)
      BY <1>1 DEF Both
<1> QED BY <1>1, <1>3, <1>4, <1>5 DEF GoodReply, m

\* setTokens, called with a new pair, leaves a good reply.
LEMMA SetTokensGood ==
    ASSUME CookieInv, NEW q \in Replies, ~reply[q].threw, NEW p \in Pairs,
           NEW a \in Lifetimes, NEW r \in Lifetimes, NEW wanted,
           setTokens(q, p, Given(a, options.accessTokenMaxAge), Given(r, options.refreshTokenMaxAge)),
           wanted = [n \in Names |->
              CASE n = options.accessTokenName /\ Wanted(a, options.accessTokenMaxAge) # Invalid ->
                      Wanted(a, options.accessTokenMaxAge)
                [] n = options.refreshTokenName
                      /\ Invalid \notin {Wanted(a, options.accessTokenMaxAge),
                                         Wanted(r, options.refreshTokenMaxAge)} ->
                      Wanted(r, options.refreshTokenMaxAge)
                [] OTHER -> asked[q][n]]
    PROVE  /\ DOMAIN reply' = Replies
           /\ \A s \in Replies : s # q => reply'[s] = reply[s]
           /\ GoodReply(options, reply'[q], wanted)
           /\ wanted \in [Names -> Nat]
<1> DEFINE o  == options
           ma == options.accessTokenMaxAge
           mr == options.refreshTokenMaxAge
           ga == Given(a, ma)
           gr == Given(r, mr)
           wa == Wanted(a, ma)
           wr == Wanted(r, mr)
<1>1. /\ o \in Policies /\ o.accessTokenName \in Names /\ o.refreshTokenName \in Names
      /\ o.accessTokenName # o.refreshTokenName
      /\ {a, r, ma, mr} \subseteq Nat \cup {None, Invalid}
      BY PolicyAssumption, LifetimeAssumption DEF CookieInv, Names
<1>2. /\ Token("access", p) \in Tokens /\ Token("access", p).kind = Kind(o, o.accessTokenName)
      /\ Token("refresh", p) \in Tokens /\ Token("refresh", p).kind = Kind(o, o.refreshTokenName)
      /\ Token("access", p).pair = Token("refresh", p).pair
      BY <1>1 DEF Token, Tokens, Kind
<1>3. GoodReply(o, reply[q], asked[q]) /\ asked[q] \in [Names -> Nat] /\ DOMAIN reply = Replies
      BY DEF CookieInv
<1>4. (ga = Invalid <=> wa = Invalid) /\ (gr = Invalid <=> wr = Invalid)
      BY <1>1, NoneAssumption DEF Given, Wanted
<1>5. ga # Invalid =>
         /\ GoodCookie(o, o.accessTokenName, cookieOptions(Token("access", p), ga), wa)
         /\ cookieOptions(Token("access", p), ga).val = Token("access", p) /\ wa \in Nat
      BY <1>1, <1>2, CookieFits
<1>6. gr # Invalid =>
         /\ GoodCookie(o, o.refreshTokenName, cookieOptions(Token("refresh", p), gr), wr)
         /\ cookieOptions(Token("refresh", p), gr).val = Token("refresh", p) /\ wr \in Nat
      BY <1>1, <1>2, CookieFits
<1>7. \A n \in Names : wanted[n] =
         CASE n = o.accessTokenName /\ wa # Invalid -> wa
           [] n = o.refreshTokenName /\ Invalid \notin {wa, wr} -> wr
           [] OTHER -> asked[q][n]
      OBVIOUS
<1>8. DOMAIN wanted = Names /\ wanted = [n \in Names |-> wanted[n]]
      OBVIOUS
<1>9. setTokens(q, p, ga, gr)
      OBVIOUS
<1> HIDE DEF o, ma, mr, ga, gr, wa, wr
<1>10. CASE ga = Invalid
  <2>1. reply' = [reply EXCEPT ![q].threw = TRUE]
        BY <1>9, <1>10 DEF setTokens
  <2>2. /\ reply'[q].cookies = reply[q].cookies /\ reply'[q].threw = TRUE
        /\ DOMAIN reply'[q] = {"cookies", "threw"}
        /\ DOMAIN reply' = Replies /\ \A s \in Replies : s # q => reply'[s] = reply[s]
        BY <1>3, <2>1 DEF GoodReply
  <2>3. \A n \in Names : wanted[n] = asked[q][n]
        BY <1>4, <1>7, <1>10
  <2>4. wanted = asked[q]
        BY <1>3, <1>8, <2>3
  <2>5. GoodReply(o, reply'[q], wanted)
        BY <1>3, <2>2, <2>4 DEF GoodReply
  <2> QED BY <1>3, <2>2, <2>4, <2>5 DEF o
<1>11. CASE ga # Invalid
  <2> DEFINE names   == IF gr = Invalid THEN {o.accessTokenName} ELSE Both(o)
             cookies == [n \in names |->
                            IF n = o.accessTokenName THEN cookieOptions(Token("access", p), ga)
                                                     ELSE cookieOptions(Token("refresh", p), gr)]
  <2>1. reply' = [reply EXCEPT ![q] = Merged(reply[q], cookies, gr = Invalid)]
        BY <1>9, <1>11 DEF setTokens, SetCookies, Merged, o, Both
  <2>2. /\ DOMAIN cookies = names
        /\ cookies[o.accessTokenName] = cookieOptions(Token("access", p), ga)
        /\ gr # Invalid =>
              cookies[o.refreshTokenName] = cookieOptions(Token("refresh", p), gr)
        BY <1>1 DEF Both
  <2>3. wanted \in [Names -> Nat]
        BY <1>3, <1>4, <1>5, <1>6, <1>7, <1>8, <1>11
  <2>4. /\ wanted[o.accessTokenName] = wa
        /\ gr # Invalid => wanted[o.refreshTokenName] = wr
        /\ \A n \in Names \ names : wanted[n] = asked[q][n]
        BY <1>1, <1>4, <1>7, <1>11 DEF Both
  <2>5. \A n \in names : GoodCookie(o, n, cookies[n], wanted[n])
        BY <1>5, <1>6, <1>11, <2>2, <2>4 DEF Both
  <2>6. gr # Invalid =>
           SamePair(cookies[o.accessTokenName].val, cookies[o.refreshTokenName].val)
        BY <1>2, <1>5, <1>6, <1>11, <2>2, NoneAssumption DEF SamePair, Tokens
  <2>7. (gr = Invalid) \in BOOLEAN /\ ~reply[q].threw
        OBVIOUS
  <2>8. \/ DOMAIN cookies = Both(o) /\ SamePair(cookies[o.accessTokenName].val,
                                                cookies[o.refreshTokenName].val)
        \/ DOMAIN cookies = {o.accessTokenName} /\ (gr = Invalid)
        BY <2>2, <2>6
  <2> HIDE DEF cookies, names
  <2>9. GoodReply(o, Merged(reply[q], cookies, gr = Invalid), wanted)
        BY <1>1, <1>3, <2>2, <2>3, <2>4, <2>5, <2>7, <2>8, MergedGood
  <2>10. reply'[q] = Merged(reply[q], cookies, gr = Invalid)
        BY <1>3, <2>1
  <2> QED BY <1>3, <2>1, <2>3, <2>9, <2>10 DEF o
<1> QED BY <1>10, <1>11
-----------------------------------------------------------------------------
\* A handler signs in: only its own reply changes.
LEMMA SignInKeepsInv ==
    ASSUME CookieInv, NEW q \in Replies, SignIn(q)
    PROVE  CookieInv'
<1>1. PICK p \in Pairs, a \in Lifetimes, r \in Lifetimes :
        /\ setTokens(q, p, Given(a, options.accessTokenMaxAge),
                           Given(r, options.refreshTokenMaxAge))
        /\ LET access  == Wanted(a, options.accessTokenMaxAge)
               refresh == Wanted(r, options.refreshTokenMaxAge)
           IN  asked' = [asked EXCEPT ![q] = [n \in Names |->
                  CASE n = options.accessTokenName /\ access # Invalid -> access
                    [] n = options.refreshTokenName /\ Invalid \notin {access, refresh} -> refresh
                    [] OTHER -> @[n]]]
      BY DEF SignIn
<1> DEFINE wanted ==
        [n \in Names |->
           CASE n = options.accessTokenName /\ Wanted(a, options.accessTokenMaxAge) # Invalid ->
                   Wanted(a, options.accessTokenMaxAge)
             [] n = options.refreshTokenName
                   /\ Invalid \notin {Wanted(a, options.accessTokenMaxAge),
                                      Wanted(r, options.refreshTokenMaxAge)} ->
                   Wanted(r, options.refreshTokenMaxAge)
             [] OTHER -> asked[q][n]]
<1>2. asked' = [asked EXCEPT ![q] = wanted]
      BY <1>1
<1>3. ~reply[q].threw
      BY DEF SignIn
<1>4. /\ DOMAIN reply' = Replies
      /\ \A s \in Replies : s # q => reply'[s] = reply[s]
      /\ GoodReply(options, reply'[q], wanted)
      /\ wanted \in [Names -> Nat]
      BY <1>1, <1>3, SetTokensGood
<1> HIDE DEF wanted
<1>5. /\ asked' \in [Replies -> [Names -> Nat]] /\ asked'[q] = wanted
      /\ \A s \in Replies : s # q => asked'[s] = asked[s]
      BY <1>2, <1>4 DEF CookieInv
<1>6. UNCHANGED <<options, jar, due, last, torn>>
      BY DEF SignIn
<1>7. \A s \in Replies : GoodReply(options, reply'[s], asked'[s])
      BY <1>4, <1>5 DEF CookieInv
<1> QED BY <1>4, <1>5, <1>6, <1>7 DEF CookieInv

\* A handler signs out: both cookies are cleared, under the names they were set.
LEMMA ClearKeepsInv ==
    ASSUME CookieInv, NEW q \in Replies, clearTokens(q)
    PROVE  CookieInv'
<1> DEFINE cookies == [n \in Both(options) |-> clearedCookie]
           zero    == [n \in Names |-> 0]
<1>1. /\ reply' = [reply EXCEPT ![q] = Merged(reply[q], cookies, FALSE)]
      /\ asked' = [asked EXCEPT ![q] = zero]
      /\ ~reply[q].threw
      BY DEF clearTokens, SetCookies, Merged, Both
<1>2. /\ GoodReply(options, reply[q], asked[q]) /\ options \in Policies /\ DOMAIN reply = Replies
      /\ asked \in [Replies -> [Names -> Nat]]
      BY DEF CookieInv
<1>3. /\ DOMAIN cookies = Both(options) /\ zero \in [Names -> Nat]
      /\ SamePair(cookies[options.accessTokenName].val, cookies[options.refreshTokenName].val)
      BY DEF Both, SamePair, clearedCookie
<1>4. Both(options) \subseteq Names
      BY <1>2 DEF Both, Names
<1>5. DOMAIN reply[q].cookies \subseteq Both(options)
      BY <1>2 DEF GoodReply, Both
<1>6. \A n \in DOMAIN cookies : GoodCookie(options, n, cookies[n], zero[n])
      BY <1>4, ClearedFits
<1> DEFINE m == Merged(reply[q], cookies, FALSE)
<1>7. /\ DOMAIN m = {"cookies", "threw"} /\ m.threw = FALSE
      /\ DOMAIN m.cookies = Both(options)
      /\ \A n \in Both(options) : m.cookies[n] = cookies[n]
      BY <1>3, <1>5 DEF Merged
<1>8. GoodReply(options, m, zero)
  <2> HIDE DEF m, cookies, zero
  <2> QED BY <1>3, <1>6, <1>7 DEF GoodReply, Both
<1> HIDE DEF m, zero, cookies
<1>9. /\ DOMAIN reply' = Replies /\ reply'[q] = m
      /\ \A s \in Replies : s # q => reply'[s] = reply[s] /\ asked'[s] = asked[s]
      /\ asked' \in [Replies -> [Names -> Nat]] /\ asked'[q] = zero
      BY <1>1, <1>2, <1>3 DEF m
<1>10. UNCHANGED <<options, jar, due, last, torn>>
       BY DEF clearTokens
<1>11. \A s \in Replies : GoodReply(options, reply'[s], asked'[s])
       BY <1>8, <1>9 DEF CookieInv
<1> QED BY <1>9, <1>10, <1>11 DEF CookieInv

\* No reply is a good reply.
LEMMA NoReplyGood ==
    ASSUME NEW o
    PROVE  GoodReply(o, NoReply, [n \in Names |-> 0])
<1>1. DOMAIN NoReply = {"cookies", "threw"} /\ NoReply.threw = FALSE /\ DOMAIN NoReply.cookies = {}
      BY DEF NoReply
<1> QED BY <1>1 DEF GoodReply, Both

\* A reply that arrives or is lost is gone.
LEMMA ReplyGone ==
    ASSUME CookieInv, NEW q \in Replies, reply' = [reply EXCEPT ![q] = NoReply],
           asked' = [asked EXCEPT ![q] = [n \in Names |-> 0]], UNCHANGED options
    PROVE  /\ DOMAIN reply' = Replies /\ asked' \in [Replies -> [Names -> Nat]]
           /\ \A s \in Replies : GoodReply(options', reply'[s], asked'[s])
<1>1. DOMAIN reply = Replies /\ asked \in [Replies -> [Names -> Nat]]
      BY DEF CookieInv
<1>2. /\ reply'[q] = NoReply /\ asked'[q] = [n \in Names |-> 0]
      /\ \A s \in Replies : s # q => reply'[s] = reply[s] /\ asked'[s] = asked[s]
      /\ DOMAIN reply' = Replies /\ asked' \in [Replies -> [Names -> Nat]]
      BY <1>1
<1>3. \A s \in Replies : GoodReply(options, reply'[s], asked'[s])
      BY <1>2, NoReplyGood DEF CookieInv
<1> QED BY <1>2, <1>3

\* The browser takes over the cookies of a reply, both or the first.
LEMMA DeliverKeepsInv ==
    ASSUME CookieInv, NEW q \in Replies, Deliver(q)
    PROVE  CookieInv'
<1> DEFINE cookies == reply[q].cookies
           o == options
<1>1. /\ DOMAIN reply' = Replies /\ asked' \in [Replies -> [Names -> Nat]]
      /\ \A s \in Replies : GoodReply(options', reply'[s], asked'[s])
      /\ options' = o /\ o \in Policies
      BY ReplyGone DEF Deliver, CookieInv
<1>2. /\ jar' = [n \in Names |-> IF n \in DOMAIN cookies THEN Kept(cookies[n]) ELSE jar[n]]
      /\ due' = [n \in Names |-> IF n \in DOMAIN cookies THEN asked[q][n] ELSE due[n]]
      BY DEF Deliver
<1>3. GoodReply(o, reply[q], asked[q]) /\ asked[q] \in [Names -> Nat]
      BY DEF CookieInv
<1>4. DOMAIN cookies \subseteq Both(o) /\ Both(o) \subseteq Names /\ o.accessTokenName \in Both(o)
      BY <1>1, <1>3 DEF GoodReply, Both, Names
<1>5. \A n \in DOMAIN cookies : /\ GoodCookie(o, n, cookies[n], asked[q][n])
                                /\ GoodEntry(o, n, Kept(cookies[n]), asked[q][n])
                                /\ Kept(cookies[n]).val \in {None, cookies[n].val}
  <2>1. TAKE n \in DOMAIN cookies
  <2>2. GoodCookie(o, n, cookies[n], asked[q][n]) /\ asked[q][n] \in Nat /\ n \in Both(o)
        BY <1>3, <1>4 DEF GoodReply
  <2> QED BY <1>1, <2>2, KeptGood
<1>6. \A n \in Names : GoodEntry(o, n, jar'[n], due'[n])
      BY <1>2, <1>5 DEF CookieInv
<1>7. jar' \in [Names -> Entries(Tokens)] /\ due' \in [Names -> Nat]
      BY <1>2, <1>6 DEF GoodEntry
<1>8. CASE o.accessTokenName \in DOMAIN cookies
  <2> DEFINE token == cookies[o.accessTokenName].val
  <2>1. /\ last' = IF token = None THEN None ELSE token.pair
        /\ torn' = reply[q].threw
        BY <1>8 DEF Deliver
  <2>2. token \in Tokens \cup {None} /\ reply[q].threw \in BOOLEAN
        BY <1>3, <1>5, <1>8 DEF GoodCookie, Cookies, GoodReply
  <2>3. torn' \in BOOLEAN /\ last' \in Pairs \cup {None}
        BY <2>1, <2>2 DEF Tokens
  <2>4. ASSUME NEW n \in Names, jar'[n].val # None, n = o.accessTokenName \/ ~torn'
        PROVE  jar'[n].val.pair = last'
    <3>1. n \in Both(o)
          BY <1>6, <2>4 DEF GoodEntry
    <3>2. CASE n = o.accessTokenName
          BY <1>2, <1>4, <1>5, <1>8, <2>1, <2>4, <3>2
    <3>3. CASE n = o.refreshTokenName /\ ~torn'
      <4>1. DOMAIN cookies = Both(o)
            BY <1>3, <1>8, <2>1, <3>3 DEF GoodReply
      <4>2. SamePair(token, cookies[n].val)
            BY <1>3, <2>1, <3>3, <4>1 DEF GoodReply
      <4>3. jar'[n].val = cookies[n].val
            BY <1>2, <1>5, <2>4, <3>1, <4>1
      <4> QED BY <2>1, <2>4, <4>2, <4>3 DEF SamePair
    <3> QED BY <2>4, <3>1, <3>2, <3>3 DEF Both
  <2> QED BY <1>1, <1>6, <1>7, <2>3, <2>4 DEF CookieInv, Current
<1>9. CASE o.accessTokenName \notin DOMAIN cookies
  <2>1. DOMAIN cookies = {} /\ UNCHANGED <<last, torn>>
        BY <1>3, <1>9 DEF GoodReply, Both, Deliver
  <2>2. \A n \in Names : jar'[n] = jar[n]
        BY <1>2, <2>1
  <2> QED BY <1>1, <1>6, <1>7, <2>1, <2>2 DEF CookieInv
<1> QED BY <1>8, <1>9

\* Time and a restart take cookies away that had been kept long enough.
LEMMA JarAges ==
    ASSUME NEW o \in Policies, NEW n, NEW e, NEW wish, GoodEntry(o, n, e, wish)
    PROVE  /\ GoodEntry(o, n, Store!Elapse(e), IF wish > 0 THEN wish - 1 ELSE 0)
           /\ Store!Elapse(e).val \in {None, e.val}
           /\ e.left = Store!Forever => GoodEntry(o, n, Store!Gone, wish)
<1> USE DEF GoodEntry, Entries, Store!Exists, Store!Forever
<1>1. Second \in Nat \ {0} /\ wish \in Nat /\ e.left \in Nat \cup {-1}
      BY TimeAssumption
<1>2. Store!Gone.val = None /\ Store!Gone.left = 0 /\ Store!Gone \in Entries(Tokens)
      BY DEF Store!Gone
<1>3. e.left = Store!Forever => GoodEntry(o, n, Store!Gone, wish)
      BY <1>1, <1>2
<1>4. CASE e.left > 1
  <2>1. Store!Elapse(e) = [e EXCEPT !.left = e.left - 1]
        BY <1>1, <1>4 DEF Store!Elapse
  <2>2. /\ Store!Elapse(e).left = e.left - 1 /\ Store!Elapse(e).val = e.val
        /\ Store!Elapse(e) \in Entries(Tokens)
        BY <1>1, <1>4, <2>1
  <2> QED BY <1>1, <1>3, <1>4, <2>2
<1>5. CASE e.left = 1
  <2>1. Store!Elapse(e) = Store!Gone
        BY <1>5 DEF Store!Elapse
  <2> QED BY <1>1, <1>2, <1>3, <1>5, <2>1
<1>6. CASE ~(e.left > 1) /\ e.left # 1
  <2>1. Store!Elapse(e) = e
        BY <1>6 DEF Store!Elapse
  <2> QED BY <1>1, <1>3, <1>6, <2>1
<1> QED BY <1>4, <1>5, <1>6

\* The cookies are as the handlers asked for, whatever order replies take.
THEOREM CookiesCorrect == Spec => []CookieInv
<1>1. Init => CookieInv
  <2> SUFFICES ASSUME Init PROVE CookieInv
      OBVIOUS
  <2>1. Store!Gone.val = None /\ Store!Gone.left = 0 /\ Store!Gone \in Entries(Tokens)
        BY DEF Store!Gone, Entries
  <2>2. \A n \in Names : GoodEntry(options, n, jar[n], due[n])
        BY <2>1, TimeAssumption DEF Init, GoodEntry, Store!Exists, Store!Forever
  <2>3. \A q \in Replies : GoodReply(options, reply[q], asked[q])
        BY NoReplyGood DEF Init
  <2> QED BY <2>1, <2>2, <2>3 DEF Init, CookieInv, Current
<1>2. CookieInv /\ [Next]_vars => CookieInv'
  <2> SUFFICES ASSUME CookieInv, [Next]_vars PROVE CookieInv'
      OBVIOUS
  <2>1. CASE UNCHANGED vars
        BY <2>1 DEF vars, history, CookieInv
  <2>2. CASE Tick
    <3>1. \A n \in Names : /\ GoodEntry(options, n, jar'[n], due'[n])
                           /\ jar'[n].val \in {None, jar[n].val}
          BY <2>2, JarAges DEF Tick, CookieInv
    <3>2. jar' \in [Names -> Entries(Tokens)] /\ due' \in [Names -> Nat]
          BY <2>2, <3>1 DEF Tick, GoodEntry
    <3> QED BY <2>2, <3>1, <3>2 DEF Tick, CookieInv, Current
  <2>3. CASE Restart
    <3>1. \A n \in Names : /\ GoodEntry(options, n, jar'[n], due'[n])
                           /\ jar'[n].val \in {None, jar[n].val}
      <4>1. TAKE n \in Names
      <4>2. jar'[n] = (IF jar[n].left = Store!Forever THEN Store!Gone ELSE jar[n]) /\ due' = due
            BY <2>3 DEF Restart, history
      <4> QED BY <4>2, JarAges DEF CookieInv, Store!Gone
    <3>2. jar' \in [Names -> Entries(Tokens)]
          BY <2>3, <3>1 DEF Restart, GoodEntry
    <3> QED BY <2>3, <3>1, <3>2 DEF Restart, CookieInv, Current, history
  <2>4. ASSUME NEW q \in Replies, SignIn(q) \/ clearTokens(q) \/ Deliver(q) PROVE CookieInv'
        BY <2>4, SignInKeepsInv, ClearKeepsInv, DeliverKeepsInv
  <2>5. ASSUME NEW q \in Replies, Lose(q) PROVE CookieInv'
        BY <2>5, ReplyGone DEF Lose, CookieInv
  <2>6. ASSUME NEW p \in Pairs, SignOut(p) PROVE CookieInv'
        BY <2>6 DEF SignOut, CookieInv
  <2> QED BY <2>1, <2>2, <2>3, <2>4, <2>5, <2>6 DEF Next
<1> QED BY <1>1, <1>2, PTL DEF Spec

\* A revocation outlives its token, however often it is repeated.
THEOREM RevocationCorrect == Spec => []RevokedInv
<1> USE TimeAssumption
<1>1. Init => RevokedInv
      BY DEF Init, RevokedInv, Entries, Store!Gone
<1>2. RevokedInv /\ [Next]_vars => RevokedInv'
  <2> SUFFICES ASSUME RevokedInv, [Next]_vars PROVE RevokedInv'
      OBVIOUS
  <2>1. CASE UNCHANGED vars
        BY <2>1 DEF vars, history, RevokedInv
  <2>2. CASE Tick
    <3>1. ASSUME NEW p \in Pairs
          PROVE  /\ revoked'[p] \in Entries({"1"})
                 /\ revoked'[p].left = IF revoked[p].left > 0 THEN revoked[p].left - 1 ELSE 0
                 /\ life'[p] = IF life[p] > 0 THEN life[p] - 1 ELSE 0
      <4>1. /\ revoked[p] \in Entries({"1"}) /\ revoked[p].left \in Nat
            /\ revoked'[p] = Store!Elapse(revoked[p])
            BY <2>2 DEF RevokedInv, Tick
      <4>2. CASE revoked[p].left > 1
        <5>1. revoked'[p] = [revoked[p] EXCEPT !.left = revoked[p].left - 1]
              BY <4>1, <4>2 DEF Store!Elapse
        <5> QED BY <2>2, <4>1, <4>2, <5>1 DEF Entries, Tick
      <4>3. CASE revoked[p].left = 1
        <5>1. revoked'[p] = Store!Gone
              BY <4>1, <4>3 DEF Store!Elapse
        <5> QED BY <2>2, <4>1, <4>3, <5>1 DEF Entries, Tick, Store!Gone
      <4>4. CASE revoked[p].left = 0
        <5>1. revoked'[p] = revoked[p]
              BY <4>1, <4>4 DEF Store!Elapse
        <5> QED BY <2>2, <4>1, <4>4, <5>1 DEF Tick
      <4> QED BY <4>1, <4>2, <4>3, <4>4
    <3>2. /\ \A p \in Pairs : /\ life[p] \in 0..TokenLife /\ revoked[p].left \in Nat
                              /\ revoked[p].left < life[p] + MaxLag + Second
                              /\ revoked[p].left <= TokenLife + Second
                              /\ p \in signedOut => revoked[p].left >= life[p]
          /\ signedOut' = signedOut /\ signedOut \subseteq Pairs
          BY <2>2 DEF RevokedInv, Tick
    <3>3. revoked' \in [Pairs -> Entries({"1"})] /\ life' \in [Pairs -> 0..TokenLife]
          BY <2>2, <3>1, <3>2 DEF Tick
    <3> QED BY <3>1, <3>2, <3>3 DEF RevokedInv
  <2>3. CASE Restart
        BY <2>3 DEF Restart, history, RevokedInv
  <2>4. ASSUME NEW q \in Replies, SignIn(q) PROVE RevokedInv'
    <3>1. PICK p \in Pairs : /\ life' = [life EXCEPT ![p] = TokenLife]
                             /\ signedOut' = signedOut \ {p} /\ Fresh(p)
          BY <2>4 DEF SignIn
    <3>2. revoked' = revoked /\ revoked[p].left = 0
          BY <2>4, <3>1 DEF SignIn, Fresh, Store!Exists
    <3>3. /\ life' \in [Pairs -> 0..TokenLife] /\ life'[p] = TokenLife
          /\ \A s \in Pairs : s # p => life'[s] = life[s]
          BY <3>1 DEF RevokedInv
    <3> QED BY <3>1, <3>2, <3>3 DEF RevokedInv
  <2>5. ASSUME NEW q \in Replies, clearTokens(q) \/ Deliver(q) \/ Lose(q) PROVE RevokedInv'
        BY <2>5 DEF clearTokens, Deliver, Lose, RevokedInv
  <2>6. ASSUME NEW p \in Pairs, SignOut(p) PROVE RevokedInv'
    <3>1. PICK lag \in 0..MaxLag :
            life[p] + lag <= TokenLife /\ revoke(p, CeilSeconds(life[p] + lag))
          BY <2>6 DEF SignOut
    <3> DEFINE k == CeilSeconds(life[p] + lag) * Second
    <3>2. life[p] + lag \in Nat /\ life[p] \in 0..TokenLife
          BY DEF RevokedInv
    <3>3. k >= life[p] + lag /\ k < life[p] + lag + Second /\ k \in Nat
      <4>1. \A m \in Nat : m * Second \in Nat
            OBVIOUS
      <4> QED BY <3>2, <4>1, CeilSuffices
    <3>4. revoked' = [revoked EXCEPT ![p] = [val |-> "1", left |-> k]]
          BY <3>1 DEF revoke, Store!Set
    <3> HIDE DEF k
    <3>5. /\ revoked' \in [Pairs -> Entries({"1"})] /\ revoked'[p].left = k
          /\ \A s \in Pairs : s # p => revoked'[s] = revoked[s]
          BY <3>3, <3>4 DEF RevokedInv, Entries
    <3>6. /\ UNCHANGED life /\ signedOut' \subseteq signedOut \cup {p}
          BY <2>6 DEF SignOut
    <3>7. /\ k < life[p] + MaxLag + Second /\ k <= TokenLife + Second /\ k >= life[p]
          BY <3>1, <3>2, <3>3
    <3> QED BY <3>3, <3>5, <3>6, <3>7 DEF RevokedInv
  <2> QED BY <2>1, <2>2, <2>3, <2>4, <2>5, <2>6 DEF Next
<1> QED BY <1>1, <1>2, PTL DEF Spec

\* Every variable stays in its set, and each token in the cookie it is for.
THEOREM TypeCorrect == Spec => []TypeOK
<1>1. CookieInv /\ RevokedInv => TypeOK
  <2> SUFFICES ASSUME CookieInv, RevokedInv PROVE TypeOK
      OBVIOUS
  <2>1. Both(options) \subseteq Names
        BY DEF CookieInv, Both, Names
  <2>2. \A q \in Replies : DOMAIN reply[q].cookies \subseteq Names /\ reply[q].threw \in BOOLEAN
    <3>1. TAKE q \in Replies
    <3>2. GoodReply(options, reply[q], asked[q])
          BY DEF CookieInv
    <3>3. DOMAIN reply[q].cookies \subseteq Both(options)
          BY <3>2 DEF GoodReply, Both
    <3> QED BY <2>1, <3>2, <3>3 DEF GoodReply
  <2>3. \A n \in Names : jar[n].val # None =>
           n = IF jar[n].val.kind = "access" THEN options.accessTokenName
                                             ELSE options.refreshTokenName
        BY DEF CookieInv, GoodEntry, Both, Kind
  <2>4. \A p \in Pairs : revoked[p].left \in 0..(TokenLife + Second)
        BY TimeAssumption DEF RevokedInv
  <2> QED BY <2>2, <2>3, <2>4 DEF CookieInv, RevokedInv, TypeOK
<1> QED BY <1>1, CookiesCorrect, RevocationCorrect, PTL

\* The browser never mixes two pairs, unless setTokens threw between its cookies.
THEOREM PairKept == Spec => []OnePair
<1>1. CookieInv => OnePair
  <2> SUFFICES ASSUME CookieInv PROVE OnePair
      OBVIOUS
  <2>1. ~torn => \A n \in Names : Store!Exists(jar[n]) => jar[n].val.pair = last
        BY DEF CookieInv, GoodEntry, Current
  <2>2. ASSUME "access_token" \in Names, Store!Exists(jar["access_token"])
        PROVE  jar["access_token"].val = Token("access", last)
    <3> DEFINE e == jar["access_token"]
    <3>1. /\ e.val # None /\ e \in Entries(Tokens)
          /\ "access_token" \in Both(options) /\ e.val.kind = Kind(options, "access_token")
          /\ "access_token" = options.accessTokenName => e.val.pair = last
          BY <2>2 DEF CookieInv, GoodEntry, Current
    <3>2. "access_token" = options.accessTokenName
          BY <3>1, PolicyAssumption DEF CookieInv, Both
    <3>3. e.val \in Tokens /\ e.val.kind = "access" /\ e.val.pair = last
          BY <3>1, <3>2 DEF Entries, Kind
    <3> QED BY <3>3 DEF Tokens, Token
  <2> QED BY <2>1, <2>2 DEF OnePair, extractAccessTokenCookie
<1> QED BY <1>1, CookiesCorrect, PTL

\* The browser keeps a cookie as long as it was asked to, less than a second more.
THEOREM LifetimesKept == Spec => []LifetimeKept
<1>1. CookieInv => LifetimeKept
      BY TimeAssumption DEF CookieInv, GoodEntry, LifetimeKept, Store!Exists, Store!Forever
<1> QED BY <1>1, CookiesCorrect, PTL

\* A token that was revoked is known as revoked until it expires.
THEOREM RevocationsKept == Spec => []RevokedUntilExpiry
<1>1. RevokedInv => RevokedUntilExpiry
      BY TimeAssumption DEF RevokedInv, RevokedUntilExpiry, isRevoked, Store!Exists
<1> QED BY <1>1, RevocationCorrect, PTL
=============================================================================
