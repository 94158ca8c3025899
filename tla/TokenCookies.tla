--------------------------- MODULE TokenCookies ---------------------------
(***************************************************************************)
(* The life of a pair of tokens at the client and at the servers:          *)
(* TokenCookieService (src/cookie) puts access and refresh token into two  *)
(* cookies of a reply and takes them away again, TokenRevocationService    *)
(* (src/distributed) remembers tokens that must not be used any more.      *)
(* Several replies are on their way to one browser at once: they arrive in *)
(* any order or not at all, the browser restarts, store calls fail, and    *)
(* handlers give lifetimes that are not numbers.                           *)
(***************************************************************************)
EXTENDS Integers

CONSTANTS
    Replies,        \* replies under way at once
    Pairs,          \* pairs of tokens alive at once
    None, Invalid,  \* a missing lifetime, and one that is NaN, infinite or negative
    Policies,       \* options.cookie: names and lifetimes, in ticks
    Lifetimes,      \* the lifetimes handlers pass to setTokens, in ticks
    Second,         \* ticks of a second, the unit of maxAge and of a ttl
    TokenLife,      \* ticks until a token expires by itself
    MaxLag          \* most ticks a call of revoke is under way to the store

ASSUME TimeAssumption == Second \in Nat \ {0} /\ TokenLife \in Nat \ {0} /\ MaxLag \in Nat
ASSUME LifetimeAssumption == Lifetimes \subseteq Nat \cup {None, Invalid}
ASSUME NoneAssumption == /\ None \notin Nat \cup [kind : {"access", "refresh"}, pair : Pairs]
                         /\ Invalid \notin Nat \cup {None}
ASSUME PolicyAssumption == \A o \in Policies :
    /\ o.accessTokenName # o.refreshTokenName /\ o.refreshTokenName # "access_token"
    /\ {o.accessTokenMaxAge, o.refreshTokenMaxAge} \subseteq Nat \cup {None, Invalid}

VARIABLES
    options,    \* options.cookie of the application
    reply,      \* cookies a reply sets so far, and whether its handler threw
    jar,        \* the browser's cookies: name -> entry of ExpiringStore
    life,       \* ticks until the tokens of a pair expire
    revoked,    \* the revocation store: `revoked:${jti}` -> entry
    asked,      \* history: ticks for which a handler wants the cookies of its reply kept
    due,        \* history: ticks for which the browser should keep a cookie
    last,       \* history: the pair of the last reply that arrived
    torn,       \* history: had setTokens thrown between that reply's cookies?
    signedOut   \* history: pairs of which a revoke succeeded

history == <<asked, due, last, torn, signedOut>>
vars    == <<options, reply, jar, life, revoked, history>>

Store == INSTANCE ExpiringStore WITH Nil <- None

Names == UNION {{o.accessTokenName, o.refreshTokenName} : o \in Policies}

NoReply == [cookies |-> [n \in {} |-> None], threw |-> FALSE]

Token(kind, p) == [kind |-> kind, pair |-> p]
-----------------------------------------------------------------------------
\* Mutant: a lifetime of zero counts as missing (|| for ??).
GivenOr(lifetime, option) == IF lifetime \in {None, 0} THEN option ELSE lifetime

\* lifetimes.x ?? options.x
Given(lifetime, option) == IF lifetime = None THEN option ELSE lifetime

\* Math.ceil(ms / 1000)
CeilSeconds(ticks) == (ticks + Second - 1) \div Second

\* cookieOptions: a session cookie, or one with a lifetime in whole seconds.
cookieOptions(token, lifetime) ==
    [val |-> token, maxAge |-> IF lifetime = None THEN None ELSE CeilSeconds(lifetime)]

clearedCookie == [val |-> None, maxAge |-> 0]

\* What the browser keeps of a cookie: it drops one without time to live, and
\* keeps one without maxAge until it is closed.
Kept(cookie) == CASE cookie.maxAge = None -> Store!Set(cookie.val, Store!Forever)
                  [] cookie.maxAge = 0    -> Store!Gone
                  [] OTHER                -> Store!Set(cookie.val, cookie.maxAge * Second)

\* reply.setCookie: the last cookie of a name stands.
SetCookies(q, cookies, threw) ==
    reply' = [reply EXCEPT ![q] =
        [cookies |-> [n \in DOMAIN @.cookies \cup DOMAIN cookies |->
                         IF n \in DOMAIN cookies THEN cookies[n] ELSE @.cookies[n]],
         threw |-> threw]]

\* extractAccessTokenCookie, CookieAuthGuard: a name that is not configurable.
extractAccessTokenCookie ==
    IF "access_token" \in Names /\ Store!Exists(jar["access_token"])
      THEN jar["access_token"].val ELSE None
-----------------------------------------------------------------------------
Init ==
    /\ options \in Policies
    /\ reply   = [q \in Replies |-> NoReply]
    /\ jar     = [n \in Names |-> Store!Gone]
    /\ life    = [p \in Pairs |-> 0]
    /\ revoked = [p \in Pairs |-> Store!Gone]
    /\ asked   = [q \in Replies |-> [n \in Names |-> 0]]
    /\ due     = [n \in Names |-> 0]
    /\ last    = None
    /\ torn    = FALSE
    /\ signedOut = {}

\* A pair nobody holds any more stands for a new one.
Fresh(p) ==
    /\ life[p] = 0
    /\ ~Store!Exists(revoked[p])
    /\ \A n \in Names : jar[n].val # None => jar[n].val.pair # p
    /\ \A q \in Replies : \A n \in DOMAIN reply[q].cookies :
          reply[q].cookies[n].val # None => reply[q].cookies[n].val.pair # p

\* Mutant: a cookie without time to live is left out (if (maxAge) ...).
setTokensTruthy(q, p, a, r) ==
    LET names == IF r \in {0, Invalid} THEN {options.accessTokenName}
                 ELSE {options.accessTokenName, options.refreshTokenName}
    IN  IF a = Invalid
          THEN reply' = [reply EXCEPT ![q].threw = TRUE]
          ELSE SetCookies(q, [n \in names |->
                  IF n = options.accessTokenName THEN cookieOptions(Token("access", p), a)
                                                 ELSE cookieOptions(Token("refresh", p), r)],
                          r = Invalid)

\* Mutant: the access token goes into both cookies.
setTokensTwice(q, p, a, r) ==
    IF a = Invalid
      THEN reply' = [reply EXCEPT ![q].threw = TRUE]
      ELSE SetCookies(q, [n \in {options.accessTokenName, options.refreshTokenName} |->
              cookieOptions(Token("access", p), a)], r = Invalid)

\* setTokens with its two lifetimes: it throws at the first that is no number,
\* and looks at the second when the first cookie has been set.
setTokens(q, p, a, r) ==
    LET names == IF r = Invalid THEN {options.accessTokenName}
                 ELSE {options.accessTokenName, options.refreshTokenName}
    IN  IF a = Invalid
          THEN reply' = [reply EXCEPT ![q].threw = TRUE]
          ELSE SetCookies(q, [n \in names |->
                  IF n = options.accessTokenName THEN cookieOptions(Token("access", p), a)
                                                 ELSE cookieOptions(Token("refresh", p), r)],
                          r = Invalid)

\* What LifetimeKept means by the lifetime of a cookie, in words of its own: that
\* of the handler if it gave one, or else that of the options, or else none.
Wanted(lifetime, option) ==
    CASE lifetime # None                    -> lifetime
      [] lifetime = None /\ option # None   -> option
      [] lifetime = None /\ option = None   -> 0

\* A handler signs the client in or renews its tokens: it sets a new pair.
SignIn(q) ==
    /\ ~reply[q].threw
    /\ \E p \in Pairs, a \in Lifetimes, r \in Lifetimes :
          /\ Fresh(p)
          /\ life' = [life EXCEPT ![p] = TokenLife]
          /\ signedOut' = signedOut \ {p}
          /\ setTokens(q, p, Given(a, options.accessTokenMaxAge),
                             Given(r, options.refreshTokenMaxAge))
          /\ LET access  == Wanted(a, options.accessTokenMaxAge)
                 refresh == Wanted(r, options.refreshTokenMaxAge)
             IN  asked' = [asked EXCEPT ![q] = [n \in Names |->
                    CASE n = options.accessTokenName /\ access # Invalid -> access
                      [] n = options.refreshTokenName /\ Invalid \notin {access, refresh} -> refresh
                      [] OTHER -> @[n]]]
    /\ UNCHANGED <<options, jar, revoked, due, last, torn>>

\* clearTokens: both cookies, under the names they were set with.
clearTokens(q) ==
    /\ ~reply[q].threw
    /\ SetCookies(q, [n \in {options.accessTokenName, options.refreshTokenName} |->
                         clearedCookie], FALSE)
    /\ asked' = [asked EXCEPT ![q] = [n \in Names |-> 0]]
    /\ UNCHANGED <<options, jar, life, revoked, due, last, torn, signedOut>>

\* The reply reaches the browser, which takes over all its cookies at once.  A
\* handler that threw has its error sent with the cookies set until then.
Deliver(q) ==
    LET cookies == reply[q].cookies
    IN  /\ reply[q] # NoReply
        /\ reply' = [reply EXCEPT ![q] = NoReply]
        /\ jar'   = [n \in Names |-> IF n \in DOMAIN cookies THEN Kept(cookies[n]) ELSE jar[n]]
        /\ due'   = [n \in Names |-> IF n \in DOMAIN cookies THEN asked[q][n] ELSE due[n]]
        /\ asked' = [asked EXCEPT ![q] = [n \in Names |-> 0]]
        /\ IF options.accessTokenName \in DOMAIN cookies
             THEN LET token == cookies[options.accessTokenName].val
                  IN  /\ last' = IF token = None THEN None ELSE token.pair
                      /\ torn' = reply[q].threw
             ELSE UNCHANGED <<last, torn>>
        /\ UNCHANGED <<options, life, revoked, signedOut>>

Lose(q) ==
    /\ reply[q] # NoReply
    /\ reply' = [reply EXCEPT ![q] = NoReply]
    /\ asked' = [asked EXCEPT ![q] = [n \in Names |-> 0]]
    /\ UNCHANGED <<options, jar, life, revoked, due, last, torn, signedOut>>

\* The browser is closed: session cookies are gone.
Restart ==
    /\ \E n \in Names : jar[n].left = Store!Forever
    /\ jar' = [n \in Names |-> IF jar[n].left = Store!Forever THEN Store!Gone ELSE jar[n]]
    /\ UNCHANGED <<options, reply, life, revoked, history>>

\* Mutant: the ttl is taken for ticks, not for seconds.
revokeShort(p, ttlSec) == revoked' = [revoked EXCEPT ![p] = Store!Set("1", ttlSec)]

\* TokenRevocationService.revoke
revoke(p, ttlSec) == revoked' = [revoked EXCEPT ![p] = Store!Set("1", ttlSec * Second)]

isRevoked(p) == Store!Exists(revoked[p])

\* A handler revokes a token for the whole seconds it had left a moment ago.
\* The store call may fail, here after it took effect, and be tried again.
SignOut(p) ==
    /\ life[p] > 0
    /\ \E lag \in 0..MaxLag :
          life[p] + lag <= TokenLife /\ revoke(p, CeilSeconds(life[p] + lag))
    /\ signedOut' \in {signedOut, signedOut \cup {p}}
    /\ UNCHANGED <<options, reply, jar, life, asked, due, last, torn>>

Tick ==
    /\ jar'     = [n \in Names |-> Store!Elapse(jar[n])]
    /\ revoked' = [p \in Pairs |-> Store!Elapse(revoked[p])]
    /\ life'    = [p \in Pairs |-> IF life[p] > 0 THEN life[p] - 1 ELSE 0]
    /\ due'     = [n \in Names |-> IF due[n] > 0 THEN due[n] - 1 ELSE 0]
    /\ UNCHANGED <<options, reply, asked, last, torn, signedOut>>

Next ==
    \/ Tick \/ Restart
    \/ \E q \in Replies : SignIn(q) \/ clearTokens(q) \/ Deliver(q) \/ Lose(q)
    \/ \E p \in Pairs : SignOut(p)

Spec == Init /\ [][Next]_vars
-----------------------------------------------------------------------------
(***************************************************************************)
(* Properties.                                                             *)
(***************************************************************************)
Entries(values) == [val : values \cup {None}, left : Nat \cup {Store!Forever}]
Tokens == [kind : {"access", "refresh"}, pair : Pairs]

\* Every variable stays in its set; an access token is only ever in the access
\* cookie, a refresh token in the other (src/cookie, src/distributed).
TypeOK ==
    /\ options \in Policies
    /\ \A q \in Replies : DOMAIN reply[q].cookies \subseteq Names /\ reply[q].threw \in BOOLEAN
    /\ jar     \in [Names -> Entries(Tokens)]
    /\ \A n \in Names : jar[n].val # None =>
          n = IF jar[n].val.kind = "access" THEN options.accessTokenName
                                            ELSE options.refreshTokenName
    /\ life    \in [Pairs -> 0..TokenLife]
    /\ revoked \in [Pairs -> Entries({"1"})]
    /\ \A p \in Pairs : revoked[p].left \in 0..(TokenLife + Second)
    /\ asked   \in [Replies -> [Names -> Nat]]
    /\ due     \in [Names -> Nat]
    /\ last    \in Pairs \cup {None}
    /\ torn    \in BOOLEAN
    /\ signedOut \subseteq Pairs

\* The browser's tokens are those of the last reply that arrived: whatever
\* order replies take, it never mixes two pairs and keeps none after a sign-out,
\* unless setTokens threw between its two cookies.  The guard reads the same
\* access token, or none under a configured name.
OnePair ==
    /\ ~torn => \A n \in Names : Store!Exists(jar[n]) => jar[n].val.pair = last
    /\ extractAccessTokenCookie \in {None, Token("access", last)}

\* The browser keeps a cookie for the lifetime the handler or else the options
\* asked for, and less than a second longer; a lifetime of zero ends it at once.
LifetimeKept ==
    \A n \in Names :
        /\ due[n] > 0 => Store!Exists(jar[n])
        /\ jar[n].left # Store!Forever => jar[n].left < due[n] + Second

\* A token of which one revoke succeeded is recognised as revoked until it
\* expires, whatever later revokes with less time left do or fail to do; and no
\* revocation is remembered longer than its call took and a second.
RevokedUntilExpiry ==
    \A p \in Pairs :
        /\ p \in signedOut /\ life[p] > 0 => isRevoked(p)
        /\ revoked[p].left < life[p] + MaxLag + Second
=============================================================================
