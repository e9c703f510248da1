------------------------ MODULE ClientSessionProofs ------------------------
(***************************************************************************)
(* Theorems about the session of the web client, for any number of tabs,   *)
(* pairs of tokens, requests and broken connections.                       *)
(***************************************************************************)
EXTENDS ClientSession, TLAPS

(* What the tokens are: the part of the type invariant renewals rest on.   *)
TokenTypes ==
    /\ stored \in 0 .. MaxPairs /\ issued \in 0 .. MaxPairs
    /\ live \subseteq Pairs /\ valid \subseteq Pairs
    /\ calls \in [Tabs -> SUBSET Call]
    /\ signOut \in [Tabs -> SignOut]
    /\ user \in [Pairs -> Tabs \cup {"nobody", "others"}]

(* A tab has at most one renewal under way (isRefreshing).                 *)
OneRenewal == \A t \in Tabs : \A c, d \in calls[t] : c = d

(* Pairs are used in the order they are issued.                            *)
UpToIssued ==
    /\ stored <= issued
    /\ \A t \in Tabs : \A c \in calls[t] : c.tok <= issued /\ c.got <= issued
    /\ \A p \in Pairs : p > issued => user[p] \notin Tabs

(* The new pair of a renewal is unknown to all pages until it arrives.     *)
NewIsUnused ==
    \A t \in Tabs : \A c \in calls[t] :
        c.st = "granted" =>
            /\ c.got \in Pairs /\ c.got # stored
            /\ user[c.got] = "others" \/ (user[c.got] = "nobody" /\ c.got \in valid)
            /\ \A u \in Tabs : \A d \in calls[u] :
                  d.st = "granted" /\ d.got = c.got => u = t

(* Who presents a token is its user, or one of several.                    *)
UserPresents == \A t \in Tabs : \A c \in calls[t] : user[c.tok] \in {t, "others"}

(* The pair in localStorage is good, unless it was presented.              *)
StoredIsGood ==
    stored # 0 =>
        \/ stored \in valid \/ user[stored] = "others"
        \/ user[stored] \in Tabs /\ \E c \in calls[user[stored]] : c.tok = stored

(* A token with one user is good until its renewal is answered, and is not *)
(* refused.                                                                *)
LoneIsGood ==
    \A t \in Tabs : \A c \in calls[t] :
        /\ c.st = "sent" /\ user[c.tok] = t => c.tok \in valid
        /\ c.st = "failed" => c.got # 0 \/ user[c.tok] # t

TokenInv ==
    /\ TokenTypes /\ OneRenewal /\ UpToIssued /\ NewIsUnused /\ UserPresents
    /\ StoredIsGood /\ LoneIsGood

-----------------------------------------------------------------------------
(* Without tokens nothing is presented.                                    *)
LEMMA TokenInit == Init => TokenInv
  BY SessionAssumption
     DEF Init, TokenInv, TokenTypes, OneRenewal, UpToIssued, NewIsUnused, UserPresents,
         StoredIsGood, LoneIsGood, Pairs, SignOut, NoSignOut

(* Steps that leave the tokens and the renewals alone.                     *)
LEMMA TokensUntouched ==
    ASSUME TokenInv, UNCHANGED <<stored, issued, valid, calls, user>>,
           live' \subseteq live, signOut' \in [Tabs -> SignOut]
    PROVE  TokenInv'
  BY DEF TokenInv, TokenTypes, OneRenewal, UpToIssued, NewIsUnused, UserPresents,
         StoredIsGood, LoneIsGood

(* A page is left: its tokens are nobody's any more.                       *)
LEMMA LeaveKeeps ==
    ASSUME TokenInv, NEW t \in Tabs, NEW to, NEW revoked \in 0 .. MaxPairs,
           Leave(t, to, revoked), stored' \in {0, stored}
    PROVE  TokenInv'
  <1> USE SessionAssumption
  <1>1. calls' = [calls EXCEPT ![t] = {}] /\ issued' = issued
    BY DEF Leave
  <1>2. user' = [p \in Pairs |-> IF user[p] = t \/ p = revoked THEN "others" ELSE user[p]]
    BY DEF Leave
  <1>3. PICK done \in SUBSET {c \in calls[t] : c.st = "sent"}, gone \in {{}, {revoked}} :
          valid' = valid \ (gone \cup {c.tok : c \in done}) /\ live' = live \ gone
    BY DEF Leave
  <1>4. TokenTypes'
    BY <1>1, <1>2, <1>3 DEF TokenInv, TokenTypes, Leave, SignOut, NoSignOut
  <1>5. \A p \in Pairs :
          user'[p] = "others" \/ (user'[p] = user[p] /\ (p \in valid => p \in valid'))
    <2> SUFFICES ASSUME NEW p \in Pairs, user[p] # t, p # revoked, user[p] # "others"
                 PROVE  p \in valid => p \in valid'
        BY <1>2 DEF TokenInv, TokenTypes
    <2>1. \A c \in calls[t] : c.tok # p
      BY DEF TokenInv, UserPresents
    <2> QED BY <1>3, <2>1
  <1>6. \A u \in Tabs : calls'[u] \subseteq calls[u]
    BY <1>1 DEF TokenInv, TokenTypes
  <1>7. OneRenewal' /\ UserPresents'
    BY <1>2, <1>4, <1>5, <1>6 DEF TokenInv, OneRenewal, UserPresents, TokenTypes, Call
  <1>8. UpToIssued'
    <2>1. stored' <= issued'
      BY <1>1 DEF TokenInv, TokenTypes, UpToIssued
    <2>2. \A u \in Tabs : \A c \in calls'[u] : c.tok <= issued' /\ c.got <= issued'
      BY <1>1, <1>6 DEF TokenInv, UpToIssued
    <2>3. \A p \in Pairs : p > issued' => user'[p] \notin Tabs
      BY <1>1, <1>5 DEF TokenInv, UpToIssued
    <2> QED BY <2>1, <2>2, <2>3 DEF UpToIssued
  <1>9. NewIsUnused'
    <2> SUFFICES ASSUME NEW u \in Tabs, NEW c \in calls'[u], c.st = "granted"
                 PROVE  /\ c.got \in Pairs /\ c.got # stored'
                        /\ user'[c.got] = "others" \/ (user'[c.got] = "nobody" /\ c.got \in valid')
                        /\ \A w \in Tabs : \A d \in calls'[w] :
                              d.st = "granted" /\ d.got = c.got => w = u
        BY DEF NewIsUnused
    <2>1. c \in calls[u]
      BY <1>6
    <2>2. /\ c.got \in Pairs /\ c.got # stored
          /\ user[c.got] = "others" \/ (user[c.got] = "nobody" /\ c.got \in valid)
      BY <2>1 DEF TokenInv, NewIsUnused
    <2>3. \A w \in Tabs : \A d \in calls'[w] : d.st = "granted" /\ d.got = c.got => w = u
      BY <1>6, <2>1 DEF TokenInv, NewIsUnused
    <2>4. c.got # 0
      BY <2>2 DEF Pairs
    <2> QED BY <1>5, <2>2, <2>3, <2>4
  <1>10. StoredIsGood'
    <2> SUFFICES ASSUME stored' # 0, user'[stored] # "others", stored \notin valid'
                 PROVE  user'[stored] \in Tabs /\ \E c \in calls'[user'[stored]] : c.tok = stored
        BY DEF StoredIsGood
    <2>1. stored \in Pairs
      BY DEF TokenInv, TokenTypes, Pairs
    <2>2. user'[stored] = user[stored] /\ stored \notin valid /\ user[stored] # t
      BY <1>2, <1>5, <2>1
    <2> QED BY <1>1, <2>2 DEF TokenInv, TokenTypes, StoredIsGood
  <1>11. LoneIsGood'
    <2> SUFFICES ASSUME NEW u \in Tabs, NEW c \in calls'[u], user'[c.tok] = u
                 PROVE  /\ c.st = "sent" => c.tok \in valid'
                        /\ c.st = "failed" => c.got # 0
        BY DEF LoneIsGood
    <2>1. c \in calls[u] /\ c.tok \in Pairs
      BY <1>6 DEF TokenInv, TokenTypes, Call
    <2>2. user[c.tok] = u /\ (c.tok \in valid => c.tok \in valid')
      BY <1>5, <2>1
    <2> QED BY <2>1, <2>2 DEF TokenInv, LoneIsGood
  <1> QED BY <1>4, <1>7, <1>8, <1>9, <1>10, <1>11 DEF TokenInv

(* A renewal is asked for: the token is good if nobody else presented it.  *)
LEMMA PresentKeeps ==
    ASSUME TokenInv, NEW t \in Tabs, NEW by \in {"request", "socket"},
           RefreshAccessToken(t, by), UNCHANGED <<stored, issued, live, valid, signOut>>
    PROVE  TokenInv'
  <1> USE SessionAssumption
  <1>1. CASE IsRefreshing(t)
    BY <1>1, TokensUntouched DEF RefreshAccessToken, TokenInv, TokenTypes
  <1>2. CASE ~IsRefreshing(t)
    <2> DEFINE new == [by |-> by, tok |-> stored, got |-> 0, st |-> "sent"]
    <2>1. calls[t] = {} /\ stored \in Pairs /\ new \in Call
      BY <1>2 DEF RefreshAccessToken, IsRefreshing, TokenInv, TokenTypes, Pairs, Call
    <2>2. calls' = [calls EXCEPT ![t] = {new}]
      BY <1>2, <2>1 DEF RefreshAccessToken
    <2>3. user' = [user EXCEPT ![stored] = IF @ \in {"nobody", t} THEN t ELSE "others"]
      BY <1>2 DEF RefreshAccessToken
    <2>4. /\ new.tok = stored /\ new.got = 0 /\ new.st = "sent"
          /\ calls'[t] = {new} /\ \A u \in Tabs \ {t} : calls'[u] = calls[u]
      BY <2>2 DEF TokenInv, TokenTypes
    <2> HIDE DEF new
    <2>5. /\ user'[stored] \in {t, "others"}
          /\ \A p \in Pairs \ {stored} : user'[p] = user[p]
          /\ \A p \in Pairs : user[p] = "others" => user'[p] = "others"
      BY <2>1, <2>3 DEF TokenInv, TokenTypes
    <2>6. TokenTypes'
      BY <2>1, <2>2, <2>3 DEF TokenInv, TokenTypes
    <2>7. OneRenewal'
      BY <2>4 DEF TokenInv, OneRenewal
    <2>8. UpToIssued'
      BY <2>1, <2>4, <2>5 DEF TokenInv, TokenTypes, UpToIssued, Pairs
    <2>9. NewIsUnused'
      <3> SUFFICES ASSUME NEW u \in Tabs, NEW c \in calls'[u], c.st = "granted"
                   PROVE  /\ c.got \in Pairs /\ c.got # stored'
                          /\ user'[c.got] = "others"
                             \/ (user'[c.got] = "nobody" /\ c.got \in valid')
                          /\ \A w \in Tabs : \A d \in calls'[w] :
                                d.st = "granted" /\ d.got = c.got => w = u
          BY DEF NewIsUnused
      <3>1. u # t /\ c \in calls[u]
        BY <2>4
      <3>2. /\ c.got \in Pairs /\ c.got # stored
            /\ user[c.got] = "others" \/ (user[c.got] = "nobody" /\ c.got \in valid)
            /\ \A w \in Tabs : \A d \in calls[w] : d.st = "granted" /\ d.got = c.got => w = u
        BY <3>1 DEF TokenInv, NewIsUnused
      <3> QED BY <2>4, <2>5, <3>2
    <2>10. UserPresents'
      <3> SUFFICES ASSUME NEW u \in Tabs, NEW c \in calls'[u] PROVE user'[c.tok] \in {u, "others"}
          BY DEF UserPresents
      <3>1. CASE u = t
        BY <2>4, <2>5, <3>1
      <3>2. CASE u # t
        <4>1. user[c.tok] \in {u, "others"} /\ c.tok \in Pairs
          BY <2>4, <3>2 DEF TokenInv, UserPresents, TokenTypes, Call
        <4> QED BY <2>3, <2>5, <3>2, <4>1 DEF TokenInv, TokenTypes
      <3> QED BY <3>1, <3>2
    <2>11. StoredIsGood'
      BY <2>4, <2>5 DEF StoredIsGood
    <2>12. LoneIsGood'
      <3> SUFFICES ASSUME NEW u \in Tabs, NEW c \in calls'[u], user'[c.tok] = u
                   PROVE  /\ c.st = "sent" => c.tok \in valid'
                          /\ c.st = "failed" => c.got # 0
          BY DEF LoneIsGood
      <3>1. CASE u = t
        <4>1. user[stored] \in {"nobody", t}
          BY <2>1, <2>3, <2>4, <3>1 DEF TokenInv, TokenTypes
        <4>2. stored \in valid
          BY <2>1, <4>1 DEF TokenInv, StoredIsGood, Pairs
        <4> QED BY <2>4, <3>1, <4>2
      <3>2. CASE u # t
        <4>1. c \in calls[u] /\ c.tok \in Pairs
          BY <2>4, <3>2 DEF TokenInv, TokenTypes, Call
        <4>2. user[c.tok] = u
          BY <2>5, <3>2, <4>1
        <4> QED BY <4>1, <4>2 DEF TokenInv, LoneIsGood
      <3> QED BY <3>1, <3>2
    <2> QED BY <2>6, <2>7, <2>8, <2>9, <2>10, <2>11, <2>12 DEF TokenInv
  <1> QED BY <1>1, <1>2

(* An answer replaces the call by one with the same token: what the parts  *)
(* about all calls ask of the new one.                                     *)
LEMMA GrantedKeeps ==
    ASSUME TokenInv, NEW t \in Tabs, NEW c \in calls[t], RefreshGranted(t, c)
    PROVE  TokenInv'
  <1> USE SessionAssumption
  <1> DEFINE new == [c EXCEPT !.st = "granted", !.got = issued + 1]
  <1>1. /\ c.st = "sent" /\ issued < MaxPairs /\ issued' = issued + 1
        /\ c.tok \in valid \/ \E u \in Tabs : \E d \in calls[u] : d.tok = c.tok /\ d.st = "granted"
        /\ live' = live \cup {issued + 1} /\ valid' = (valid \ {c.tok}) \cup {issued + 1}
        /\ UNCHANGED <<stored, user, signOut>>
    BY DEF RefreshGranted
  <1>2. /\ c \in Call /\ issued + 1 \in Pairs /\ issued + 1 \in 0 .. MaxPairs
        /\ \A d \in calls[t] : d = c
    BY <1>1 DEF TokenInv, TokenTypes, OneRenewal, Pairs
  <1>3. new \in Call /\ new.tok = c.tok /\ new.got = issued + 1 /\ new.st = "granted"
    BY <1>2 DEF Call
  <1>4. calls' = [calls EXCEPT ![t] = {new}]
    BY <1>1, <1>2 DEF RefreshGranted
  <1> HIDE DEF new
  <1>5. calls'[t] = {new} /\ \A u \in Tabs \ {t} : calls'[u] = calls[u]
    BY <1>4 DEF TokenInv, TokenTypes
  <1>6. TokenTypes'
    BY <1>1, <1>2, <1>3, <1>4 DEF TokenInv, TokenTypes
  <1>7. OneRenewal'
    BY <1>5 DEF TokenInv, OneRenewal
  <1>8. UpToIssued'
    <2>1. stored <= issued /\ issued \in Nat /\ stored \in Nat /\ c.tok \in Nat /\ c.tok <= issued
      BY <1>2 DEF TokenInv, TokenTypes, UpToIssued, Call, Pairs
    <2>2. \A u \in Tabs \ {t} : \A d \in calls[u] :
            d.tok \in Nat /\ d.got \in Nat /\ d.tok <= issued /\ d.got <= issued
      BY DEF TokenInv, TokenTypes, UpToIssued, Call, Pairs
    <2>3. \A p \in Pairs : p > issued + 1 => user[p] \notin Tabs
      BY <2>1 DEF TokenInv, UpToIssued, Pairs
    <2> QED BY <1>1, <1>3, <1>5, <2>1, <2>2, <2>3 DEF UpToIssued
  <1>9. NewIsUnused'
    <2>1. /\ issued + 1 # stored /\ user[issued + 1] \in {"nobody", "others"}
          /\ \A u \in Tabs : \A d \in calls[u] : d.got # issued + 1
      BY <1>2 DEF TokenInv, TokenTypes, UpToIssued, Call, Pairs
    <2> SUFFICES ASSUME NEW u \in Tabs, NEW d \in calls'[u], d.st = "granted"
                 PROVE  /\ d.got \in Pairs /\ d.got # stored'
                        /\ user'[d.got] = "others"
                           \/ (user'[d.got] = "nobody" /\ d.got \in valid')
                        /\ \A w \in Tabs : \A e \in calls'[w] :
                              e.st = "granted" /\ e.got = d.got => w = u
        BY DEF NewIsUnused
    <2>2. CASE u = t
      BY <1>1, <1>2, <1>3, <1>5, <2>1, <2>2
    <2>3. CASE u # t
      <3>1. d \in calls[u]
        BY <1>5, <2>3
      <3>2. /\ d.got \in Pairs /\ d.got # stored
            /\ user[d.got] = "others" \/ (user[d.got] = "nobody" /\ d.got \in valid)
            /\ \A w \in Tabs : \A e \in calls[w] : e.st = "granted" /\ e.got = d.got => w = u
        BY <3>1 DEF TokenInv, NewIsUnused
      <3>3. user[c.tok] # "nobody"
        BY DEF TokenInv, UserPresents
      <3> QED BY <1>1, <1>3, <1>5, <2>1, <3>1, <3>2, <3>3
    <2> QED BY <2>2, <2>3
  <1>10. UserPresents'
    BY <1>1, <1>3, <1>5 DEF TokenInv, UserPresents
  <1>11. StoredIsGood'
    <2> SUFFICES ASSUME stored # 0, stored \notin valid', user[stored] # "others"
                 PROVE  user[stored] \in Tabs /\ \E d \in calls'[user[stored]] : d.tok = stored
        BY <1>1 DEF StoredIsGood
    <2>1. CASE stored = c.tok
      BY <1>3, <1>5, <2>1 DEF TokenInv, UserPresents
    <2>2. CASE stored # c.tok
      <3>1. PICK d \in calls[user[stored]] : user[stored] \in Tabs /\ d.tok = stored
        BY <1>1, <2>2 DEF TokenInv, StoredIsGood
      <3>2. user[stored] # t
        BY <1>2, <2>2, <3>1
      <3> QED BY <1>5, <3>1, <3>2
    <2> QED BY <2>1, <2>2
  <1>12. LoneIsGood'
    <2> SUFFICES ASSUME NEW u \in Tabs, NEW d \in calls'[u], user[d.tok] = u
                 PROVE  /\ d.st = "sent" => d.tok \in valid'
                        /\ d.st = "failed" => d.got # 0
        BY <1>1 DEF LoneIsGood
    <2>1. CASE u = t
      BY <1>3, <1>5, <2>1
    <2>2. CASE u # t
      <3>1. d \in calls[u] /\ d.tok # c.tok
        BY <1>5, <2>2 DEF TokenInv, UserPresents
      <3> QED BY <1>1, <3>1 DEF TokenInv, LoneIsGood
    <2> QED BY <2>1, <2>2
  <1> QED BY <1>6, <1>7, <1>8, <1>9, <1>10, <1>11, <1>12 DEF TokenInv

(* A refusal, or an answer that is lost after the trade.                   *)
LEMMA FailedKeeps ==
    ASSUME TokenInv, NEW t \in Tabs, NEW c \in calls[t], RefreshFailed(t, c)
    PROVE  TokenInv'
  <1> USE SessionAssumption
  <1> DEFINE new == [c EXCEPT !.st = "failed", !.got = IF c.tok \in valid THEN c.tok ELSE 0]
  <1>1. /\ c.st = "sent" /\ UNCHANGED <<stored, issued, live, user, signOut>>
        /\ valid' \in {valid, valid \ {c.tok}}
    BY DEF RefreshFailed
  <1>2. /\ c \in Call /\ c.tok \in Pairs /\ c.tok \in 0 .. MaxPairs /\ c.tok # 0
        /\ \A d \in calls[t] : d = c
    BY DEF TokenInv, TokenTypes, OneRenewal, Call, Pairs
  <1>3. /\ new \in Call /\ new.tok = c.tok /\ new.st = "failed"
        /\ new.got = IF c.tok \in valid THEN c.tok ELSE 0
    <2> DEFINE got == IF c.tok \in valid THEN c.tok ELSE 0
    <2>1. got \in 0 .. MaxPairs
      BY <1>2
    <2> HIDE DEF got
    <2>2. LET n == [c EXCEPT !.st = "failed", !.got = got]
          IN  n \in Call /\ n.tok = c.tok /\ n.st = "failed" /\ n.got = got
      BY <1>2, <2>1 DEF Call
    <2> QED BY <2>2 DEF got
  <1>4. calls' = [calls EXCEPT ![t] = {new}]
    BY <1>2 DEF RefreshFailed
  <1> HIDE DEF new
  <1>5. calls'[t] = {new} /\ \A u \in Tabs \ {t} : calls'[u] = calls[u]
    BY <1>4 DEF TokenInv, TokenTypes
  <1>6. TokenTypes'
    BY <1>1, <1>3, <1>4 DEF TokenInv, TokenTypes
  <1>7. OneRenewal' /\ UserPresents'
    BY <1>1, <1>3, <1>5 DEF TokenInv, OneRenewal, UserPresents
  <1>8. UpToIssued'
    <2>1. c.tok <= issued /\ 0 <= issued
      BY DEF TokenInv, TokenTypes, UpToIssued
    <2> QED BY <1>1, <1>3, <1>5, <2>1 DEF TokenInv, UpToIssued
  <1>9. NewIsUnused'
    <2> SUFFICES ASSUME NEW u \in Tabs, NEW d \in calls'[u], d.st = "granted"
                 PROVE  /\ d.got \in Pairs /\ d.got # stored'
                        /\ user'[d.got] = "others"
                           \/ (user'[d.got] = "nobody" /\ d.got \in valid')
                        /\ \A w \in Tabs : \A e \in calls'[w] :
                              e.st = "granted" /\ e.got = d.got => w = u
        BY DEF NewIsUnused
    <2>1. u # t /\ d \in calls[u]
      BY <1>3, <1>5
    <2>2. /\ d.got \in Pairs /\ d.got # stored
          /\ user[d.got] = "others" \/ (user[d.got] = "nobody" /\ d.got \in valid)
          /\ \A w \in Tabs : \A e \in calls[w] : e.st = "granted" /\ e.got = d.got => w = u
      BY <2>1 DEF TokenInv, NewIsUnused
    <2>3. user[c.tok] # "nobody"
      BY DEF TokenInv, UserPresents
    <2> QED BY <1>1, <1>3, <1>5, <2>1, <2>2, <2>3
  <1>10. StoredIsGood'
    <2> SUFFICES ASSUME stored # 0, stored \notin valid', user[stored] # "others"
                 PROVE  user[stored] \in Tabs /\ \E d \in calls'[user[stored]] : d.tok = stored
        BY <1>1 DEF StoredIsGood
    <2>1. CASE stored = c.tok
      BY <1>3, <1>5, <2>1 DEF TokenInv, UserPresents
    <2>2. CASE stored # c.tok
      <3>1. PICK d \in calls[user[stored]] : user[stored] \in Tabs /\ d.tok = stored
        BY <1>1, <2>2 DEF TokenInv, StoredIsGood
      <3>2. user[stored] # t
        BY <1>2, <2>2, <3>1
      <3> QED BY <1>5, <3>1, <3>2
    <2> QED BY <2>1, <2>2
  <1>11. LoneIsGood'
    <2> SUFFICES ASSUME NEW u \in Tabs, NEW d \in calls'[u], user[d.tok] = u
                 PROVE  /\ d.st = "sent" => d.tok \in valid'
                        /\ d.st = "failed" => d.got # 0
        BY <1>1 DEF LoneIsGood
    <2>1. CASE u = t
      <3>1. c.tok \in valid
        BY <1>1, <1>3, <1>5, <2>1 DEF TokenInv, LoneIsGood
      <3> QED BY <1>2, <1>3, <1>5, <2>1, <3>1
    <2>2. CASE u # t
      <3>1. d \in calls[u] /\ d.tok # c.tok
        BY <1>5, <2>2 DEF TokenInv, UserPresents
      <3> QED BY <1>1, <3>1 DEF TokenInv, LoneIsGood
    <2> QED BY <2>1, <2>2
  <1> QED BY <1>6, <1>7, <1>8, <1>9, <1>10, <1>11 DEF TokenInv

(* The new pair is stored.                                                 *)
LEMMA ArrivesKeeps ==
    ASSUME TokenInv, NEW t \in Tabs, NEW c \in calls[t], RefreshArrives(t, c)
    PROVE  TokenInv'
  <1> USE SessionAssumption
  <1>1. /\ c.st = "granted" /\ stored' = c.got /\ calls' = [calls EXCEPT ![t] = @ \ {c}]
        /\ UNCHANGED <<issued, live, valid, user, signOut>>
    BY DEF RefreshArrives, Renewed, backend
  <1>2. /\ c.got \in Pairs /\ c.got \in 0 .. MaxPairs /\ c.got <= issued
        /\ user[c.got] = "others" \/ c.got \in valid
    BY <1>1 DEF TokenInv, NewIsUnused, UpToIssued, TokenTypes, Pairs
  <1>3. /\ calls'[t] = {} /\ \A u \in Tabs \ {t} : calls'[u] = calls[u]
        /\ \A u \in Tabs : calls'[u] \subseteq calls[u]
    BY <1>1 DEF TokenInv, TokenTypes, OneRenewal
  <1>4. TokenTypes'
    BY <1>1, <1>2 DEF TokenInv, TokenTypes
  <1>5. OneRenewal' /\ UserPresents' /\ LoneIsGood'
    BY <1>1, <1>3 DEF TokenInv, OneRenewal, UserPresents, LoneIsGood
  <1>6. UpToIssued'
    BY <1>1, <1>2, <1>3 DEF TokenInv, UpToIssued
  <1>7. NewIsUnused'
    BY <1>1, <1>3 DEF TokenInv, NewIsUnused
  <1>8. StoredIsGood'
    BY <1>1, <1>2 DEF StoredIsGood
  <1> QED BY <1>4, <1>5, <1>6, <1>7, <1>8 DEF TokenInv

(* A failure arrives and the page stays: the tokens are cleared.           *)
LEMMA ClearedKeeps ==
    ASSUME TokenInv, NEW t \in Tabs, NEW c \in calls[t], stored' = 0,
           calls' = [calls EXCEPT ![t] = @ \ {c}],
           UNCHANGED <<issued, live, valid, user, signOut>>
    PROVE  TokenInv'
  <1> USE SessionAssumption
  <1>1. \A u \in Tabs : calls'[u] \subseteq calls[u]
    BY DEF TokenInv, TokenTypes
  <1>2. TokenTypes'
    BY DEF TokenInv, TokenTypes
  <1>3. OneRenewal' /\ UserPresents' /\ LoneIsGood' /\ StoredIsGood'
    BY <1>1 DEF TokenInv, OneRenewal, UserPresents, LoneIsGood, StoredIsGood
  <1>4. UpToIssued'
    BY <1>1 DEF TokenInv, TokenTypes, UpToIssued
  <1>5. NewIsUnused'
    <2> SUFFICES ASSUME NEW u \in Tabs, NEW d \in calls'[u], d.st = "granted"
                 PROVE  /\ d.got \in Pairs /\ d.got # 0
                        /\ user[d.got] = "others"
                           \/ (user[d.got] = "nobody" /\ d.got \in valid)
                        /\ \A w \in Tabs : \A e \in calls'[w] :
                              e.st = "granted" /\ e.got = d.got => w = u
        BY DEF NewIsUnused
    <2>1. d.got \in Pairs
      BY <1>1 DEF TokenInv, NewIsUnused
    <2> QED BY <1>1, <2>1 DEF TokenInv, NewIsUnused, Pairs
  <1> QED BY <1>2, <1>3, <1>4, <1>5 DEF TokenInv

(* The pair of a login is new, and nobody has presented it.                *)
LEMMA LoginKeeps ==
    ASSUME TokenInv, NEW t \in Tabs, Login(t)
    PROVE  TokenInv'
  <1> USE SessionAssumption
  <1>1. /\ issued < MaxPairs /\ issued' = issued + 1 /\ stored' = issued + 1
        /\ live' = live \cup {issued + 1} /\ valid' = valid \cup {issued + 1}
        /\ UNCHANGED <<calls, signOut, user>>
    BY DEF Login
  <1>2. issued \in Nat /\ issued + 1 \in Pairs /\ issued + 1 \in 0 .. MaxPairs
    BY <1>1 DEF TokenInv, TokenTypes, Pairs
  <1>3. TokenTypes'
    BY <1>1, <1>2 DEF TokenInv, TokenTypes
  <1>4. OneRenewal' /\ UserPresents' /\ LoneIsGood'
    BY <1>1 DEF TokenInv, OneRenewal, UserPresents, LoneIsGood
  <1>5. \A u \in Tabs : \A c \in calls[u] : /\ c.tok \in Nat /\ c.got \in Nat
                                            /\ c.tok <= issued /\ c.got <= issued
    BY DEF TokenInv, TokenTypes, UpToIssued, Call, Pairs
  <1>6. UpToIssued'
    <2>1. \A p \in Pairs : p > issued + 1 => user[p] \notin Tabs
      BY <1>2 DEF TokenInv, UpToIssued, Pairs
    <2> QED BY <1>1, <1>2, <1>5, <2>1 DEF UpToIssued
  <1>7. NewIsUnused'
    BY <1>1, <1>2, <1>5 DEF TokenInv, NewIsUnused
  <1>8. StoredIsGood'
    BY <1>1 DEF StoredIsGood
  <1> QED BY <1>3, <1>4, <1>6, <1>7, <1>8 DEF TokenInv

(* The backend ends a refresh token: it counts as used by others.          *)
LEMMA EndKeeps ==
    ASSUME TokenInv, NEW p \in Pairs, EndRefresh(p)
    PROVE  TokenInv'
  <1> USE SessionAssumption
  <1>1. /\ valid' = valid \ {p} /\ user' = [user EXCEPT ![p] = "others"]
        /\ UNCHANGED <<stored, issued, live, calls, signOut>>
    BY DEF EndRefresh
  <1>2. user'[p] = "others" /\ \A q \in Pairs \ {p} : user'[q] = user[q]
    BY <1>1 DEF TokenInv, TokenTypes
  <1>3. TokenTypes'
    BY <1>1 DEF TokenInv, TokenTypes
  <1>4. \A t \in Tabs : \A c \in calls[t] : c.tok \in Pairs
    BY DEF TokenInv, TokenTypes, Call
  <1>5. OneRenewal' /\ UserPresents' /\ LoneIsGood'
    BY <1>1, <1>2, <1>4 DEF TokenInv, OneRenewal, UserPresents, LoneIsGood
  <1>6. UpToIssued' /\ NewIsUnused'
    BY <1>1, <1>2 DEF TokenInv, UpToIssued, NewIsUnused
  <1>7. StoredIsGood'
    <2>1. stored # 0 => stored \in Pairs
      BY DEF TokenInv, TokenTypes, Pairs
    <2> QED BY <1>1, <1>2, <2>1 DEF TokenInv, StoredIsGood
  <1> QED BY <1>3, <1>5, <1>6, <1>7 DEF TokenInv

-----------------------------------------------------------------------------
(* The actions by what they do to the tokens.                              *)
LEMMA TokenNext == TokenInv /\ [Next]_vars => TokenInv'
  <1> USE SessionAssumption
  <1> SUFFICES ASSUME TokenInv, [Next]_vars PROVE TokenInv'
    OBVIOUS
  <1>1. signOut \in [Tabs -> SignOut] /\ 0 \in 0 .. MaxPairs
    BY DEF TokenInv, TokenTypes
  <1>2. CASE UNCHANGED vars
    BY <1>1, <1>2, TokensUntouched DEF vars, backend
  <1>3. ASSUME NEW p \in Pairs, ExpireAccess(p) PROVE TokenInv'
    BY <1>1, <1>3, TokensUntouched DEF ExpireAccess
  <1>4. ASSUME NEW p \in Pairs, EndRefresh(p) PROVE TokenInv'
    BY <1>4, EndKeeps
  <1>5. ASSUME NEW t \in Tabs, Reload(t) PROVE TokenInv'
    BY <1>1, <1>5, LeaveKeeps DEF Reload
  <1>6. ASSUME NEW t \in Tabs, Login(t) PROVE TokenInv'
    BY <1>6, LoginKeeps
  <1>7. ASSUME NEW t \in Tabs, Logout(t) PROVE TokenInv'
    <2>1. signOut' \in [Tabs -> SignOut]
      BY <1>1, <1>7 DEF Logout, SignOut, TokenInv, TokenTypes
    <2> QED BY <1>7, <2>1, TokensUntouched DEF Logout, backend
  <1>8. ASSUME NEW t \in Tabs, LogoutArrives(t) PROVE TokenInv'
    <2>1. signOut[t].tok \in 0 .. MaxPairs
      BY <1>1 DEF SignOut
    <2> QED BY <1>8, <2>1, LeaveKeeps DEF LogoutArrives
  <1>9. ASSUME NEW t \in Tabs, NEW kind \in Kinds, Send(t, kind) PROVE TokenInv'
    <2>1. CASE UNCHANGED <<backend, page, calls, socket, signOut, user>>
      BY <1>1, <1>9, <2>1, TokensUntouched DEF Send, backend
    <2>2. CASE RedirectToLogin(t)
      BY <1>1, <1>9, <2>2, LeaveKeeps DEF Send, RedirectToLogin
    <2>3. CASE RefreshAccessToken(t, "request") /\ UNCHANGED <<backend, page, socket, signOut>>
      BY <1>9, <2>3, PresentKeeps DEF Send, backend
    <2> QED BY <1>9, <2>1, <2>2, <2>3 DEF Send
  <1>10. ASSUME NEW t \in Tabs, RefreshStep(t) PROVE TokenInv'
    <2> PICK c \in calls[t] : RefreshGranted(t, c) \/ RefreshFailed(t, c)
                              \/ RefreshArrives(t, c) \/ RefreshFailureArrives(t, c)
      BY <1>10 DEF RefreshStep
    <2>1. CASE RefreshGranted(t, c)
      BY <2>1, GrantedKeeps
    <2>2. CASE RefreshFailed(t, c)
      BY <2>2, FailedKeeps
    <2>3. CASE RefreshArrives(t, c)
      BY <2>3, ArrivesKeeps
    <2>4. CASE RefreshFailureArrives(t, c)
      <3>1. CASE RedirectToLogin(t)
        BY <1>1, <2>4, <3>1, LeaveKeeps DEF RefreshFailureArrives, RedirectToLogin
      <3>2. CASE calls' = [calls EXCEPT ![t] = @ \ {c}] /\ UNCHANGED <<backend, signOut, user>>
        BY <2>4, <3>2, ClearedKeeps DEF RefreshFailureArrives, backend
      <3> QED BY <2>4, <3>1, <3>2 DEF RefreshFailureArrives
    <2> QED BY <2>1, <2>2, <2>3, <2>4
  <1>11. ASSUME NEW t \in Tabs, RequestStep(t) PROVE TokenInv'
    <2>1. CASE Serve(t) \/ Lose(t)
      BY <1>1, <2>1, TokensUntouched DEF Serve, Lose, backend
    <2>2. CASE Answer(t)
      <3>1. CASE UNCHANGED <<backend, page, calls, socket, signOut, user>>
        BY <1>1, <2>2, <3>1, TokensUntouched DEF Answer, backend
      <3>2. CASE RedirectToLogin(t)
        BY <1>1, <2>2, <3>2, LeaveKeeps DEF Answer, RedirectToLogin
      <3>3. CASE RefreshAccessToken(t, "request") /\ UNCHANGED <<backend, page, socket, signOut>>
        BY <2>2, <3>3, PresentKeeps DEF Answer, backend
      <3> QED BY <2>2, <3>1, <3>2, <3>3 DEF Answer
    <2> QED BY <1>11, <2>1, <2>2 DEF RequestStep
  <1>12. ASSUME NEW t \in Tabs, NEW s, OnlySocket(t, s) PROVE TokenInv'
    BY <1>1, <1>12, TokensUntouched DEF OnlySocket, backend
  <1>13. ASSUME NEW t \in Tabs, SocketStep(t) PROVE TokenInv'
    <2>1. CASE OnOpen(t) \/ AuthSuccess(t) \/ Timer(t)
      BY <1>12, <2>1 DEF OnOpen, AuthSuccess, Timer
    <2>2. CASE AuthError(t)
      <3>1. CASE OnlySocket(t, ClosedByAuth(socket[t]))
        BY <1>12, <3>1
      <3>2. CASE /\ RefreshAccessToken(t, "socket")
                 /\ UNCHANGED <<stored, backend, page, request, signOut>>
        BY <3>2, PresentKeeps DEF backend
      <3> QED BY <2>2, <3>1, <3>2 DEF AuthError
    <2> QED BY <1>13, <2>1, <2>2 DEF SocketStep
  <1>14. ASSUME NEW t \in Tabs, Mount(t) \/ Break(t) \/ GoDead(t) PROVE TokenInv'
    BY <1>12, <1>14 DEF Mount, Break, GoDead
  <1>15. ASSUME NEW t \in Tabs, Recover(t) PROVE TokenInv'
    BY <1>12, <1>15 DEF Recover
  <1> QED
    BY <1>2, <1>3, <1>4, <1>5, <1>6, <1>7, <1>8, <1>9, <1>10, <1>11, <1>13, <1>14, <1>15
       DEF Next

(* What is stored and presented keeps to TokenInv in every behaviour.      *)
LEMMA TokenInvariant == Spec => []TokenInv
  BY TokenInit, TokenNext, PTL DEF Spec

-----------------------------------------------------------------------------
(* Only the end of a sign-out and of a failed renewal clears the tokens.   *)
LEMMA OnlyTwoClear ==
    ASSUME TokenInv, [Next]_vars, stored # 0, stored' = 0
    PROVE  \E t \in Tabs : \/ LogoutArrives(t)
                           \/ \E c \in calls[t] : RefreshFailureArrives(t, c)
  <1> USE SessionAssumption
  <1>1. issued \in Nat /\ \A t \in Tabs : \A c \in calls[t] : c.st = "granted" => c.got # 0
    BY DEF TokenInv, TokenTypes, NewIsUnused, Pairs
  <1>2. ~UNCHANGED vars
    BY DEF vars
  <1>3. \A p \in Pairs : ~ExpireAccess(p) /\ ~EndRefresh(p)
    BY DEF ExpireAccess, EndRefresh
  <1>4. \A t \in Tabs : ~Reload(t) /\ ~Login(t) /\ ~Logout(t)
    BY <1>1 DEF Reload, Login, Logout
  <1>5. \A t \in Tabs, kind \in Kinds : ~Send(t, kind)
    BY DEF Send
  <1>6. \A t \in Tabs : ~RequestStep(t)
    BY DEF RequestStep, Serve, Lose, Answer
  <1>7. \A t \in Tabs : \A s : ~OnlySocket(t, s)
    BY DEF OnlySocket
  <1>8. \A t \in Tabs : ~SocketStep(t)
    BY <1>7 DEF SocketStep, OnOpen, AuthSuccess, AuthError, Timer
  <1>9. \A t \in Tabs : ~(Mount(t) \/ Break(t) \/ GoDead(t) \/ Recover(t))
    BY <1>7 DEF Mount, Break, GoDead, Recover
  <1>10. \A t \in Tabs : \A c \in calls[t] :
            ~(RefreshGranted(t, c) \/ RefreshFailed(t, c) \/ RefreshArrives(t, c))
    BY <1>1 DEF RefreshGranted, RefreshFailed, RefreshArrives, Renewed
  <1> QED BY <1>2, <1>3, <1>4, <1>5, <1>6, <1>8, <1>9, <1>10 DEF Next, RefreshStep

(* clearTokens of lib/api.ts: in whatever order renewals, retries, sockets, *)
(* sign-outs and other tabs go, a page whose refresh token only it has      *)
(* presented is not refused by the backend, so that the tokens vanish only  *)
(* for a cause outside that page.                                           *)
THEOREM SignedOutOnlyForCause == Spec => SignedOutForCause
  <1>1. TokenInv /\ [Next]_vars =>
          [stored # 0 /\ stored' = 0 =>
             \E t \in Tabs :
                \/ signOut[t].asked
                \/ \E c \in calls[t] :
                      /\ c.st = "failed"
                      /\ c.got # 0 \/ user[c.tok] # t]_vars
    <2> SUFFICES ASSUME TokenInv, [Next]_vars, stored # 0, stored' = 0
                 PROVE  \E t \in Tabs :
                           \/ signOut[t].asked
                           \/ \E c \in calls[t] :
                                 c.st = "failed" /\ (c.got # 0 \/ user[c.tok] # t)
      OBVIOUS
    <2>1. PICK t \in Tabs : \/ LogoutArrives(t)
                            \/ \E c \in calls[t] : RefreshFailureArrives(t, c)
      BY OnlyTwoClear
    <2>2. CASE LogoutArrives(t)
      BY <2>2 DEF LogoutArrives
    <2>3. ASSUME NEW c \in calls[t], RefreshFailureArrives(t, c)
          PROVE  c.st = "failed" /\ (c.got # 0 \/ user[c.tok] # t)
      BY <2>3 DEF RefreshFailureArrives, TokenInv, LoneIsGood
    <2> QED BY <2>1, <2>2, <2>3
  <1> QED BY <1>1, TokenInvariant, PTL DEF Spec, SignedOutForCause

(* refreshAccessToken of lib/api.ts: a page never has two renewals under    *)
(* way, though its requests, its downloads and its socket all ask for them. *)
THEOREM OneRenewalPerPage == Spec => []OneRenewal
  <1>1. TokenInv => OneRenewal
    BY DEF TokenInv
  <1> QED BY <1>1, TokenInvariant, PTL
=============================================================================
