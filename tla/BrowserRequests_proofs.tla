----------------------- MODULE BrowserRequests_proofs -----------------------
(* The secrets of a device session stay on one chain, and no honest tab is *)
(* taken for a replay, for any number of tabs and rotations; and what is   *)
(* sent with attachments stays whole, for any number of requests, staged   *)
(* files and photos.                                                       *)
EXTENDS MCBrowserRequests, FiniteSetTheorems, SequenceTheorems, TLAPS

-----------------------------------------------------------------------------
(* Secrets, that is, sequences of generations.                             *)

LEMMA SecretIsSeq ==
  ASSUME NEW s
  PROVE  s \in Secret <=> s \in Seq(1..MaxGen) /\ Len(s) <= MaxGen
  <1>1. ASSUME s \in Secret PROVE s \in Seq(1..MaxGen) /\ Len(s) <= MaxGen
    <2>1. PICK n \in 0..MaxGen : s \in [1..n -> 1..MaxGen]
      BY <1>1 DEF Secret
    <2>2. n \in Nat /\ n <= MaxGen
      BY <2>1, RotationAssumption
    <2>3. s \in Seq(1..MaxGen)
      BY <2>1, <2>2, SeqDef
    <2>4. Len(s) = n
      BY <2>1, <2>2, <2>3, LenProperties
    <2>5. QED
      BY <2>2, <2>3, <2>4
  <1>2. ASSUME s \in Seq(1..MaxGen), Len(s) <= MaxGen PROVE s \in Secret
    <2>1. Len(s) \in 0..MaxGen /\ s \in [1..Len(s) -> 1..MaxGen]
      BY <1>2, LenProperties, RotationAssumption
    <2>2. QED
      BY <2>1 DEF Secret
  <1>3. QED
    BY <1>1, <1>2

(* What a prefix is, element by element.                                   *)
LEMMA PrefixByElement ==
  ASSUME NEW s \in Secret, NEW t \in Secret
  PROVE  IsPrefix(s, t) <=> Len(s) <= Len(t) /\ \A i \in 1..Len(s) : s[i] = t[i]
  <1>1. /\ s \in Seq(1..MaxGen) /\ t \in Seq(1..MaxGen)
        /\ Len(s) \in Nat /\ Len(t) \in Nat
    BY SecretIsSeq, LenProperties
  <1>2. ASSUME Len(s) <= Len(t)
        PROVE  /\ SubSeq(s, 1, Len(s)) = s
               /\ SubSeq(t, 1, Len(s)) \in Seq(1..MaxGen)
               /\ Len(SubSeq(t, 1, Len(s))) = Len(s)
               /\ \A i \in 1..Len(s) : SubSeq(t, 1, Len(s))[i] = t[i]
    <2>1. \A i \in 1..Len(s) : t[i] \in 1..MaxGen
      <3>1. t \in [1..Len(t) -> 1..MaxGen]
        BY <1>1, LenProperties
      <3>2. 1..Len(s) \subseteq 1..Len(t)
        BY <1>1, <1>2
      <3>3. QED
        BY <3>1, <3>2
    <2>2. /\ SubSeq(t, 1, Len(s)) \in Seq(1..MaxGen)
          /\ Len(SubSeq(t, 1, Len(s))) = IF 1 <= Len(s) THEN Len(s) - 1 + 1 ELSE 0
          /\ \A i \in 1..(Len(s) - 1 + 1) : SubSeq(t, 1, Len(s))[i] = t[1 + i - 1]
      <3>1. 1 \in Int /\ Len(s) \in Int
        BY <1>1
      <3>2. QED
        BY <2>1, <3>1, SubSeqProperties
    <2>3. QED
      BY <1>1, <2>2, SubSeqFull
  <1>3. QED
    BY <1>1, <1>2, SeqEqual DEF IsPrefix

LEMMA PrefixOfItself ==
  ASSUME NEW s \in Secret
  PROVE  IsPrefix(s, s)
  BY PrefixByElement, SecretIsSeq, LenProperties

(* The next secret, and what was a prefix stays one.                       *)
LEMMA DeriveExtends ==
  ASSUME NEW t \in Secret, NEW g \in 1..MaxGen, Len(t) < MaxGen
  PROVE  /\ Derive(g, t) \in Secret /\ Len(Derive(g, t)) = Len(t) + 1
         /\ Derive(g, t) # t
         /\ \A s \in Secret : IsPrefix(s, t) => IsPrefix(s, Derive(g, t))
  <1>1. t \in Seq(1..MaxGen) /\ Len(t) \in Nat
    BY SecretIsSeq, LenProperties
  <1>2. /\ Append(t, g) \in Seq(1..MaxGen)
        /\ Len(Append(t, g)) = Len(t) + 1
        /\ \A i \in 1..Len(t) : Append(t, g)[i] = t[i]
    BY <1>1
  <1>3. Derive(g, t) \in Secret /\ Len(Derive(g, t)) = Len(t) + 1
    <2>1. Append(t, g) \in Seq(1..MaxGen) /\ Len(Append(t, g)) <= MaxGen
      BY <1>1, <1>2, RotationAssumption
    <2>2. Append(t, g) \in Secret
      BY <2>1, SecretIsSeq
    <2>3. QED
      BY <1>2, <2>2 DEF Derive
  <1>4. ASSUME NEW s \in Secret, IsPrefix(s, t) PROVE IsPrefix(s, Derive(g, t))
    <2>1. Len(s) \in Nat
      BY SecretIsSeq, LenProperties
    <2>2. Len(s) <= Len(t) /\ \A i \in 1..Len(s) : s[i] = t[i]
      BY <1>4, PrefixByElement
    <2>3. Len(s) <= Len(Derive(g, t)) /\ \A i \in 1..Len(s) : s[i] = Derive(g, t)[i]
      BY <1>1, <1>2, <2>1, <2>2 DEF Derive
    <2>4. QED
      BY <1>3, <2>3, PrefixByElement
  <1>5. QED
    BY <1>1, <1>3, <1>4

LEMMA NoneIsNoSecret == None \notin Secret
  <1>1. SUFFICES ASSUME None \in Secret PROVE FALSE
    OBVIOUS
  <1>2. None \in Seq(1..MaxGen) /\ Len(None) = 1
    BY <1>1, SecretIsSeq DEF None
  <1>3. None[1] \in 1..MaxGen
    <2>1. 1 \in 1..Len(None)
      BY <1>2
    <2>2. QED
      BY <1>2, <2>1, ElementOfSeq
  <1>4. QED
    BY <1>3, RotationAssumption DEF None

-----------------------------------------------------------------------------
(* The current secret was derived from the previous one.                   *)
Chained ==
  /\ row.previous # None => /\ row.generation \in 1..MaxGen
                            /\ Len(row.previous) < MaxGen
                            /\ row.current = Derive(row.generation, row.previous)
  /\ row.grace => row.previous # None

(* When the grace is over and nothing went wrong, nobody holds an older    *)
(* secret with which he would still ask for a rotation.                    *)
UpToDate ==
  ~ row.grace /\ ~ mishap =>
    /\ jar.refresh = row.current
    /\ \A t \in Tabs : tab[t].at = "server" /\ ~ tab[t].access => tab[t].secret = row.current

RotationInv == NoFork /\ Chained /\ UpToDate /\ NoSpuriousRevocation

LEMMA RotationInitially == Init => RotationInv
  <1> SUFFICES ASSUME Init PROVE RotationInv
    OBVIOUS
  <1>1. <<>> \in Secret /\ Len(<<>>) = 0
    <2>1. <<>> \in Seq(1..MaxGen) /\ Len(<<>>) = 0
      BY EmptySeq
    <2>2. Len(<<>>) <= MaxGen
      BY <2>1, RotationAssumption
    <2>3. QED
      BY <2>1, <2>2, SecretIsSeq
  <1>2. IsPrefix(<<>>, <<>>)
    BY <1>1, PrefixOfItself
  <1>3. TypeOK
    <2>1. row \in [state : {"live", "revoked", "over"}, generation : 0..MaxGen,
                    current : Secret, previous : Secret \cup {None}, grace : BOOLEAN]
      BY <1>1, RotationAssumption DEF Init
    <2>2. jar \in [refresh : Secret, access : BOOLEAN]
      BY <1>1 DEF Init
    <2>3. Len(row.current) = row.generation
      BY <1>1 DEF Init
    <2>4. tab \in [Tabs -> [at : {"none"}]]
      BY DEF Init, Quiet
    <2>5. QED
      BY <2>1, <2>2, <2>3, <2>4 DEF Init, TypeOK
  <1>4. NoFork
    BY <1>2, <1>3 DEF Init, NoFork, OnChain, Quiet
  <1>5. QED
    BY <1>4 DEF Init, RotationInv, Chained, UpToDate, NoSpuriousRevocation, Quiet

(* What the messages under way and the cookies look like.                  *)
Requests(t) == [at |-> "server", secret |-> jar.refresh, access |-> jar.access]

(* A tab whose request or answer is gone.                                  *)
LEMMA TabRests ==
  ASSUME RotationInv, NEW t \in Tabs, Set(t, Quiet) \/ Set(t, [at |-> "refused"]),
         UNCHANGED <<row, jar>>, mishap' \in BOOLEAN, signedOut' \in BOOLEAN,
         mishap => mishap', signedOut => signedOut'
  PROVE  RotationInv'
  <1> USE DEF Quiet
  <1>1. \A s \in Tabs : \/ tab'[s] = tab[s]
                        \/ tab'[s] \in [at : {"none"}] \cup [at : {"refused"}]
    BY DEF Set, RotationInv, NoFork, TypeOK
  <1>2. \A s \in Tabs : tab'[s].at \in {"server", "answer"} => tab'[s] = tab[s]
    BY <1>1
  <1>3. TypeOK'
    BY DEF Set, RotationInv, NoFork, TypeOK
  <1>4. NoFork'
    BY <1>2, <1>3 DEF RotationInv, NoFork, OnChain
  <1>5. UpToDate'
    BY <1>2 DEF RotationInv, UpToDate
  <1>6. QED
    BY <1>4, <1>5 DEF RotationInv, Chained, NoSpuriousRevocation

LEMMA AskKeeps ==
  ASSUME RotationInv, NEW t \in Tabs, Ask(t)
  PROVE  RotationInv'
  <1>1. /\ UNCHANGED <<row, jar, mishap, signedOut>>
        /\ tab' = [tab EXCEPT ![t] = Requests(t)]
    BY DEF Ask, Set, Requests
  <1>2. /\ Requests(t).at = "server" /\ Requests(t).secret = jar.refresh
        /\ Requests(t) \in [at : {"server"}, secret : Secret, access : BOOLEAN]
    BY DEF Requests, RotationInv, NoFork, TypeOK
  <1>3. \A s \in Tabs : tab'[s] = tab[s] \/ (s = t /\ tab'[s] = Requests(t))
    BY <1>1 DEF RotationInv, NoFork, TypeOK
  <1>4. TypeOK'
    BY <1>1, <1>2 DEF RotationInv, NoFork, TypeOK
  <1>5. NoFork'
    BY <1>1, <1>2, <1>3, <1>4 DEF RotationInv, NoFork, OnChain
  <1>6. UpToDate'
    BY <1>1, <1>2, <1>3 DEF RotationInv, UpToDate
  <1>7. QED
    BY <1>1, <1>5, <1>6 DEF RotationInv, Chained, NoSpuriousRevocation

LEMMA ReceiveKeeps ==
  ASSUME RotationInv, NEW t \in Tabs, Receive(t)
  PROVE  RotationInv'
  <1>1. /\ row' = row /\ signedOut' = signedOut /\ tab[t].at = "answer"
        /\ jar' = [refresh |-> tab[t].secret, access |-> TRUE]
        /\ mishap' = (mishap \/ tab[t].secret # row.current)
        /\ tab' = [tab EXCEPT ![t] = Quiet]
    BY DEF Receive, Set
  <1>2. tab[t].secret \in Secret /\ IsPrefix(tab[t].secret, row.current)
    BY <1>1 DEF RotationInv, NoFork, TypeOK, OnChain
  <1>3. \A s \in Tabs : tab'[s].at # "none" => tab'[s] = tab[s]
    BY <1>1 DEF RotationInv, NoFork, TypeOK, Quiet
  <1>4. TypeOK'
    BY <1>1, <1>2 DEF RotationInv, NoFork, TypeOK, Quiet
  <1>5. NoFork'
    BY <1>1, <1>2, <1>3, <1>4 DEF RotationInv, NoFork, OnChain
  <1>6. UpToDate'
    BY <1>1, <1>3 DEF RotationInv, UpToDate
  <1>7. QED
    BY <1>1, <1>5, <1>6 DEF RotationInv, Chained, NoSpuriousRevocation

(* Who presents the current secret replaces it.                            *)
LEMMA FirstUseKeeps ==
  ASSUME RotationInv, NEW t \in Tabs, tab[t].at = "server", ~ tab[t].access,
         tab[t].secret = row.current, row.state = "live", row.generation < MaxGen,
         row' = FirstUse(tab[t].secret),
         Set(t, [at |-> "answer", secret |-> row'.current]),
         UNCHANGED <<jar, mishap, signedOut>>
  PROVE  RotationInv'
  <1> DEFINE g == row.generation + 1
             new == Derive(g, row.current)
  <1>1. row.current \in Secret /\ Len(row.current) = row.generation /\ g \in 1..MaxGen
    BY RotationAssumption DEF RotationInv, NoFork, TypeOK
  <1>2. /\ row'.state = "live" /\ row'.generation = g /\ row'.current = new
        /\ row'.previous = row.current /\ row'.grace = TRUE
        /\ row' \in [state : {"live", "revoked", "over"}, generation : 0..MaxGen,
                     current : {new}, previous : Secret \cup {None}, grace : BOOLEAN]
    <2>1. row \in [state : {"live", "revoked", "over"}, generation : 0..MaxGen,
                    current : Secret, previous : Secret \cup {None}, grace : BOOLEAN]
      BY DEF RotationInv, NoFork, TypeOK
    <2>2. row' = [row EXCEPT !.generation = g, !.current = new,
                             !.previous = row.current, !.grace = TRUE]
      BY DEF FirstUse
    <2>3. g \in 0..MaxGen
      BY <1>1
    <2> HIDE DEF g, new
    <2>4. QED
      BY <1>1, <2>1, <2>2, <2>3
  <1>3. /\ new \in Secret /\ Len(new) = g
        /\ \A s \in Secret : IsPrefix(s, row.current) => IsPrefix(s, new)
    BY <1>1, DeriveExtends
  <1> HIDE DEF new
  <1>4. \A s \in Tabs : tab'[s] = tab[s] \/ tab'[s] = [at |-> "answer", secret |-> new]
    BY <1>2 DEF Set, RotationInv, NoFork, TypeOK
  <1>5. tab' = [tab EXCEPT ![t] = [at |-> "answer", secret |-> new]]
    BY <1>2 DEF Set
  <1>6. TypeOK'
    BY <1>2, <1>3, <1>5 DEF RotationInv, NoFork, TypeOK
  <1>7. NoFork'
    <2>1. IsPrefix(jar.refresh, new)
      BY <1>3 DEF RotationInv, NoFork, TypeOK, OnChain
    <2>2. ASSUME NEW s \in Tabs, tab'[s].at \in {"server", "answer"}
          PROVE  IsPrefix(tab'[s].secret, new)
      <3>1. CASE tab'[s] = [at |-> "answer", secret |-> new]
        BY <1>3, <3>1, PrefixOfItself
      <3>2. CASE tab'[s] = tab[s]
        <4>1. tab[s].secret \in Secret /\ IsPrefix(tab[s].secret, row.current)
          BY <2>2, <3>2 DEF RotationInv, NoFork, TypeOK, OnChain
        <4>2. QED
          BY <1>3, <3>2, <4>1
      <3>3. QED
        BY <1>4, <3>1, <3>2
    <2>3. QED
      BY <1>2, <1>6, <2>1, <2>2 DEF NoFork, OnChain
  <1>8. Chained'
    BY <1>1, <1>2, NoneIsNoSecret, RotationAssumption DEF Chained, new
  <1>9. UpToDate' /\ NoSpuriousRevocation'
    BY <1>2 DEF UpToDate, NoSpuriousRevocation
  <1>10. QED
    BY <1>7, <1>8, <1>9 DEF RotationInv

(* Who comes second within the grace gets the same successor.              *)
LEMMA SecondUseKeeps ==
  ASSUME RotationInv, NEW t \in Tabs, InGrace(tab[t].secret), row' = row,
         Set(t, [at |-> "answer", secret |-> SecondUse(tab[t].secret)]),
         UNCHANGED <<jar, mishap, signedOut>>
  PROVE  RotationInv'
  <1>1. SecondUse(tab[t].secret) = row.current
    BY DEF SecondUse, InGrace, RotationInv, Chained
  <1>2. row.current \in Secret /\ IsPrefix(row.current, row.current)
    BY PrefixOfItself DEF RotationInv, NoFork, TypeOK
  <1>3. tab' = [tab EXCEPT ![t] = [at |-> "answer", secret |-> row.current]]
    BY <1>1 DEF Set
  <1>4. \A s \in Tabs : tab'[s] = tab[s] \/ tab'[s] = [at |-> "answer", secret |-> row.current]
    BY <1>3 DEF RotationInv, NoFork, TypeOK
  <1>5. TypeOK'
    BY <1>2, <1>3 DEF RotationInv, NoFork, TypeOK
  <1>6. NoFork'
    BY <1>2, <1>4, <1>5 DEF RotationInv, NoFork, OnChain
  <1>7. UpToDate'
    BY <1>4 DEF RotationInv, UpToDate
  <1>8. QED
    BY <1>6, <1>7 DEF RotationInv, Chained, NoSpuriousRevocation

(* Who comes with the previous secret after the grace is refused, and the  *)
(* session revoked: then something went wrong before.                      *)
LEMMA RevocationKeeps ==
  ASSUME RotationInv, NEW t \in Tabs, tab[t].at = "server", ~ tab[t].access,
         tab[t].secret # row.current, ~ InGrace(tab[t].secret), tab[t].secret = row.previous,
         row' = [row EXCEPT !.state = "revoked"], Set(t, [at |-> "refused"]),
         UNCHANGED <<jar, mishap, signedOut>>
  PROVE  RotationInv'
  <1>1. mishap
    BY DEF InGrace, RotationInv, UpToDate
  <1>2. /\ row'.current = row.current /\ row'.previous = row.previous
        /\ row'.generation = row.generation /\ row'.grace = row.grace
        /\ row' \in [state : {"live", "revoked", "over"}, generation : 0..MaxGen,
                     current : Secret, previous : Secret \cup {None}, grace : BOOLEAN]
    BY DEF RotationInv, NoFork, TypeOK
  <1>3. \A s \in Tabs : tab'[s] = tab[s] \/ tab'[s] = [at |-> "refused"]
    BY DEF Set, RotationInv, NoFork, TypeOK
  <1>4. TypeOK'
    BY <1>2 DEF Set, RotationInv, NoFork, TypeOK
  <1>5. NoFork'
    BY <1>2, <1>3, <1>4 DEF RotationInv, NoFork, OnChain
  <1>6. QED
    BY <1>1, <1>2, <1>5 DEF RotationInv, Chained, UpToDate, NoSpuriousRevocation

LEMMA RotateKeeps ==
  ASSUME RotationInv, NEW t \in Tabs, Rotate(t)
  PROVE  RotationInv'
  <1>1. CASE row.state = "live" /\ tab[t].secret = row.current
    BY <1>1, FirstUseKeeps DEF Rotate
  <1>2. CASE row.state = "live" /\ tab[t].secret # row.current /\ InGrace(tab[t].secret)
    BY <1>2, SecondUseKeeps DEF Rotate
  <1>3. CASE /\ row.state = "live" /\ tab[t].secret # row.current
             /\ ~ InGrace(tab[t].secret) /\ tab[t].secret = row.previous
    BY <1>3, RevocationKeeps DEF Rotate
  <1>4. CASE \/ row.state # "live"
             \/ /\ tab[t].secret # row.current /\ ~ InGrace(tab[t].secret)
                /\ tab[t].secret # row.previous
    <2>1. row' = row /\ Set(t, [at |-> "refused"]) /\ UNCHANGED <<jar, mishap, signedOut>>
      BY <1>4 DEF Rotate
    <2>2. QED
      BY <2>1, TabRests DEF RotationInv, NoFork, TypeOK
  <1>5. QED
    BY <1>1, <1>2, <1>3, <1>4

LEMMA TimeKeeps ==
  ASSUME RotationInv, GraceEnds \/ AccessExpires \/ End("revoked") \/ End("over")
  PROVE  RotationInv'
  <1>1. CASE GraceEnds
    <2>1. /\ row' = [row EXCEPT !.grace = FALSE] /\ UNCHANGED <<jar, tab, signedOut>>
          /\ mishap' = (mishap \/ jar.refresh # row.current
                \/ \E t \in Tabs : /\ tab[t].at = "server" /\ ~ tab[t].access
                                   /\ tab[t].secret # row.current)
      BY <1>1 DEF GraceEnds
    <2>2. /\ row'.current = row.current /\ row'.previous = row.previous
          /\ row'.generation = row.generation /\ row'.grace = FALSE /\ row'.state = row.state
          /\ row' \in [state : {"live", "revoked", "over"}, generation : 0..MaxGen,
                       current : Secret, previous : Secret \cup {None}, grace : BOOLEAN]
      BY <2>1 DEF RotationInv, NoFork, TypeOK
    <2>3. NoFork'
      BY <2>1, <2>2 DEF RotationInv, NoFork, TypeOK, OnChain
    <2>4. UpToDate'
      BY <2>1, <2>2 DEF UpToDate
    <2>5. QED
      BY <2>1, <2>2, <2>3, <2>4 DEF RotationInv, Chained, NoSpuriousRevocation
  <1>2. CASE AccessExpires
    <2>1. /\ UNCHANGED <<row, tab, mishap, signedOut>> /\ jar' = [jar EXCEPT !.access = FALSE]
          /\ jar'.refresh = jar.refresh /\ jar' \in [refresh : Secret, access : BOOLEAN]
      BY <1>2 DEF AccessExpires, RotationInv, NoFork, TypeOK
    <2>2. NoFork'
      BY <2>1 DEF RotationInv, NoFork, TypeOK, OnChain
    <2>3. QED
      BY <2>1, <2>2 DEF RotationInv, Chained, UpToDate, NoSpuriousRevocation
  <1>3. ASSUME NEW state \in {"revoked", "over"}, End(state) PROVE RotationInv'
    <2>1. row' = [row EXCEPT !.state = state] /\ signedOut' = TRUE /\ UNCHANGED <<jar, tab, mishap>>
      BY <1>3 DEF End
    <2>2. /\ row'.current = row.current /\ row'.previous = row.previous
          /\ row'.generation = row.generation /\ row'.grace = row.grace
          /\ row' \in [state : {"live", "revoked", "over"}, generation : 0..MaxGen,
                       current : Secret, previous : Secret \cup {None}, grace : BOOLEAN]
      BY <2>1 DEF RotationInv, NoFork, TypeOK
    <2>3. NoFork'
      BY <2>1, <2>2 DEF RotationInv, NoFork, TypeOK, OnChain
    <2>4. QED
      BY <2>1, <2>2, <2>3 DEF RotationInv, Chained, UpToDate, NoSpuriousRevocation
  <1>4. QED
    BY <1>1, <1>2, <1>3

LEMMA RotationPartInvariance ==
  RotationInv /\ [PartsNext]_<<part, vars, uploadVars>> => RotationInv'
  <1> SUFFICES ASSUME RotationInv, [PartsNext]_<<part, vars, uploadVars>> PROVE RotationInv'
    OBVIOUS
  <1>1. ASSUME NEW t \in Tabs, Serve(t) \/ ReceiveRefusal(t) \/ Lose(t) PROVE RotationInv'
    <2>1. Set(t, Quiet) /\ UNCHANGED <<row, jar, mishap, signedOut>>
      BY <1>1 DEF Serve, ReceiveRefusal, Lose
    <2>2. QED
      BY <2>1, TabRests DEF RotationInv, NoFork, TypeOK
  <1>2. CASE Next
    BY <1>1, <1>2, RotateKeeps, AskKeeps, ReceiveKeeps, TimeKeeps DEF Next
  <1>3. CASE UNCHANGED vars
    BY <1>3 DEF vars, RotationInv, NoFork, TypeOK, OnChain, Chained, UpToDate,
                NoSpuriousRevocation
  <1>4. QED
    BY <1>2, <1>3 DEF PartsNext

(* The invariant of the rotation among the other parts.                    *)
THEOREM RotationInvariance == PartsSpec => []RotationInv
  <1>1. PartsInit => RotationInv
    BY RotationInitially DEF PartsInit
  <1>2. QED
    BY <1>1, RotationPartInvariance, PTL DEF PartsSpec

(* Whatever tabs ask, lose and receive in whatever order, all secrets lie  *)
(* on the one chain of the row (rotateDeviceSession).                      *)
THEOREM OneChain == PartsSpec => []NoFork
  BY RotationInvariance, PTL DEF RotationInv

(* A session that nobody ended is revoked only after a tab had stayed      *)
(* behind for longer than the grace (rotateDeviceSession).                 *)
THEOREM HonestTabsStay == PartsSpec => []NoSpuriousRevocation
  BY RotationInvariance, PTL DEF RotationInv

-----------------------------------------------------------------------------
(* Attachments and photos.                                                 *)

Active(p) == post[p].at \in {"claiming", "queued", "saving", "failed", "committed"}

(* A claim has one holder, and its file stays as it was claimed.  What a   *)
(* message was made of is never claimed again.                             *)
Claimed ==
  /\ \A p \in Posts : /\ post[p].claims \subseteq post[p].want
                      /\ post[p].at \in {"queued", "saving", "committed"} =>
                           post[p].claims = post[p].want
                      /\ message[p] # "none" => post[p].at \in {"committed", "done"}
  /\ \A p \in Posts : Active(p) =>
       \A s \in post[p].claims : file[s] = "claim" /\ size[s] = U!Full
  /\ \A p, q \in Posts : p # q /\ Active(p) /\ Active(q) =>
       post[p].claims \cap post[q].claims = {}

Spent ==
  \A p \in Posts : message[p] # "none" => \A s \in post[p].want :
    /\ file[s] # "cipher" /\ size[s] = U!Full
    /\ \A q \in Posts \ {p} : /\ Active(q) => s \notin post[q].claims
                              /\ message[q] # "none" => s \notin post[q].want

(* What a request has stored is there until its transaction ends, and only *)
(* grows old when the request is over.                                     *)
Stored ==
  \A p \in Posts :
    /\ post[p].at \in {"none", "claiming", "queued"} => post[p].saved = {}
    /\ \A s \in Stages :
         /\ post[p].at = "saving" /\ s \in post[p].saved => object[<<p, s>>] = "full"
         /\ upload[<<p, s>>] = "old" => post[p].at = "done"

(* The inventory has a photo from the moment it is saved, which happens    *)
(* once, and it does not grow old before its status is decided on.         *)
Shown ==
  \A f \in Photos :
    /\ upload[f] # "none" => photo[f] \in {"saved", "visible", "expired", "gone"}
    /\ upload[f] = "old" => photo[f] # "saved"
    /\ photo[f] \in {"saved", "visible"} => object[f] = "full"

(* What retention is about to remove is not referred to, now or later.     *)
Swept ==
  /\ \A x \in sweep.left \cup sweep.gone : upload[x] = "old" /\ ~ U!Referenced(x)
  /\ \A x \in sweep.gone : object[x] = "none"

(* Who stores attachments has room for all of them; likewise for a photo.  *)
Room ==
  /\ \A p \in Posts : post[p].at = "saving" =>
       /\ Cardinality(attached) + Cardinality(post[p].want) <= scene.budget
       /\ \A q \in Posts : post[q].at = "saving" => q = p
  /\ Cardinality(attached) <= scene.budget

Shelved == {f \in Photos : upload[f] # "none"}
ShelfRoom ==
  /\ \A f \in Photos : photo[f] = "saving" =>
       /\ Cardinality(Shelved) < Shelf
       /\ \A g \in Photos : photo[g] = "saving" => g = f
  /\ Cardinality(Shelved) <= Shelf

(* Everything about what is stored.                                        *)
StoreInv == Stored /\ Shown /\ Swept /\ U!Complete /\ U!Inventoried

MediaInv ==
  /\ U!TypeOK /\ Claimed /\ Spent /\ StoreInv /\ Room /\ ShelfRoom

(* The instance's own name for the number of elements.                     *)
LEMMA SameSize == \A S : U!Cardinality(S) = Cardinality(S)
  BY DEF U!Cardinality, Cardinality

(* Types.  A send is a record; a step of its own changes no other send.    *)
PostRec == [at : U!PostSteps, want : SUBSET Stages, claims : SUBSET Stages, saved : SUBSET Stages]

LEMMA ScenesTyped ==
  ASSUME NEW sc \in Scenes
  PROVE  sc.budget \in Nat /\ sc.stops \in Nat
  <1> DEFINE one == {CHOOSE s \in Stages : TRUE}
             first == {CHOOSE p \in Posts : TRUE}
             A == [stages : {one}, chunked : {TRUE}, posts : {Posts}, photos : {{}},
                   stops : {1}, ages : {FALSE}, budget : {2}]
             B == [stages : {Stages}, chunked : {FALSE}, posts : {Posts}, photos : {{}},
                   stops : {0}, ages : {FALSE}, budget : {1, 2}]
             C == [stages : {one}, chunked : {FALSE}, posts : {first}, photos : {Photos},
                   stops : {1}, ages : {TRUE}, budget : {2}]
             D == [stages : {one}, chunked : {FALSE}, posts : {Posts}, photos : {{}},
                   stops : {1}, ages : {TRUE}, budget : {2}]
  <1>1. sc \in A \cup B \cup C \cup D
    BY Zenon DEF Scenes
  <1>2. CASE sc \in A
    BY <1>2
  <1>3. CASE sc \in B
    BY <1>3
  <1>4. CASE sc \in C
    BY <1>4
  <1>5. CASE sc \in D
    BY <1>5
  <1> HIDE DEF A, B, C, D
  <1>6. QED
    BY <1>1, <1>2, <1>3, <1>4, <1>5

LEMMA TypedStaging ==
  ASSUME U!TypeOK, NEW s, NEW h,
         \/ s \in Stages /\ U!CreateStage(s)
         \/ s \in Stages /\ U!LearnOffset(s)
         \/ s \in Stages /\ U!BreakLock(s)
         \/ s \in Stages /\ U!Inventory(s)
         \/ h \in Puts /\ U!WriteChunk(h)
         \/ h \in Puts /\ s \in Stages /\ U!AppendStage(h, s)
  PROVE  U!TypeOK'
  <1> USE MediaAssumption DEF U!TypeOK, U!storeVars, U!Full
  <1>1. CASE s \in Stages /\ U!CreateStage(s)
    BY <1>1 DEF U!CreateStage
  <1>2. CASE s \in Stages /\ U!LearnOffset(s)
    BY <1>2 DEF U!LearnOffset
  <1>3. CASE s \in Stages /\ U!BreakLock(s)
    BY <1>3 DEF U!BreakLock
  <1>4. CASE s \in Stages /\ U!Inventory(s)
    BY <1>4 DEF U!Inventory
  <1>5. CASE h \in Puts /\ U!WriteChunk(h)
    <2>1. PICK c \in put[h].stage, half \in 0..2 :
            /\ size' = [size EXCEPT ![c] =
                 IF file[c] = "cipher" /\ @ < 2 * put[h].chunk + half
                 THEN 2 * put[h].chunk + half ELSE @]
            /\ lock' = [lock EXCEPT ![c] = FALSE]
      BY <1>5 DEF U!WriteChunk
    <2>2. 2 * put[h].chunk + half \in 0..U!Full
      <3>1. put[h].chunk \in 0..(Chunks - 1)
        BY <1>5
      <3>2. QED
        BY <3>1
    <2>3. size' \in [Stages -> 0..U!Full] /\ lock' \in [Stages -> BOOLEAN]
      BY <2>1, <2>2
    <2>4. put' \in [Puts -> [stage : SUBSET Stages, chunk : 0..(Chunks - 1)]]
      BY <1>5 DEF U!WriteChunk, U!NoPut
    <2>5. QED
      BY <1>5, <2>3, <2>4 DEF U!WriteChunk
  <1>6. CASE h \in Puts /\ s \in Stages /\ U!AppendStage(h, s)
    <2>1. acked[s] \in 0..(Chunks - 1)
      BY <1>6 DEF U!AppendStage
    <2>2. put' \in [Puts -> [stage : SUBSET Stages, chunk : 0..(Chunks - 1)]]
      BY <1>6, <2>1 DEF U!AppendStage
    <2>3. lock' \in [Stages -> BOOLEAN]
      BY <1>6 DEF U!AppendStage
    <2>4. QED
      BY <1>6, <2>2, <2>3 DEF U!AppendStage
  <1>7. QED
    BY <1>1, <1>2, <1>3, <1>4, <1>5, <1>6

LEMMA Stepped ==
  ASSUME U!TypeOK, NEW p \in Posts, NEW at \in U!PostSteps, U!Step(p, at)
  PROVE  /\ post' \in [Posts -> PostRec]
         /\ post'[p].at = at /\ post'[p].want = post[p].want
         /\ post'[p].claims = post[p].claims /\ post'[p].saved = post[p].saved
         /\ \A q \in Posts \ {p} : post'[q] = post[q]
  <1>1. post \in [Posts -> PostRec]
    BY DEF U!TypeOK, PostRec
  <1>2. post' = [post EXCEPT ![p].at = at]
    BY DEF U!Step
  <1>3. post'[p] = [post[p] EXCEPT !.at = at] /\ post[p] \in PostRec
    BY <1>1, <1>2
  <1>4. post'[p] = [at |-> at, want |-> post[p].want, claims |-> post[p].claims,
                    saved |-> post[p].saved]
    BY <1>3 DEF PostRec
  <1>5. post'[p] \in PostRec
    BY <1>3, <1>4 DEF PostRec
  <1>6. \A q \in Posts \ {p} : post'[q] = post[q]
    BY <1>1, <1>2
  <1>7. post' = [q \in Posts |-> IF q = p THEN post'[p] ELSE post[q]]
    BY <1>1, <1>2
  <1>8. QED
    BY <1>1, <1>4, <1>5, <1>6, <1>7

(* What no step of a send but its own changes.                             *)
LEMMA OnlyAt ==
  ASSUME U!TypeOK, NEW p \in Posts, NEW at \in U!PostSteps, U!Step(p, at),
         UNCHANGED <<scene, stops, file, size, lock, acked, put, photo, message, attached,
                     upload, object, sweep>>
  PROVE  U!TypeOK'
  BY Stepped DEF U!TypeOK, PostRec

LEMMA TypedSending ==
  ASSUME U!TypeOK, NEW p \in Posts,
         U!BeginPost(p) \/ U!PostStep(p) \/ U!LoseTransaction(p) \/ U!DeleteMessage(p)
  PROVE  U!TypeOK'
  <1> USE MediaAssumption DEF U!Sent, U!storeVars, U!stageVars
  <1>a. /\ post \in [Posts -> PostRec]
        /\ {"claiming", "queued", "saving", "failed", "committed", "done"} \subseteq U!PostSteps
    BY DEF U!TypeOK, PostRec, U!PostSteps
  <1>1. CASE U!BeginPost(p)
    <2>1. PICK want \in SUBSET Stages :
            post' = [post EXCEPT ![p] = [U!NoPost EXCEPT !.at = "claiming", !.want = want]]
      BY <1>1 DEF U!BeginPost
    <2>2. [U!NoPost EXCEPT !.at = "claiming", !.want = want] \in PostRec
      BY <1>a DEF U!NoPost, PostRec
    <2>3. post' \in [Posts -> PostRec]
      BY <1>a, <2>1, <2>2
    <2>4. QED
      BY <1>1, <2>3 DEF U!BeginPost, U!TypeOK, PostRec
  <1>2. ASSUME NEW s \in Stages, U!ClaimStage(p, s) PROVE U!TypeOK'
    <2>1. CASE UNCHANGED file /\ U!Step(p, "failed")
      BY <1>2, <2>1, <1>a, OnlyAt DEF U!ClaimStage
    <2>2. CASE /\ file' = [file EXCEPT ![s] = "claim"]
               /\ post' = [post EXCEPT ![p].claims = @ \cup {s}]
      <3>1. file' \in [Stages -> {"none", "cipher", "claim"}]
        BY <2>2 DEF U!TypeOK
      <3>2. [post[p] EXCEPT !.claims = @ \cup {s}] \in PostRec
        BY <1>a DEF PostRec
      <3>3. post' \in [Posts -> PostRec]
        BY <1>a, <2>2, <3>2
      <3>4. QED
        BY <1>2, <3>1, <3>3 DEF U!ClaimStage, U!TypeOK, PostRec
    <2>3. QED
      BY <1>2, <2>1, <2>2 DEF U!ClaimStage
  <1>3. CASE U!BeginTransaction(p) \/ U!NoConnection(p) \/ U!LoseTransaction(p)
    BY <1>3, <1>a, OnlyAt DEF U!BeginTransaction, U!NoConnection, U!LoseTransaction
  <1>4. CASE U!LockBudget(p)
    <2>1. PICK at \in {"saving", "failed"} : U!Step(p, at)
      BY <1>4 DEF U!LockBudget
    <2>2. QED
      BY <1>4, <1>a, <2>1, OnlyAt DEF U!LockBudget
  <1>5. ASSUME NEW s \in Stages, U!TrackUpload(p, s) PROVE U!TypeOK'
    BY <1>5 DEF U!TrackUpload, U!TypeOK, U!Paths, U!Media
  <1>6. ASSUME NEW s \in Stages, U!SaveFile(p, s) PROVE U!TypeOK'
    <2>1. PICK got \in {"none", "part", "full"} :
            /\ object' = [object EXCEPT ![<<p, s>>] = got]
            /\ post' = IF got = "full" THEN [post EXCEPT ![p].saved = @ \cup {s}]
                       ELSE [post EXCEPT ![p].at = "failed"]
      BY <1>6 DEF U!SaveFile
    <2>2. object' \in [U!Paths -> {"none", "part", "full"}]
      BY <2>1 DEF U!TypeOK
    <2>3. /\ [post[p] EXCEPT !.saved = @ \cup {s}] \in PostRec
          /\ [post[p] EXCEPT !.at = "failed"] \in PostRec
      BY <1>a DEF PostRec
    <2>4. post' \in [Posts -> PostRec]
      BY <1>a, <2>1, <2>3
    <2>5. QED
      BY <1>6, <2>2, <2>4 DEF U!SaveFile, U!TypeOK, PostRec
  <1>7. CASE U!CommitPost(p)
    <2>1. post' \in [Posts -> PostRec]
      BY <1>7, <1>a, Stepped DEF U!CommitPost
    <2>2. message' \in [Posts -> {"none", "live", "deleted"}]
      BY <1>7 DEF U!CommitPost, U!TypeOK
    <2>3. {p} \X post[p].want \subseteq U!Media
      BY <1>a DEF PostRec, U!Media
    <2>4. attached' \subseteq U!Media
      BY <1>7, <2>3 DEF U!CommitPost, U!TypeOK
    <2>5. QED
      BY <1>7, <2>1, <2>2, <2>4 DEF U!CommitPost, U!TypeOK, PostRec
  <1>8. CASE U!FinishPost(p)
    <2>1. post' \in [Posts -> PostRec]
      BY <1>8, <1>a, Stepped DEF U!FinishPost
    <2>2. file' \in [Stages -> {"none", "cipher", "claim"}]
      BY <1>8 DEF U!FinishPost, U!TypeOK
    <2>3. QED
      BY <1>8, <2>1, <2>2 DEF U!FinishPost, U!TypeOK, PostRec
  <1>9. CASE U!FailPost(p)
    <2>1. post' \in [Posts -> PostRec]
      BY <1>9, <1>a, Stepped DEF U!FailPost
    <2>2. file' \in [Stages -> {"none", "cipher", "claim"}]
      BY <1>9 DEF U!FailPost, U!TypeOK
    <2>3. object' \in [U!Paths -> {"none", "part", "full"}]
      BY <1>9 DEF U!FailPost, U!TypeOK
    <2>4. QED
      BY <1>9, <2>1, <2>2, <2>3 DEF U!FailPost, U!TypeOK, PostRec
  <1>10. CASE U!DeleteMessage(p)
    <2>1. message' \in [Posts -> {"none", "live", "deleted"}] /\ attached' \subseteq U!Media
      BY <1>10 DEF U!DeleteMessage, U!TypeOK
    <2>2. QED
      BY <1>10, <2>1 DEF U!DeleteMessage, U!TypeOK
  <1>11. QED
    BY <1>1, <1>2, <1>3, <1>4, <1>5, <1>6, <1>7, <1>8, <1>9, <1>10 DEF U!PostStep

LEMMA TypedPhotos ==
  ASSUME U!TypeOK, NEW f \in Photos,
         \/ U!BeginPhoto(f) \/ U!LockShelf(f) \/ U!SavePhoto(f) \/ U!CreateStatus(f)
         \/ U!ExpireStatus(f) \/ U!DeleteOwnStatus(f)
  PROVE  U!TypeOK'
  <1> USE DEF U!Rest, U!storeVars, U!stageVars
  <1> DEFINE PhotoSteps == {"none", "queued", "saving", "saved", "visible", "expired", "gone"}
  <1>1. photo' \in [Photos -> PhotoSteps]
    BY DEF U!TypeOK, U!Now, U!BeginPhoto, U!LockShelf, U!SavePhoto, U!CreateStatus,
           U!ExpireStatus, U!DeleteOwnStatus
  <1>2. object' \in [U!Paths -> {"none", "part", "full"}]
    BY DEF U!TypeOK, U!BeginPhoto, U!LockShelf, U!SavePhoto, U!CreateStatus,
           U!ExpireStatus, U!DeleteOwnStatus
  <1>3. upload' \in [U!Paths -> {"none", "new", "old"}]
    BY DEF U!TypeOK, U!BeginPhoto, U!LockShelf, U!SavePhoto, U!CreateStatus,
           U!ExpireStatus, U!DeleteOwnStatus
  <1>4. UNCHANGED <<scene, stops, file, size, lock, acked, put, post, message, attached, sweep>>
    BY DEF U!BeginPhoto, U!LockShelf, U!SavePhoto, U!CreateStatus,
           U!ExpireStatus, U!DeleteOwnStatus
  <1>5. QED
    BY <1>1, <1>2, <1>3, <1>4 DEF U!TypeOK

LEMMA TypedRetention ==
  ASSUME U!TypeOK,
         \/ \E x \in U!Paths : U!Age(x) \/ U!DeleteStored(x)
         \/ U!BeginCleanup \/ U!CommitCleanup \/ U!LoseCleanup
  PROVE  U!TypeOK'
  <1> USE DEF U!Kept, U!storeVars, U!stageVars
  <1> DEFINE SweepRec == [on : BOOLEAN, left : SUBSET U!Paths, gone : SUBSET U!Paths]
  <1>a. sweep \in SweepRec /\ U!NoSweep \in SweepRec
    BY DEF U!TypeOK, U!NoSweep
  <1>1. ASSUME NEW x \in U!Paths, U!Age(x) PROVE U!TypeOK'
    BY <1>1 DEF U!Age, U!TypeOK
  <1>2. ASSUME NEW x \in U!Paths, U!DeleteStored(x) PROVE U!TypeOK'
    <2>1. object' \in [U!Paths -> {"none", "part", "full"}]
      BY <1>2 DEF U!DeleteStored, U!TypeOK
    <2>2. /\ [sweep EXCEPT !.left = @ \ {x}, !.gone = @ \cup {x}] \in SweepRec
          /\ [sweep EXCEPT !.left = @ \ {x}] \in SweepRec
      BY <1>a
    <2>3. sweep' \in SweepRec
      BY <1>2, <2>2 DEF U!DeleteStored
    <2>4. QED
      BY <1>2, <2>1, <2>3 DEF U!DeleteStored, U!TypeOK
  <1>3. CASE U!BeginCleanup
    <2>1. PICK due \in SUBSET U!Paths : sweep' = [U!NoSweep EXCEPT !.on = TRUE, !.left = due]
      BY <1>3 DEF U!BeginCleanup
    <2>2. sweep' \in SweepRec
      BY <1>a, <2>1
    <2>3. QED
      BY <1>3, <2>2 DEF U!BeginCleanup, U!TypeOK
  <1>4. CASE U!CommitCleanup
    <2>1. upload' \in [U!Paths -> {"none", "new", "old"}]
      BY <1>4 DEF U!CommitCleanup, U!TypeOK
    <2>2. photo' \in [Photos -> {"none", "queued", "saving", "saved", "visible", "expired", "gone"}]
      BY <1>4 DEF U!CommitCleanup, U!TypeOK
    <2>3. QED
      BY <1>4, <1>a, <2>1, <2>2 DEF U!CommitCleanup, U!TypeOK
  <1>5. CASE U!LoseCleanup
    BY <1>5, <1>a DEF U!LoseCleanup, U!TypeOK
  <1>6. QED
    BY <1>1, <1>2, <1>3, <1>4, <1>5

LEMMA TypedStop ==
  ASSUME U!TypeOK, U!ServerStops
  PROVE  U!TypeOK'
  <1>1. stops' \in Nat
    BY DEF U!TypeOK, U!ServerStops
  <1>2. U!NoPut \in [stage : SUBSET Stages, chunk : 0..(Chunks - 1)]
    BY MediaAssumption DEF U!NoPut
  <1>3. ASSUME NEW p \in Posts
        PROVE  post[p] \in PostRec /\ [post[p] EXCEPT !.at = "done"] \in PostRec
    <2>1. post[p] \in PostRec /\ "done" \in U!PostSteps
      BY DEF U!TypeOK, PostRec, U!PostSteps
    <2>2. QED
      BY <2>1 DEF PostRec
  <1>4. post' \in [Posts -> PostRec]
    BY <1>3 DEF U!ServerStops
  <1>5. photo' \in [Photos -> {"none", "queued", "saving", "saved", "visible", "expired", "gone"}]
    BY DEF U!TypeOK, U!ServerStops
  <1>6. U!NoSweep \in [on : BOOLEAN, left : SUBSET U!Paths, gone : SUBSET U!Paths]
    BY DEF U!NoSweep
  <1>7. put' \in [Puts -> [stage : SUBSET Stages, chunk : 0..(Chunks - 1)]]
    BY <1>2 DEF U!ServerStops
  <1>8. QED
    BY <1>1, <1>4, <1>5, <1>6, <1>7 DEF U!TypeOK, U!ServerStops, U!storeVars, PostRec

-----------------------------------------------------------------------------
(* Claims.                                                                 *)

(* A step that touches neither sends nor files nor messages.               *)
LEMMA ClaimsRest ==
  ASSUME Claimed, Spent, UNCHANGED <<post, file, size, message>>
  PROVE  Claimed' /\ Spent'
  BY DEF Claimed, Spent, Active

(* A send that has not committed changes nothing but its progress.         *)
LEMMA ClaimsMove ==
  ASSUME Claimed, Spent, NEW p \in Posts, Active(p), message[p] = "none",
         post'[p].want = post[p].want, post'[p].claims = post[p].claims,
         post'[p].at \in {"claiming", "queued", "saving", "failed"},
         post'[p].at \in {"queued", "saving"} => post[p].claims = post[p].want,
         \A q \in Posts \ {p} : post'[q] = post[q], UNCHANGED <<file, size, message>>
  PROVE  Claimed' /\ Spent'
  <1>1. \A q \in Posts : /\ post'[q].want = post[q].want /\ post'[q].claims = post[q].claims
                         /\ Active(q)' <=> Active(q)
    BY DEF Active
  <1>2. Claimed'
    BY <1>1 DEF Claimed
  <1>3. Spent'
    BY <1>1 DEF Spent
  <1>4. QED
    BY <1>2, <1>3

LEMMA ClaimsInStaging ==
  ASSUME U!TypeOK, Claimed, Spent, NEW s, NEW h,
         \/ s \in Stages /\ U!CreateStage(s)
         \/ s \in Stages /\ U!LearnOffset(s)
         \/ s \in Stages /\ U!BreakLock(s)
         \/ s \in Stages /\ U!Inventory(s)
         \/ h \in Puts /\ U!WriteChunk(h)
         \/ h \in Puts /\ s \in Stages /\ U!AppendStage(h, s)
  PROVE  Claimed' /\ Spent'
  <1>1. CASE s \in Stages /\ U!CreateStage(s)
    <2>1. file[s] = "none" /\ size[s] # U!Full
      BY <1>1, MediaAssumption DEF U!CreateStage, U!Full
    <2>2. \A c \in Stages \ {s} : file'[c] = file[c] /\ size'[c] = size[c]
      BY <1>1 DEF U!CreateStage, U!TypeOK
    <2>3. UNCHANGED <<post, message>>
      BY <1>1 DEF U!CreateStage
    <2>4. /\ \A p \in Posts : Active(p) => s \notin post[p].claims
          /\ \A p \in Posts : message[p] # "none" => s \notin post[p].want
      BY <2>1 DEF Claimed, Spent
    <2>5. \A p \in Posts : post[p].want \subseteq Stages /\ post[p].claims \subseteq Stages
      BY DEF U!TypeOK
    <2>6. QED
      BY <2>2, <2>3, <2>4, <2>5 DEF Claimed, Spent, Active
  <1>2. CASE U!LearnOffset(s) \/ U!BreakLock(s) \/ U!AppendStage(h, s)
    BY <1>2, ClaimsRest DEF U!LearnOffset, U!BreakLock, U!AppendStage
  <1>3. CASE s \in Stages /\ U!Inventory(s)
    <2>1. ASSUME NEW p \in Posts, Active(p) PROVE s \notin post[p].claims
      BY <1>3, <2>1 DEF U!Inventory, U!Busy, Active, Claimed
    <2>2. \A c \in Stages : file'[c] = (IF c = s THEN "none" ELSE file[c])
      BY <1>3 DEF U!Inventory, U!TypeOK
    <2>3. UNCHANGED <<post, message, size>>
      BY <1>3 DEF U!Inventory
    <2>5. \A p \in Posts : post[p].want \subseteq Stages /\ post[p].claims \subseteq Stages
      BY DEF U!TypeOK
    <2>6. QED
      BY <2>1, <2>2, <2>3, <2>5 DEF Claimed, Spent, Active
  <1>4. CASE h \in Puts /\ U!WriteChunk(h)
    <2>1. \A c \in Stages : size'[c] = size[c] \/ file[c] = "cipher"
      BY <1>4 DEF U!WriteChunk, U!TypeOK
    <2>2. UNCHANGED <<post, message, file>>
      BY <1>4 DEF U!WriteChunk
    <2>3. \A p \in Posts : post[p].want \subseteq Stages /\ post[p].claims \subseteq Stages
      BY DEF U!TypeOK
    <2>4. QED
      BY <2>1, <2>2, <2>3 DEF Claimed, Spent, Active
  <1>5. QED
    BY <1>1, <1>2, <1>3, <1>4

LEMMA ClaimsInSending ==
  ASSUME U!TypeOK, Claimed, Spent, NEW p \in Posts,
         U!BeginPost(p) \/ U!PostStep(p) \/ U!LoseTransaction(p) \/ U!DeleteMessage(p)
  PROVE  Claimed' /\ Spent'
  <1> USE DEF U!Sent, U!storeVars, U!stageVars
  <1>a. \A q \in Posts : post[q] \in PostRec
    BY DEF U!TypeOK, PostRec
  <1>b. {"claiming", "queued", "saving", "failed", "committed", "done"} \subseteq U!PostSteps
    BY DEF U!PostSteps
  <1>c. message[p] # "none" => post[p].at \in {"committed", "done"}
    BY DEF Claimed
  <1>1. CASE U!BeginPost(p)
    <2>1. PICK want \in SUBSET Stages :
            post' = [post EXCEPT ![p] = [U!NoPost EXCEPT !.at = "claiming", !.want = want]]
      BY <1>1 DEF U!BeginPost
    <2>2. post'[p] = [at |-> "claiming", want |-> want, claims |-> {}, saved |-> {}]
      BY <2>1 DEF U!NoPost, U!TypeOK
    <2>3. \A q \in Posts \ {p} : post'[q] = post[q]
      BY <2>1 DEF U!TypeOK
    <2>4. message[p] = "none"
      <3>1. post[p] = U!NoPost
        BY <1>1 DEF U!BeginPost
      <3>2. post[p].at = "none"
        BY <3>1 DEF U!NoPost
      <3>3. QED
        BY <1>c, <3>2, <1>a DEF U!TypeOK
    <2>5. UNCHANGED <<file, size, message>>
      BY <1>1 DEF U!BeginPost
    <2>6. Claimed'
      BY <2>2, <2>3, <2>4, <2>5 DEF Claimed, Active
    <2>7. QED
      BY <2>2, <2>3, <2>4, <2>5, <2>6 DEF Spent, Active
  <1>2. ASSUME NEW s \in Stages, U!ClaimStage(p, s) PROVE Claimed' /\ Spent'
    <2>a. Active(p) /\ post[p].at = "claiming" /\ message[p] = "none"
      BY <1>2, <1>c DEF U!ClaimStage, Active
    <2>1. CASE UNCHANGED file /\ U!Step(p, "failed")
      <3>1. /\ post'[p].want = post[p].want /\ post'[p].claims = post[p].claims
            /\ post'[p].at = "failed" /\ \A q \in Posts \ {p} : post'[q] = post[q]
        BY <2>1, <1>b, Stepped DEF U!PostSteps
      <3>2. QED
        BY <1>2, <2>a, <2>1, <3>1, ClaimsMove DEF U!ClaimStage
    <2>2. CASE /\ file[s] = "cipher" /\ size[s] = U!Full
               /\ file' = [file EXCEPT ![s] = "claim"]
               /\ post' = [post EXCEPT ![p].claims = @ \cup {s}]
      <3>1. /\ post'[p].want = post[p].want /\ post'[p].claims = post[p].claims \cup {s}
            /\ post'[p].at = "claiming" /\ \A q \in Posts \ {p} : post'[q] = post[q]
        BY <2>2, <2>a DEF U!TypeOK
      <3>2. file'[s] = "claim" /\ \A c \in Stages \ {s} : file'[c] = file[c]
        BY <2>2 DEF U!TypeOK
      <3>3. s \in post[p].want /\ UNCHANGED <<size, message>>
        BY <1>2 DEF U!ClaimStage
      <3>4. /\ \A q \in Posts : Active(q) => s \notin post[q].claims
            /\ \A q \in Posts : message[q] # "none" => s \notin post[q].want
        BY <2>2 DEF Claimed, Spent
      <3>5. \A q \in Posts : post[q].want \subseteq Stages /\ post[q].claims \subseteq Stages
        BY <1>a DEF PostRec
      <3>6. \A q \in Posts : Active(q)' <=> Active(q)
        BY <3>1, <2>a DEF Active
      <3>7. Claimed'
        BY <2>a, <2>2, <3>1, <3>2, <3>3, <3>4, <3>5, <3>6 DEF Claimed
      <3>8. Spent'
        BY <2>a, <2>2, <3>1, <3>2, <3>3, <3>4, <3>5, <3>6 DEF Spent
      <3>9. QED
        BY <3>7, <3>8
    <2>3. QED
      BY <1>2, <2>1, <2>2 DEF U!ClaimStage
  <1>3. CASE \/ U!BeginTransaction(p) \/ U!NoConnection(p) \/ U!LoseTransaction(p)
             \/ U!LockBudget(p)
    <2>1. /\ post[p].at \in {"claiming", "queued", "saving"}
          /\ UNCHANGED <<file, size, message>>
          /\ \E at \in {"queued", "saving", "failed"} :
               /\ U!Step(p, at)
               /\ at \in {"queued", "saving"} => post[p].claims = post[p].want
      BY <1>3 DEF U!BeginTransaction, U!NoConnection, U!LoseTransaction, U!LockBudget, Claimed
    <2>2. PICK at \in {"queued", "saving", "failed"} :
               /\ U!Step(p, at)
               /\ at \in {"queued", "saving"} => post[p].claims = post[p].want
      BY <2>1
    <2>3. /\ post'[p].want = post[p].want /\ post'[p].claims = post[p].claims
          /\ post'[p].at = at /\ \A q \in Posts \ {p} : post'[q] = post[q]
      BY <2>2, <1>b, Stepped
    <2>4. Active(p) /\ message[p] = "none"
      BY <2>1, <1>c DEF Active
    <2>5. QED
      BY <2>1, <2>2, <2>3, <2>4, ClaimsMove
  <1>4. ASSUME NEW s \in Stages, U!TrackUpload(p, s) PROVE Claimed' /\ Spent'
    BY <1>4, ClaimsRest DEF U!TrackUpload
  <1>5. ASSUME NEW s \in Stages, U!SaveFile(p, s) PROVE Claimed' /\ Spent'
    <2>1. \/ post' = [post EXCEPT ![p].saved = @ \cup {s}]
          \/ post' = [post EXCEPT ![p].at = "failed"]
      BY <1>5 DEF U!SaveFile
    <2>2. post[p].at = "saving" /\ UNCHANGED <<file, size, message>>
      BY <1>5 DEF U!SaveFile
    <2>3. /\ post'[p].want = post[p].want /\ post'[p].claims = post[p].claims
          /\ post'[p].at \in {"saving", "failed"} /\ \A q \in Posts \ {p} : post'[q] = post[q]
      BY <2>1, <2>2 DEF U!TypeOK
    <2>4. Active(p) /\ message[p] = "none" /\ post[p].claims = post[p].want
      BY <2>2, <1>c DEF Active, Claimed
    <2>5. QED
      BY <2>2, <2>3, <2>4, ClaimsMove
  <1>6. CASE U!CommitPost(p)
    <2>1. post[p].at = "saving" /\ UNCHANGED <<file, size>> /\ U!Step(p, "committed")
      BY <1>6 DEF U!CommitPost
    <2>2. /\ post'[p].want = post[p].want /\ post'[p].claims = post[p].claims
          /\ post'[p].at = "committed" /\ \A q \in Posts \ {p} : post'[q] = post[q]
      BY <2>1, <1>b, Stepped DEF U!PostSteps
    <2>3. Active(p) /\ post[p].claims = post[p].want
      BY <2>1 DEF Active, Claimed
    <2>4. message'[p] = "live" /\ \A q \in Posts \ {p} : message'[q] = message[q]
      BY <1>6 DEF U!CommitPost, U!TypeOK
    <2>5. \A q \in Posts : Active(q)' <=> Active(q)
      BY <2>2, <2>3 DEF Active
    <2>6. Claimed'
      BY <2>1, <2>2, <2>3, <2>4, <2>5 DEF Claimed
    <2>7. ASSUME NEW q \in Posts, message'[q] # "none", NEW s \in post'[q].want
          PROVE  /\ file'[s] # "cipher" /\ size'[s] = U!Full
                 /\ \A r \in Posts \ {q} : /\ Active(r)' => s \notin post'[r].claims
                                           /\ message'[r] # "none" => s \notin post'[r].want
      <3>1. CASE q = p
        <4>1. s \in post[p].claims /\ file[s] = "claim" /\ size[s] = U!Full
          BY <2>7, <3>1, <2>2, <2>3 DEF Claimed
        <4>2. ASSUME NEW r \in Posts \ {p}
              PROVE  /\ Active(r) => s \notin post[r].claims
                     /\ message[r] # "none" => s \notin post[r].want
          BY <2>3, <4>1 DEF Claimed, Spent
        <4>3. QED
          BY <3>1, <4>1, <4>2, <2>1, <2>2, <2>4, <2>5
      <3>2. CASE q # p
        <4>1. message[q] # "none" /\ s \in post[q].want
          BY <2>7, <3>2, <2>2, <2>4
        <4>2. /\ file[s] # "cipher" /\ size[s] = U!Full
              /\ \A r \in Posts \ {q} : /\ Active(r) => s \notin post[r].claims
                                        /\ message[r] # "none" => s \notin post[r].want
          BY <4>1 DEF Spent
        <4>3. s \notin post'[p].want
          BY <3>2, <4>2, <2>2, <2>3
        <4>4. QED
          BY <3>2, <4>2, <4>3, <2>1, <2>2, <2>4, <2>5
      <3>3. QED
        BY <3>1, <3>2
    <2>8. QED
      BY <2>1, <2>6, <2>7 DEF Spent, U!Full
  <1>7. CASE U!FinishPost(p)
    <2>1. /\ post[p].at = "committed" /\ UNCHANGED <<size, message>> /\ U!Step(p, "done")
          /\ \A c \in Stages : file'[c] = (IF c \in post[p].claims THEN "none" ELSE file[c])
      BY <1>7 DEF U!FinishPost
    <2>2. /\ post'[p].want = post[p].want /\ post'[p].claims = post[p].claims
          /\ post'[p].at = "done" /\ \A q \in Posts \ {p} : post'[q] = post[q]
      BY <2>1, <1>b, Stepped DEF U!PostSteps
    <2>3. Active(p) /\ ~ Active(p)' /\ \A q \in Posts \ {p} : Active(q)' <=> Active(q)
      BY <2>1, <2>2 DEF Active
    <2>4. \A q \in Posts : post[q].want \subseteq Stages /\ post[q].claims \subseteq Stages
      BY <1>a DEF PostRec
    <2>5. Claimed'
      BY <2>1, <2>2, <2>3, <2>4 DEF Claimed
    <2>6. Spent'
      BY <2>1, <2>2, <2>3, <2>4 DEF Spent
    <2>7. QED
      BY <2>5, <2>6
  <1>8. CASE U!FailPost(p)
    <2>1. /\ post[p].at = "failed" /\ UNCHANGED <<size, message>> /\ U!Step(p, "done")
          /\ \A c \in Stages : file'[c] = (IF c \in post[p].claims /\ file[c] = "claim"
                                           THEN "cipher" ELSE file[c])
      BY <1>8 DEF U!FailPost
    <2>2. /\ post'[p].want = post[p].want /\ post'[p].claims = post[p].claims
          /\ post'[p].at = "done" /\ \A q \in Posts \ {p} : post'[q] = post[q]
      BY <2>1, <1>b, Stepped DEF U!PostSteps
    <2>3. Active(p) /\ ~ Active(p)' /\ \A q \in Posts \ {p} : Active(q)' <=> Active(q)
      BY <2>1, <2>2 DEF Active
    <2>4. \A q \in Posts : post[q].want \subseteq Stages /\ post[q].claims \subseteq Stages
      BY <1>a DEF PostRec
    <2>5. message[p] = "none"
      BY <2>1, <1>c
    <2>6. Claimed'
      BY <2>1, <2>2, <2>3, <2>4, <2>5 DEF Claimed
    <2>7. Spent'
      BY <2>1, <2>2, <2>3, <2>4, <2>5 DEF Spent
    <2>8. QED
      BY <2>6, <2>7
  <1>9. CASE U!DeleteMessage(p)
    <2>1. /\ \A q \in Posts : message'[q] # "none" <=> message[q] # "none"
          /\ UNCHANGED <<post, file, size>>
      BY <1>9 DEF U!DeleteMessage, U!TypeOK
    <2>2. QED
      BY <2>1 DEF Claimed, Spent, Active
  <1>10. QED
    BY <1>1, <1>2, <1>3, <1>4, <1>5, <1>6, <1>7, <1>8, <1>9 DEF U!PostStep

LEMMA ClaimsAtStop ==
  ASSUME U!TypeOK, Claimed, Spent, U!ServerStops
  PROVE  Claimed' /\ Spent'
  <1>1. \A q \in Posts : post[q] \in PostRec
    BY DEF U!TypeOK, PostRec
  <1>2. ASSUME NEW q \in Posts
        PROVE  /\ post'[q].want = post[q].want /\ post'[q].claims = post[q].claims
               /\ post'[q].at = (IF post[q].at = "none" THEN "none" ELSE "done")
    BY <1>1 DEF U!ServerStops, PostRec
  <1>3. \A q \in Posts : ~ Active(q)'
    BY <1>2 DEF Active
  <1>4. UNCHANGED <<file, size, message>>
    BY DEF U!ServerStops
  <1>5. Claimed'
    BY <1>2, <1>3, <1>4 DEF Claimed
  <1>6. QED
    BY <1>2, <1>3, <1>4, <1>5 DEF Spent

-----------------------------------------------------------------------------
(* What is stored.                                                         *)

LEMMA PathsApart ==
  /\ \A p \in Posts, s \in Stages : <<p, s>> \in U!Paths /\ <<p, s>> \notin Photos
  /\ \A f \in Photos : f \in U!Paths
  /\ \A x \in U!Paths : x \in Photos \/ \E p \in Posts, s \in Stages : x = <<p, s>>
  BY MediaAssumption DEF U!Paths, U!Media

(* What is about to be removed is as before, as long as none of it changes. *)
LEMMA SweptStays ==
  ASSUME U!TypeOK, Swept, UNCHANGED <<photo, message, attached, sweep>>,
         \A x \in U!Paths : upload[x] = "old" => upload'[x] = "old",
         \A x \in U!Paths : upload[x] = "old" /\ object[x] = "none" => object'[x] = "none"
  PROVE  Swept'
  <1>1. sweep.left \subseteq U!Paths /\ sweep.gone \subseteq U!Paths
    BY DEF U!TypeOK
  <1>2. ASSUME NEW x \in sweep.left \cup sweep.gone
        PROVE  upload'[x] = "old" /\ ~ U!Referenced(x)'
    <2>1. x \in U!Paths /\ upload[x] = "old" /\ ~ U!Referenced(x)
      BY <1>1 DEF Swept
    <2>2. QED
      BY <2>1 DEF U!Referenced
  <1>3. ASSUME NEW x \in sweep.gone PROVE object'[x] = "none"
    <2>1. x \in U!Paths /\ upload[x] = "old" /\ object[x] = "none"
      BY <1>1 DEF Swept
    <2>2. QED
      BY <2>1
  <1>4. QED
    BY <1>2, <1>3 DEF Swept

(* A post that stores and publishes nothing in this step.                  *)
LEMMA StoreMove ==
  ASSUME StoreInv, NEW p \in Posts, \A q \in Posts \ {p} : post'[q] = post[q],
         message[p] = "live" => post'[p].want = post[p].want,
         post'[p].at = "saving" => post'[p].saved = {},
         post'[p].at \in {"none", "claiming", "queued"} => post'[p].saved = {},
         post[p].at = "done" => post'[p].at = "done",
         UNCHANGED <<upload, object, photo, sweep, message, attached>>
  PROVE  StoreInv'
  <1>1. Stored'
    BY DEF StoreInv, Stored
  <1>2. Shown' /\ Swept' /\ U!Inventoried'
    BY DEF StoreInv, Shown, Swept, U!Inventoried, U!Referenced
  <1>3. U!Complete'
    BY DEF StoreInv, U!Complete
  <1>4. QED
    BY <1>1, <1>2, <1>3 DEF StoreInv

(* A step that touches none of it.                                         *)
LEMMA StoreRest ==
  ASSUME StoreInv, UNCHANGED <<post, upload, object, photo, sweep, message, attached>>
  PROVE  StoreInv'
  BY DEF StoreInv, Stored, Shown, Swept, U!Complete, U!Inventoried, U!Referenced

LEMMA StoreInSending ==
  ASSUME U!TypeOK, Claimed, StoreInv, NEW p \in Posts,
         U!BeginPost(p) \/ U!PostStep(p) \/ U!LoseTransaction(p) \/ U!DeleteMessage(p)
  PROVE  StoreInv'
  <1> USE DEF U!Sent, U!storeVars, U!stageVars
  <1>b. {"claiming", "queued", "saving", "failed", "committed", "done"} \subseteq U!PostSteps
    BY DEF U!PostSteps
  <1>c. message[p] # "none" => post[p].at \in {"committed", "done"}
    BY DEF Claimed
  <1>d. \A q \in Posts : post[q].want \subseteq Stages /\ post[q].saved \subseteq Stages
    BY DEF U!TypeOK
  <1>1. CASE U!BeginPost(p)
    <2>1. PICK want \in SUBSET Stages :
            post' = [post EXCEPT ![p] = [U!NoPost EXCEPT !.at = "claiming", !.want = want]]
      BY <1>1 DEF U!BeginPost
    <2>2. /\ post'[p].at = "claiming" /\ post'[p].saved = {}
          /\ \A q \in Posts \ {p} : post'[q] = post[q]
      BY <2>1 DEF U!NoPost, U!TypeOK
    <2>3. post[p] = U!NoPost /\ UNCHANGED <<upload, object, photo, sweep, message, attached>>
      BY <1>1 DEF U!BeginPost
    <2>4. post[p].at = "none"
      BY <2>3 DEF U!NoPost
    <2>5. message[p] # "live"
      BY <1>c, <2>4
    <2>6. QED
      BY <2>2, <2>3, <2>4, <2>5, StoreMove
  <1>2. ASSUME NEW s \in Stages, U!ClaimStage(p, s) PROVE StoreInv'
    <2>1. /\ post'[p].at \in {"claiming", "failed"} /\ post'[p].want = post[p].want
          /\ post'[p].saved = post[p].saved /\ \A q \in Posts \ {p} : post'[q] = post[q]
      BY <1>2 DEF U!ClaimStage, U!Step, U!TypeOK
    <2>2. /\ post[p].at = "claiming"
          /\ UNCHANGED <<upload, object, photo, sweep, message, attached>>
      BY <1>2 DEF U!ClaimStage
    <2>3. post[p].saved = {}
      BY <2>2 DEF StoreInv, Stored
    <2>4. QED
      BY <2>1, <2>2, <2>3, StoreMove
  <1>3. CASE \/ U!BeginTransaction(p) \/ U!NoConnection(p) \/ U!LoseTransaction(p)
             \/ U!LockBudget(p) \/ U!FinishPost(p)
    <2>1. /\ post[p].at # "done" /\ UNCHANGED <<upload, object, photo, sweep, message, attached>>
          /\ \E at \in {"queued", "saving", "failed", "done"} :
               /\ U!Step(p, at)
               /\ at \in {"queued", "saving"} => post[p].at \in {"claiming", "queued"}
      BY <1>3 DEF U!BeginTransaction, U!NoConnection, U!LoseTransaction, U!LockBudget,
                  U!FinishPost
    <2>2. PICK at \in {"queued", "saving", "failed", "done"} :
               /\ U!Step(p, at)
               /\ at \in {"queued", "saving"} => post[p].at \in {"claiming", "queued"}
      BY <2>1
    <2>3. /\ post'[p].want = post[p].want /\ post'[p].saved = post[p].saved
          /\ post'[p].at = at /\ \A q \in Posts \ {p} : post'[q] = post[q]
      BY <2>2, Stepped DEF U!PostSteps
    <2>4. at \in {"queued", "saving"} => post[p].saved = {}
      BY <2>2 DEF StoreInv, Stored
    <2>5. QED
      BY <2>1, <2>3, <2>4, StoreMove
  <1>4. ASSUME NEW s \in Stages, U!TrackUpload(p, s) PROVE StoreInv'
    <2>1. /\ post[p].at = "saving"
          /\ UNCHANGED <<post, object, photo, sweep, message, attached>>
      BY <1>4 DEF U!TrackUpload
    <2>2. /\ upload'[<<p, s>>] = "new"
          /\ \A x \in U!Paths \ {<<p, s>>} : upload'[x] = upload[x]
      BY <1>4, PathsApart DEF U!TrackUpload, U!TypeOK
    <2>3. upload[<<p, s>>] # "old"
      BY <2>1 DEF StoreInv, Stored
    <2>4. Stored'
      BY <2>1, <2>2, PathsApart DEF StoreInv, Stored
    <2>5. Shown'
      BY <2>1, <2>2, PathsApart DEF StoreInv, Shown
    <2>6. Swept'
      BY <2>1, <2>2, <2>3, SweptStays DEF StoreInv
    <2>7. U!Complete' /\ U!Inventoried'
      BY <2>1, <2>2 DEF StoreInv, U!Complete, U!Inventoried
    <2>8. QED
      BY <2>4, <2>5, <2>6, <2>7 DEF StoreInv
  <1>5. ASSUME NEW s \in Stages, U!SaveFile(p, s) PROVE StoreInv'
    <2>1. /\ post[p].at = "saving" /\ s \notin post[p].saved /\ upload[<<p, s>>] # "none"
          /\ UNCHANGED <<upload, photo, sweep, message, attached>>
      BY <1>5 DEF U!SaveFile, U!Tracked
    <2>2. PICK got \in {"none", "part", "full"} :
            /\ object' = [object EXCEPT ![<<p, s>>] = got]
            /\ post' = IF got = "full" THEN [post EXCEPT ![p].saved = @ \cup {s}]
                       ELSE [post EXCEPT ![p].at = "failed"]
      BY <1>5 DEF U!SaveFile
    <2>3. /\ object'[<<p, s>>] = got
          /\ \A x \in U!Paths \ {<<p, s>>} : object'[x] = object[x]
      BY <2>2, PathsApart DEF U!TypeOK
    <2>4. /\ post'[p].want = post[p].want /\ \A q \in Posts \ {p} : post'[q] = post[q]
          /\ \/ post'[p].at = "failed"
             \/ /\ got = "full" /\ post'[p].at = "saving"
                /\ post'[p].saved = post[p].saved \cup {s}
      BY <2>1, <2>2 DEF U!TypeOK
    <2>5. upload[<<p, s>>] # "old" /\ message[p] = "none"
      BY <2>1, <1>c DEF StoreInv, Stored
    <2>6. Stored'
      <3>1. ASSUME NEW q \in Posts, NEW r \in Stages, post'[q].at = "saving", r \in post'[q].saved
            PROVE  object'[<<q, r>>] = "full"
        BY <3>1, <2>1, <2>3, <2>4, PathsApart DEF StoreInv, Stored
      <3>2. QED
        BY <3>1, <2>1, <2>4 DEF StoreInv, Stored
    <2>7. Shown'
      BY <2>1, <2>3, PathsApart DEF StoreInv, Shown
    <2>8. Swept'
      BY <2>1, <2>3, <2>5, SweptStays DEF StoreInv
    <2>9. U!Complete'
      BY <2>1, <2>3, <2>4, <2>5, <1>d, PathsApart DEF StoreInv, U!Complete
    <2>10. U!Inventoried'
      BY <2>1, <2>3 DEF StoreInv, U!Inventoried
    <2>11. QED
      BY <2>6, <2>7, <2>8, <2>9, <2>10 DEF StoreInv
  <1>6. CASE U!CommitPost(p)
    <2>1. /\ post[p].at = "saving" /\ post[p].saved = post[p].want
          /\ UNCHANGED <<upload, object, photo, sweep>> /\ U!Step(p, "committed")
          /\ attached' = attached \cup ({p} \X post[p].want)
      BY <1>6 DEF U!CommitPost
    <2>2. message'[p] = "live" /\ \A q \in Posts \ {p} : message'[q] = message[q]
      BY <1>6 DEF U!CommitPost, U!TypeOK
    <2>3. /\ post'[p].want = post[p].want /\ post'[p].saved = post[p].saved
          /\ post'[p].at = "committed" /\ \A q \in Posts \ {p} : post'[q] = post[q]
      BY <2>1, Stepped DEF U!PostSteps
    <2>4. Stored'
      BY <2>1, <2>3 DEF StoreInv, Stored
    <2>5. Shown' /\ U!Inventoried'
      BY <2>1 DEF StoreInv, Shown, U!Inventoried
    <2>6. \A s \in post[p].want : object[<<p, s>>] = "full" /\ <<p, s>> \in attached'
      BY <2>1, <1>d DEF StoreInv, Stored
    <2>7. U!Complete'
      BY <2>1, <2>2, <2>3, <2>6 DEF StoreInv, U!Complete
    <2>8. ASSUME NEW x \in sweep.left \cup sweep.gone PROVE ~ U!Referenced(x)'
      <3>1. upload[x] = "old" /\ ~ U!Referenced(x) /\ x \in U!Paths
        BY <2>8 DEF StoreInv, Swept, U!TypeOK
      <3>2. CASE x \in Photos
        BY <2>1, <3>1, <3>2 DEF U!Referenced
      <3>3. CASE x \notin Photos
        <4>1. PICK q \in Posts, s \in Stages : x = <<q, s>>
          BY <3>1, <3>3, PathsApart
        <4>2. q # p
          BY <2>1, <3>1, <4>1 DEF StoreInv, Stored
        <4>3. x[1] = q /\ (x \in attached' => x \in attached)
          BY <2>1, <4>1, <4>2
        <4>4. QED
          BY <2>2, <3>1, <3>3, <4>2, <4>3 DEF U!Referenced
      <3>4. QED
        BY <3>2, <3>3
    <2>9. Swept'
      BY <2>1, <2>8 DEF StoreInv, Swept
    <2>10. QED
      BY <2>4, <2>5, <2>7, <2>9 DEF StoreInv
  <1>7. CASE U!FailPost(p)
    <2>1. /\ post[p].at = "failed" /\ U!Step(p, "done")
          /\ UNCHANGED <<upload, photo, sweep, message, attached>>
      BY <1>7 DEF U!FailPost
    <2>2. \A x \in U!Paths : \/ object'[x] = object[x]
                             \/ object'[x] = "none" /\ \E s \in Stages : x = <<p, s>>
      BY <1>7, <1>d DEF U!FailPost, U!TypeOK
    <2>3. post'[p].at = "done" /\ post'[p].want = post[p].want
          /\ \A q \in Posts \ {p} : post'[q] = post[q]
      BY <2>1, Stepped DEF U!PostSteps
    <2>4. message[p] = "none"
      BY <2>1, <1>c
    <2>5. Stored'
      BY <2>1, <2>2, <2>3, PathsApart DEF StoreInv, Stored
    <2>6. Shown'
      BY <2>1, <2>2, PathsApart DEF StoreInv, Shown
    <2>7. Swept'
      BY <2>1, <2>2, SweptStays DEF StoreInv
    <2>8. U!Complete'
      BY <2>1, <2>2, <2>3, <2>4, <1>d, PathsApart DEF StoreInv, U!Complete
    <2>9. U!Inventoried'
      BY <2>1, <2>2 DEF StoreInv, U!Inventoried
    <2>10. QED
      BY <2>5, <2>6, <2>7, <2>8, <2>9 DEF StoreInv
  <1>8. CASE U!DeleteMessage(p)
    <2>1. /\ UNCHANGED <<post, photo, upload, object, sweep>>
          /\ attached' \subseteq attached
          /\ \A q \in Posts \ {p}, s \in Stages : <<q, s>> \in attached => <<q, s>> \in attached'
      BY <1>8 DEF U!DeleteMessage
    <2>2. message'[p] = "deleted" /\ \A q \in Posts \ {p} : message'[q] = message[q]
      BY <1>8 DEF U!DeleteMessage, U!TypeOK
    <2>3. Stored' /\ Shown' /\ U!Inventoried'
      BY <2>1 DEF StoreInv, Stored, Shown, U!Inventoried
    <2>4. U!Complete'
      BY <2>1, <2>2, <1>d DEF StoreInv, U!Complete
    <2>5. ASSUME NEW x \in sweep.left \cup sweep.gone PROVE ~ U!Referenced(x)'
      <3>1. ~ U!Referenced(x) /\ x \in U!Paths
        BY <2>5 DEF StoreInv, Swept, U!TypeOK
      <3>2. CASE x \in Photos
        BY <2>1, <3>1, <3>2 DEF U!Referenced
      <3>3. CASE x \notin Photos
        <4>1. PICK q \in Posts, s \in Stages : x = <<q, s>>
          BY <3>1, <3>3, PathsApart
        <4>2. x[1] \in Posts
          BY <4>1
        <4>3. QED
          BY <2>1, <2>2, <3>1, <3>3, <4>2 DEF U!Referenced
      <3>4. QED
        BY <3>2, <3>3
    <2>6. Swept'
      BY <2>1, <2>5 DEF StoreInv, Swept
    <2>7. QED
      BY <2>3, <2>4, <2>6 DEF StoreInv
  <1>9. QED
    BY <1>1, <1>2, <1>3, <1>4, <1>5, <1>6, <1>7, <1>8 DEF U!PostStep

LEMMA StoreInPhotos ==
  ASSUME U!TypeOK, StoreInv, NEW f \in Photos,
         \/ U!BeginPhoto(f) \/ U!LockShelf(f) \/ U!SavePhoto(f) \/ U!CreateStatus(f)
         \/ U!ExpireStatus(f) \/ U!DeleteOwnStatus(f)
  PROVE  StoreInv'
  <1> USE DEF U!Rest, U!storeVars, U!stageVars, U!Now
  <1>1. UNCHANGED <<post, message, attached, sweep>>
    BY DEF U!BeginPhoto, U!LockShelf, U!SavePhoto, U!CreateStatus, U!ExpireStatus,
           U!DeleteOwnStatus
  (* Only what is stored of this photo changes, and only before or after   *)
  (* its status is shown.                                                  *)
  <1>2. /\ \A x \in U!Paths \ {f} : object'[x] = object[x] /\ upload'[x] = upload[x]
        /\ \A g \in Photos \ {f} : photo'[g] = photo[g]
    BY DEF U!BeginPhoto, U!LockShelf, U!SavePhoto, U!CreateStatus, U!ExpireStatus,
           U!DeleteOwnStatus, U!TypeOK
  <1>3. /\ \/ photo'[f] \in {"queued", "saving", "gone", "expired"}
           \/ object'[f] = "full" /\ photo'[f] \in {"saved", "visible"}
        /\ photo'[f] \in {"queued", "saving"} => upload[f] = "none" /\ upload'[f] = "none"
        /\ photo'[f] = "visible" => upload[f] # "old"
        /\ upload'[f] \in {upload[f], "new"}
        /\ photo'[f] = "saved" => upload'[f] = "new"
        /\ upload'[f] # upload[f] => upload[f] = "none"
        /\ object'[f] # "none" => upload'[f] # "none"
        /\ object[f] = "none" /\ upload[f] # "none" => object'[f] = "none"
    <2>a. /\ upload[f] # "none" => photo[f] \in {"saved", "visible", "expired", "gone"}
          /\ upload[f] = "old" => photo[f] # "saved"
          /\ photo[f] \in {"saved", "visible"} => object[f] = "full"
          /\ object[f] # "none" => upload[f] # "none"
      BY PathsApart DEF StoreInv, Shown, U!Inventoried
    <2>b. /\ \A at : U!Now(f, at) => photo'[f] = at
          /\ \A got : object' = [object EXCEPT ![f] = got] => object'[f] = got
          /\ \A was : upload' = [upload EXCEPT ![f] = was] => upload'[f] = was
      BY PathsApart DEF U!TypeOK
    <2> USE <2>a, <2>b
    <2> HIDE DEF U!Now
    <2>1. CASE U!BeginPhoto(f)
      BY <2>1 DEF U!BeginPhoto
    <2>2. CASE U!LockShelf(f)
      BY <2>2 DEF U!LockShelf
    <2>3. CASE U!SavePhoto(f)
      BY <2>3 DEF U!SavePhoto
    <2>4. CASE U!CreateStatus(f)
      BY <2>4 DEF U!CreateStatus
    <2>5. CASE U!ExpireStatus(f)
      BY <2>5 DEF U!ExpireStatus
    <2>6. CASE U!DeleteOwnStatus(f)
      BY <2>6 DEF U!DeleteOwnStatus
    <2>7. QED
      BY <2>1, <2>2, <2>3, <2>4, <2>5, <2>6
  <1>4. Stored' /\ U!Complete'
    <2>1. \A p \in Posts, s \in Stages : /\ object'[<<p, s>>] = object[<<p, s>>]
                                         /\ upload'[<<p, s>>] = upload[<<p, s>>]
      BY <1>2, PathsApart
    <2>2. \A p \in Posts : post[p].want \subseteq Stages /\ post[p].saved \subseteq Stages
      BY DEF U!TypeOK
    <2>3. Stored'
      BY <1>1, <2>1 DEF StoreInv, Stored
    <2>4. U!Complete'
      BY <1>1, <2>1, <2>2 DEF StoreInv, U!Complete
    <2>5. QED
      BY <2>3, <2>4
  <1>5. Shown'
    BY <1>2, <1>3, PathsApart DEF StoreInv, Shown
  <1>6. U!Inventoried'
    BY <1>2, <1>3, PathsApart DEF StoreInv, U!Inventoried
  <1>7. Swept'
    <2>1. ASSUME NEW x \in sweep.left \cup sweep.gone
          PROVE  upload'[x] = "old" /\ ~ U!Referenced(x)'
      <3>1. upload[x] = "old" /\ ~ U!Referenced(x) /\ x \in U!Paths
        BY <2>1 DEF StoreInv, Swept, U!TypeOK
      <3>2. CASE x = f
        BY <1>3, <3>1, <3>2 DEF U!Referenced
      <3>3. CASE x # f
        BY <1>1, <1>2, <3>1, <3>3 DEF U!Referenced
      <3>4. QED
        BY <3>2, <3>3
    <2>2. ASSUME NEW x \in sweep.gone PROVE object'[x] = "none"
      <3>1. upload[x] = "old" /\ object[x] = "none" /\ x \in U!Paths
        BY <2>2 DEF StoreInv, Swept, U!TypeOK
      <3>2. QED
        BY <1>2, <1>3, <3>1
    <2>3. QED
      BY <1>1, <2>1, <2>2 DEF Swept
  <1>8. QED
    BY <1>4, <1>5, <1>6, <1>7 DEF StoreInv

LEMMA StoreInRetention ==
  ASSUME U!TypeOK, StoreInv,
         \/ \E x \in U!Paths : U!Age(x) \/ U!DeleteStored(x)
         \/ U!BeginCleanup \/ U!CommitCleanup \/ U!LoseCleanup
  PROVE  StoreInv'
  <1> USE DEF U!Kept, U!storeVars, U!stageVars
  <1>a. \A p \in Posts : post[p].want \subseteq Stages /\ post[p].saved \subseteq Stages
    BY DEF U!TypeOK
  <1>b. sweep.left \subseteq U!Paths /\ sweep.gone \subseteq U!Paths
    BY DEF U!TypeOK
  <1>1. ASSUME NEW x \in U!Paths, U!Age(x) PROVE StoreInv'
    <2>1. /\ upload[x] = "new" /\ (x \in Photos => photo[x] \notin {"saving", "saved"})
          /\ UNCHANGED <<post, message, photo, attached, object, sweep>>
      BY <1>1 DEF U!Age
    <2>2. upload'[x] = "old" /\ \A y \in U!Paths \ {x} : upload'[y] = upload[y]
      BY <1>1 DEF U!Age, U!TypeOK
    <2>3. \A p \in Posts, s \in Stages : x = <<p, s>> => post[p].at = "done"
      BY <1>1 DEF U!Age, U!Media
    <2>4. Stored'
      BY <2>1, <2>2, <2>3, PathsApart DEF StoreInv, Stored
    <2>5. Shown'
      BY <2>1, <2>2, PathsApart DEF StoreInv, Shown
    <2>6. Swept'
      BY <2>1, <2>2, SweptStays DEF StoreInv
    <2>7. U!Complete'
      BY <2>1 DEF StoreInv, U!Complete
    <2>8. U!Inventoried'
      BY <2>1, <2>2 DEF StoreInv, U!Inventoried
    <2>9. QED
      BY <2>4, <2>5, <2>6, <2>7, <2>8 DEF StoreInv
  <1>2. ASSUME NEW x \in U!Paths, U!DeleteStored(x) PROVE StoreInv'
    <2>1. x \in sweep.left /\ UNCHANGED <<post, message, photo, attached, upload>>
      BY <1>2 DEF U!DeleteStored
    <2>2. \/ UNCHANGED object
          \/ object'[x] = "none" /\ \A y \in U!Paths \ {x} : object'[y] = object[y]
      <3>1. UNCHANGED object \/ object' = [object EXCEPT ![x] = "none"]
        BY <1>2 DEF U!DeleteStored
      <3>2. object \in [U!Paths -> {"none", "part", "full"}]
        BY DEF U!TypeOK
      <3>3. QED
        BY <3>1, <3>2
    <2>3. /\ sweep'.left = sweep.left \ {x}
          /\ \/ sweep'.gone = sweep.gone
             \/ sweep'.gone = sweep.gone \cup {x} /\ object'[x] = "none"
      <3>1. \/ /\ object' = [object EXCEPT ![x] = "none"]
               /\ sweep' = [sweep EXCEPT !.left = @ \ {x}, !.gone = @ \cup {x}]
            \/ sweep' = [sweep EXCEPT !.left = @ \ {x}]
        BY <1>2 DEF U!DeleteStored
      <3>2. /\ sweep \in [on : BOOLEAN, left : SUBSET U!Paths, gone : SUBSET U!Paths]
            /\ object \in [U!Paths -> {"none", "part", "full"}]
        BY DEF U!TypeOK
      <3>3. QED
        BY <3>1, <3>2
    <2>4. upload[x] = "old" /\ ~ U!Referenced(x)
      BY <2>1 DEF StoreInv, Swept
    <2>5. Stored'
      <3>1. \A p \in Posts, s \in Stages : x = <<p, s>> => post[p].at = "done"
        BY <2>4 DEF StoreInv, Stored
      <3>2. QED
        BY <2>1, <2>2, <3>1, PathsApart DEF StoreInv, Stored
    <2>6. Shown'
      <3>1. x \in Photos => photo[x] \notin {"saved", "visible"}
        BY <2>4 DEF StoreInv, Shown, U!Referenced
      <3>2. QED
        BY <2>1, <2>2, <3>1, PathsApart DEF StoreInv, Shown
    <2>7. Swept'
      <3>1. \A y \in sweep'.left \cup sweep'.gone : y \in sweep.left \cup sweep.gone
        BY <2>1, <2>3
      <3>2. \A y \in sweep'.left \cup sweep'.gone : upload'[y] = "old" /\ ~ U!Referenced(y)'
        BY <2>1, <3>1 DEF StoreInv, Swept, U!Referenced
      <3>3. \A y \in sweep'.gone : object'[y] = "none"
        BY <2>2, <2>3, <1>b DEF StoreInv, Swept
      <3>4. QED
        BY <3>2, <3>3 DEF Swept
    <2>8. U!Complete'
      <3>1. \A p \in Posts, s \in Stages :
              x = <<p, s>> => x \notin attached \/ message[p] # "live"
        BY <2>4, PathsApart DEF U!Referenced
      <3>2. QED
        BY <2>1, <2>2, <3>1, <1>a, PathsApart DEF StoreInv, U!Complete
    <2>9. U!Inventoried'
      BY <2>1, <2>2 DEF StoreInv, U!Inventoried
    <2>10. QED
      BY <2>5, <2>6, <2>7, <2>8, <2>9 DEF StoreInv
  <1>3. CASE U!BeginCleanup
    <2>1. /\ UNCHANGED <<post, message, photo, attached, upload, object>>
          /\ sweep'.left = {x \in U!Paths : upload[x] = "old" /\ ~ U!Referenced(x)}
          /\ sweep'.gone = {}
      BY <1>3 DEF U!BeginCleanup, U!NoSweep
    <2>2. Swept'
      BY <2>1 DEF Swept, U!Referenced
    <2>3. QED
      BY <2>1, <2>2 DEF StoreInv, Stored, Shown, U!Complete, U!Inventoried
  <1>4. CASE U!CommitCleanup
    <2>1. /\ UNCHANGED <<post, message, object>> /\ attached' = attached \ sweep.gone
          /\ sweep' = U!NoSweep
      BY <1>4 DEF U!CommitCleanup
    <2>2. \A x \in U!Paths : upload'[x] = (IF x \in sweep.gone THEN "none" ELSE upload[x])
      BY <1>4 DEF U!CommitCleanup
    <2>3. \A f \in Photos : photo'[f] = photo[f] \/ (photo[f] = "expired" /\ photo'[f] = "gone")
      BY <1>4 DEF U!CommitCleanup
    <2>4. \A x \in sweep.gone : upload[x] = "old" /\ ~ U!Referenced(x) /\ object[x] = "none"
      BY DEF StoreInv, Swept
    <2>5. Stored'
      BY <2>1, <2>2, PathsApart DEF StoreInv, Stored
    <2>6. Shown'
      BY <2>1, <2>2, <2>3, PathsApart DEF StoreInv, Shown
    <2>7. Swept'
      BY <2>1 DEF Swept, U!NoSweep
    <2>8. U!Complete'
      <3>1. \A p \in Posts, s \in Stages :
              <<p, s>> \in sweep.gone => <<p, s>> \notin attached \/ message[p] # "live"
        BY <2>4, PathsApart DEF U!Referenced
      <3>2. QED
        BY <2>1, <3>1, <1>a DEF StoreInv, U!Complete
    <2>9. U!Inventoried'
      BY <2>1, <2>2, <2>4 DEF StoreInv, U!Inventoried
    <2>10. QED
      BY <2>5, <2>6, <2>7, <2>8, <2>9 DEF StoreInv
  <1>5. CASE U!LoseCleanup
    <2>1. /\ UNCHANGED <<post, message, photo, attached, upload, object>> /\ sweep' = U!NoSweep
      BY <1>5 DEF U!LoseCleanup
    <2>2. Swept'
      BY <2>1 DEF Swept, U!NoSweep
    <2>3. QED
      BY <2>1, <2>2 DEF StoreInv, Stored, Shown, U!Complete, U!Inventoried
  <1>6. QED
    BY <1>1, <1>2, <1>3, <1>4, <1>5

LEMMA StoreAtStop ==
  ASSUME U!TypeOK, StoreInv, U!ServerStops
  PROVE  StoreInv'
  <1>1. \A q \in Posts : post[q] \in PostRec
    BY DEF U!TypeOK, PostRec
  <1>2. ASSUME NEW q \in Posts
        PROVE  /\ post'[q].want = post[q].want /\ post'[q].saved = post[q].saved
               /\ post'[q].at = (IF post[q].at = "none" THEN "none" ELSE "done")
    BY <1>1 DEF U!ServerStops, PostRec
  <1>3. UNCHANGED <<message, attached, upload, object>> /\ sweep' = U!NoSweep
    BY DEF U!ServerStops, U!storeVars
  <1>4. \A f \in Photos : photo'[f] = photo[f] \/ photo'[f] = "gone"
    BY DEF U!ServerStops
  <1>5. \A f \in Photos : photo'[f] \notin {"queued", "saving", "saved"}
    BY DEF U!ServerStops
  <1>6. Stored' /\ U!Complete'
    BY <1>2, <1>3 DEF StoreInv, Stored, U!Complete
  <1>7. Shown' /\ U!Inventoried'
    BY <1>3, <1>4, <1>5 DEF StoreInv, Shown, U!Inventoried
  <1>8. Swept'
    BY <1>3 DEF Swept, U!NoSweep
  <1>9. QED
    BY <1>6, <1>7, <1>8 DEF StoreInv

-----------------------------------------------------------------------------
(* What either storage may hold.                                           *)

LEMMA MediaIsFinite ==
  /\ IsFiniteSet(U!Media) /\ IsFiniteSet(Shelved)
  /\ \A S \in SUBSET U!Media : IsFiniteSet(S) /\ Cardinality(S) \in Nat
  /\ \A S \in SUBSET Stages : IsFiniteSet(S) /\ Cardinality(S) \in Nat
  /\ \A S \in SUBSET Photos : IsFiniteSet(S) /\ Cardinality(S) \in Nat
  <1>1. IsFiniteSet(U!Media)
    BY MediaAssumption, FS_Product DEF U!Media
  <1>2. \A S : IsFiniteSet(S) => \A T \in SUBSET S : IsFiniteSet(T) /\ Cardinality(T) \in Nat
    BY FS_Subset, FS_CardinalityType
  <1>3. Shelved \in SUBSET Photos
    BY DEF Shelved
  <1>4. QED
    BY <1>1, <1>2, <1>3, MediaAssumption

(* The size of a subset.                                                   *)
LEMMA FewerIsLess ==
  ASSUME NEW S, IsFiniteSet(S), NEW T \in SUBSET S
  PROVE  Cardinality(T) <= Cardinality(S) /\ Cardinality(T) \in Nat /\ Cardinality(S) \in Nat
  BY FS_Subset, FS_CardinalityType

(* Whoever stores has the room that was counted for it.                    *)
LEMMA RoomStays ==
  ASSUME U!TypeOK, Room, attached' \subseteq attached, UNCHANGED scene,
         \A q \in Posts : post'[q].at = "saving" =>
           post[q].at = "saving" /\ post'[q].want = post[q].want
  PROVE  Room'
  <1>1. /\ Cardinality(attached') <= Cardinality(attached)
        /\ Cardinality(attached') \in Nat /\ Cardinality(attached) \in Nat
    BY MediaIsFinite, FewerIsLess DEF U!TypeOK
  <1>2. \A q \in Posts : Cardinality(post[q].want) \in Nat
    BY MediaIsFinite DEF U!TypeOK
  <1>3. scene.budget \in Nat
    BY ScenesTyped DEF U!TypeOK
  <1>4. ASSUME NEW p \in Posts, post'[p].at = "saving"
        PROVE  Cardinality(attached') + Cardinality(post'[p].want) <= scene.budget
    <2>1. Cardinality(attached) + Cardinality(post[p].want) <= scene.budget
      BY <1>4 DEF Room
    <2>2. post'[p].want = post[p].want
      BY <1>4
    <2>3. QED
      BY <1>1, <1>2, <1>3, <2>1, <2>2
  <1>5. Cardinality(attached') <= scene.budget
    BY <1>1, <1>3 DEF Room
  <1>6. \A p, q \in Posts : post'[p].at = "saving" /\ post'[q].at = "saving" => q = p
    BY DEF Room
  <1>7. QED
    BY <1>4, <1>5, <1>6 DEF Room

LEMMA RoomInSending ==
  ASSUME U!TypeOK, Room, NEW p \in Posts,
         U!BeginPost(p) \/ U!PostStep(p) \/ U!LoseTransaction(p) \/ U!DeleteMessage(p)
  PROVE  Room'
  <1> USE DEF U!Sent, U!storeVars, U!stageVars
  <1>1. CASE U!BeginPost(p)
    <2>1. UNCHANGED <<attached, scene>>
      BY <1>1 DEF U!BeginPost
    <2>2. PICK want \in SUBSET Stages :
            post' = [post EXCEPT ![p] = [U!NoPost EXCEPT !.at = "claiming", !.want = want]]
      BY <1>1 DEF U!BeginPost
    <2>3. post'[p].at = "claiming" /\ \A q \in Posts \ {p} : post'[q] = post[q]
      BY <2>2 DEF U!NoPost, U!TypeOK
    <2>4. QED
      BY <2>1, <2>3, RoomStays
  <1>2. ASSUME NEW s \in Stages, U!ClaimStage(p, s) PROVE Room'
    <2>1. UNCHANGED <<attached, scene>>
      BY <1>2 DEF U!ClaimStage
    <2>2. post'[p].at \in {"claiming", "failed"} /\ \A q \in Posts \ {p} : post'[q] = post[q]
      BY <1>2 DEF U!ClaimStage, U!Step, U!TypeOK
    <2>3. QED
      BY <2>1, <2>2, RoomStays
  <1>3. CASE \/ U!BeginTransaction(p) \/ U!NoConnection(p) \/ U!LoseTransaction(p)
             \/ U!FinishPost(p) \/ U!FailPost(p)
    <2>1. UNCHANGED <<attached, scene>> /\ \E at \in {"queued", "failed", "done"} : U!Step(p, at)
      BY <1>3 DEF U!BeginTransaction, U!NoConnection, U!LoseTransaction, U!FinishPost, U!FailPost
    <2>2. PICK at \in {"queued", "failed", "done"} : U!Step(p, at)
      BY <2>1
    <2>3. post'[p].at = at /\ \A q \in Posts \ {p} : post'[q] = post[q]
      BY <2>2, Stepped DEF U!PostSteps
    <2>4. QED
      BY <2>1, <2>3, RoomStays
  <1>4. CASE U!LockBudget(p)
    <2>1. PICK at \in {"saving", "failed"} :
            U!Step(p, at) /\ (at = "saving" <=>
                Cardinality(attached) + Cardinality(post[p].want) <= scene.budget)
      BY <1>4, SameSize DEF U!LockBudget
    <2>2. post'[p].at = at /\ post'[p].want = post[p].want
          /\ \A q \in Posts \ {p} : post'[q] = post[q]
      BY <2>1, Stepped DEF U!PostSteps
    <2>3. UNCHANGED <<attached, scene>> /\ \A q \in Posts : post[q].at # "saving"
      BY <1>4 DEF U!LockBudget
    <2>4. QED
      BY <2>1, <2>2, <2>3 DEF Room
  <1>5. ASSUME NEW s \in Stages, U!TrackUpload(p, s) \/ U!SaveFile(p, s) PROVE Room'
    <2>1. UNCHANGED <<attached, scene>>
      BY <1>5 DEF U!TrackUpload, U!SaveFile
    <2>2. /\ post'[p].at = "saving" => post[p].at = "saving" /\ post'[p].want = post[p].want
          /\ \A q \in Posts \ {p} : post'[q] = post[q]
      BY <1>5 DEF U!TrackUpload, U!SaveFile, U!TypeOK
    <2>3. QED
      BY <2>1, <2>2, RoomStays
  <1>6. CASE U!CommitPost(p)
    <2>1. /\ post[p].at = "saving" /\ UNCHANGED scene /\ U!Step(p, "committed")
          /\ attached' = attached \cup ({p} \X post[p].want)
      BY <1>6 DEF U!CommitPost
    <2>2. post'[p].at = "committed" /\ \A q \in Posts \ {p} : post'[q] = post[q]
      BY <2>1, Stepped DEF U!PostSteps
    <2>3. \A q \in Posts : post'[q].at # "saving"
      BY <2>1, <2>2 DEF Room
    <2>4. post[p].want \in SUBSET Stages /\ attached \in SUBSET U!Media
      BY DEF U!TypeOK
    <2>5. /\ IsFiniteSet({p} \X post[p].want)
          /\ Cardinality({p} \X post[p].want) = Cardinality(post[p].want)
      <3>1. IsFiniteSet({p}) /\ Cardinality({p}) = 1
        BY FS_Singleton
      <3>2. IsFiniteSet(post[p].want) /\ Cardinality(post[p].want) \in Nat
        BY <2>4, MediaIsFinite
      <3>3. /\ IsFiniteSet({p} \X post[p].want)
            /\ Cardinality({p} \X post[p].want) = 1 * Cardinality(post[p].want)
        BY <3>1, <3>2, FS_Product
      <3>4. QED
        BY <3>2, <3>3
    <2>6. Cardinality(attached') <= Cardinality(attached) + Cardinality(post[p].want)
      <3>1. IsFiniteSet(attached) /\ Cardinality(attached) \in Nat
        BY <2>4, MediaIsFinite
      <3>2. Cardinality(attached') = Cardinality(attached) + Cardinality({p} \X post[p].want)
                                       - Cardinality(attached \cap ({p} \X post[p].want))
        BY <2>1, <2>5, <3>1, FS_Union
      <3>3. Cardinality(attached \cap ({p} \X post[p].want)) \in Nat
        BY <3>1, FewerIsLess
      <3>4. Cardinality(post[p].want) \in Nat
        BY <2>4, MediaIsFinite
      <3>5. QED
        BY <2>5, <3>1, <3>2, <3>3, <3>4
    <2>7. Cardinality(attached) + Cardinality(post[p].want) <= scene.budget
      BY <2>1 DEF Room
    <2>8. /\ Cardinality(attached') \in Nat /\ Cardinality(attached) \in Nat
          /\ Cardinality(post[p].want) \in Nat /\ scene.budget \in Nat
      <3>1. attached' \in SUBSET U!Media
        BY <2>1, <2>4 DEF U!Media
      <3>2. QED
        BY <2>4, <3>1, MediaIsFinite, ScenesTyped DEF U!TypeOK
    <2>9. Cardinality(attached') <= scene.budget
      BY <2>6, <2>7, <2>8
    <2>10. QED
      BY <2>1, <2>3, <2>9 DEF Room
  <1>7. CASE U!DeleteMessage(p)
    <2>1. attached' \subseteq attached /\ UNCHANGED <<scene, post>>
      BY <1>7 DEF U!DeleteMessage
    <2>2. QED
      BY <2>1, RoomStays
  <1>8. QED
    BY <1>1, <1>2, <1>3, <1>4, <1>5, <1>6, <1>7 DEF U!PostStep

(* Room on the shelf, while no photo is added and nobody is admitted.      *)
LEMMA ShelfStays ==
  ASSUME ShelfRoom, \A f \in Photos : upload'[f] # "none" => upload[f] # "none",
         \A f \in Photos : photo'[f] = "saving" => photo[f] = "saving"
  PROVE  ShelfRoom'
  <1>1. Shelved' \subseteq Shelved
    BY DEF Shelved
  <1>2. /\ Cardinality(Shelved') <= Cardinality(Shelved)
        /\ Cardinality(Shelved') \in Nat /\ Cardinality(Shelved) \in Nat
    BY <1>1, MediaIsFinite, FewerIsLess
  <1>3. QED
    BY <1>2, MediaAssumption DEF ShelfRoom

LEMMA ShelfInPhotos ==
  ASSUME U!TypeOK, ShelfRoom, NEW f \in Photos,
         \/ U!BeginPhoto(f) \/ U!LockShelf(f) \/ U!SavePhoto(f) \/ U!CreateStatus(f)
         \/ U!ExpireStatus(f) \/ U!DeleteOwnStatus(f)
  PROVE  ShelfRoom'
  <1> USE DEF U!Rest, U!storeVars, U!Now
  <1>a. \A g \in Photos : /\ photo[g] \in {"none", "queued", "saving", "saved", "visible",
                                           "expired", "gone"}
                          /\ g \in U!Paths
    BY PathsApart DEF U!TypeOK
  <1>1. CASE U!BeginPhoto(f) \/ U!CreateStatus(f) \/ U!ExpireStatus(f) \/ U!DeleteOwnStatus(f)
    <2>1. /\ UNCHANGED upload /\ photo'[f] # "saving"
          /\ \A g \in Photos \ {f} : photo'[g] = photo[g]
      BY <1>1 DEF U!BeginPhoto, U!CreateStatus, U!ExpireStatus, U!DeleteOwnStatus, U!TypeOK
    <2>2. QED
      BY <2>1, ShelfStays
  <1>2. CASE U!LockShelf(f)
    <2>1. /\ UNCHANGED upload /\ \A g \in Photos \ {f} : photo'[g] = photo[g]
          /\ \A g \in Photos : photo[g] # "saving"
          /\ photo'[f] = "saving" => Cardinality(Shelved) < Shelf
      BY <1>2, SameSize DEF U!LockShelf, U!TypeOK, Shelved
    <2>2. Shelved' = Shelved
      BY <2>1 DEF Shelved
    <2>3. QED
      BY <2>1, <2>2 DEF ShelfRoom
  <1>3. CASE U!SavePhoto(f)
    <2>1. /\ photo[f] = "saving" /\ photo'[f] # "saving"
          /\ \A g \in Photos \ {f} : photo'[g] = photo[g] /\ upload'[g] = upload[g]
      BY <1>3, <1>a DEF U!SavePhoto, U!TypeOK
    <2>2. Cardinality(Shelved) < Shelf /\ \A g \in Photos : photo'[g] # "saving"
      BY <2>1 DEF ShelfRoom
    <2>3. Shelved' \subseteq Shelved \cup {f}
      BY <2>1 DEF Shelved
    <2>4. /\ IsFiniteSet(Shelved \cup {f})
          /\ Cardinality(Shelved \cup {f}) \in {Cardinality(Shelved), Cardinality(Shelved) + 1}
      BY MediaIsFinite, FS_AddElement
    <2>5. /\ Cardinality(Shelved') <= Cardinality(Shelved \cup {f})
          /\ Cardinality(Shelved') \in Nat
      BY <2>3, <2>4, FewerIsLess
    <2>6. Cardinality(Shelved) \in Nat
      BY MediaIsFinite DEF Shelved
    <2>7. Cardinality(Shelved') <= Shelf
      BY <2>2, <2>4, <2>5, <2>6, MediaAssumption
    <2>8. QED
      BY <2>2, <2>7 DEF ShelfRoom
  <1>4. QED
    BY <1>1, <1>2, <1>3

-----------------------------------------------------------------------------
(* The invariant of the media part.                                        *)

LEMMA MediaInitially == U!Init => MediaInv
  <1> SUFFICES ASSUME U!Init PROVE MediaInv
    OBVIOUS
  <1> USE DEF U!Init
  <1>1. U!TypeOK
    <2>1. scene \in Scenes /\ stops \in Nat
      BY ScenesTyped
    <2>2. U!NoPut \in [stage : SUBSET Stages, chunk : 0..(Chunks - 1)]
      BY MediaAssumption DEF U!NoPut
    <2>3. U!NoPost \in PostRec
      BY DEF U!NoPost, PostRec, U!PostSteps
    <2>4. U!NoSweep \in [on : BOOLEAN, left : SUBSET U!Paths, gone : SUBSET U!Paths]
      BY DEF U!NoSweep
    <2>5. 0 \in 0..U!Full /\ 0 \in 0..Chunks
      BY MediaAssumption DEF U!Full
    <2>6. /\ post \in [Posts -> PostRec]
          /\ put \in [Puts -> [stage : SUBSET Stages, chunk : 0..(Chunks - 1)]]
      BY <2>2, <2>3
    <2>7. size \in [Stages -> 0..U!Full] /\ acked \in [Stages -> 0..Chunks]
      BY <2>5
    <2>8. QED
      BY <2>1, <2>4, <2>6, <2>7 DEF U!TypeOK, PostRec
  <1>2. /\ \A p \in Posts : /\ post[p].at = "none" /\ post[p].claims = {} /\ post[p].want = {}
                            /\ post[p].saved = {} /\ message[p] = "none"
        /\ \A f \in Photos : photo[f] = "none" /\ upload[f] = "none"
        /\ \A x \in U!Paths : upload[x] = "none" /\ object[x] = "none"
        /\ sweep.left = {} /\ sweep.gone = {} /\ attached = {}
    BY PathsApart DEF U!NoPost, U!NoSweep
  <1>3. Claimed /\ Spent
    BY <1>2 DEF Claimed, Spent, Active
  <1>4. StoreInv
    BY <1>2, PathsApart DEF StoreInv, Stored, Shown, Swept, U!Complete, U!Inventoried
  <1>5. Cardinality({}) = 0 /\ scene.budget \in Nat
    BY FS_EmptySet, ScenesTyped
  <1>6. Room
    BY <1>2, <1>5 DEF Room
  <1>7. Shelved = {}
    BY <1>2 DEF Shelved
  <1>8. ShelfRoom
    BY <1>2, <1>5, <1>7, MediaAssumption DEF ShelfRoom
  <1>9. QED
    BY <1>1, <1>3, <1>4, <1>6, <1>8 DEF MediaInv

(* Each kind of step keeps the invariant.                                  *)
LEMMA StagingKeeps ==
  ASSUME MediaInv, NEW s, NEW h,
         \/ s \in Stages /\ U!CreateStage(s)
         \/ s \in Stages /\ U!LearnOffset(s)
         \/ s \in Stages /\ U!BreakLock(s)
         \/ s \in Stages /\ U!Inventory(s)
         \/ h \in Puts /\ U!WriteChunk(h)
         \/ h \in Puts /\ s \in Stages /\ U!AppendStage(h, s)
  PROVE  MediaInv'
  <1>1. UNCHANGED <<scene, post, photo, message, attached, upload, object, sweep>>
    BY DEF U!CreateStage, U!LearnOffset, U!BreakLock, U!Inventory, U!WriteChunk,
           U!AppendStage, U!storeVars
  <1>2. StoreInv' /\ Room' /\ ShelfRoom'
    BY <1>1, StoreRest, RoomStays, ShelfStays DEF MediaInv
  <1>3. QED
    BY <1>2, TypedStaging, ClaimsInStaging DEF MediaInv

LEMMA SendingKeeps ==
  ASSUME MediaInv, NEW p \in Posts,
         U!BeginPost(p) \/ U!PostStep(p) \/ U!LoseTransaction(p) \/ U!DeleteMessage(p)
  PROVE  MediaInv'
  <1>1. UNCHANGED photo
    BY DEF U!BeginPost, U!PostStep, U!LoseTransaction, U!DeleteMessage, U!ClaimStage,
           U!TrackUpload, U!SaveFile, U!BeginTransaction, U!LockBudget, U!NoConnection,
           U!CommitPost, U!FinishPost, U!FailPost, U!Sent
  <1>2. \A f \in Photos : upload'[f] = upload[f]
    <2>1. UNCHANGED upload \/ \E s \in Stages : U!TrackUpload(p, s)
      BY DEF U!BeginPost, U!PostStep, U!LoseTransaction, U!DeleteMessage, U!ClaimStage,
             U!SaveFile, U!BeginTransaction, U!LockBudget, U!NoConnection, U!CommitPost,
             U!FinishPost, U!FailPost, U!storeVars
    <2>2. ASSUME NEW s \in Stages, U!TrackUpload(p, s), NEW f \in Photos
          PROVE  upload'[f] = upload[f]
      BY <2>2, PathsApart DEF U!TrackUpload, MediaInv, U!TypeOK
    <2>3. QED
      BY <2>1, <2>2
  <1>3. ShelfRoom'
    BY <1>1, <1>2, ShelfStays DEF MediaInv
  <1>4. QED
    BY <1>3, TypedSending, ClaimsInSending, StoreInSending, RoomInSending DEF MediaInv

LEMMA PhotosKeep ==
  ASSUME MediaInv, NEW f \in Photos,
         \/ U!BeginPhoto(f) \/ U!LockShelf(f) \/ U!SavePhoto(f) \/ U!CreateStatus(f)
         \/ U!ExpireStatus(f) \/ U!DeleteOwnStatus(f)
  PROVE  MediaInv'
  <1>1. UNCHANGED <<scene, post, file, size, message, attached>>
    BY DEF U!BeginPhoto, U!LockShelf, U!SavePhoto, U!CreateStatus, U!ExpireStatus,
           U!DeleteOwnStatus, U!Rest, U!stageVars
  <1>2. Claimed' /\ Spent' /\ Room'
    BY <1>1, ClaimsRest, RoomStays DEF MediaInv
  <1>3. QED
    BY <1>2, TypedPhotos, StoreInPhotos, ShelfInPhotos DEF MediaInv

LEMMA RetentionKeeps ==
  ASSUME MediaInv,
         \/ \E x \in U!Paths : U!Age(x) \/ U!DeleteStored(x)
         \/ U!BeginCleanup \/ U!CommitCleanup \/ U!LoseCleanup
  PROVE  MediaInv'
  <1>1. UNCHANGED <<scene, post, file, size, message>> /\ attached' \subseteq attached
    BY DEF U!Age, U!DeleteStored, U!BeginCleanup, U!CommitCleanup, U!LoseCleanup,
           U!Kept, U!stageVars
  <1>2. Claimed' /\ Spent' /\ Room'
    BY <1>1, ClaimsRest, RoomStays DEF MediaInv
  <1>3. ASSUME NEW f \in Photos
        PROVE  /\ upload'[f] # "none" => upload[f] # "none"
               /\ photo'[f] = "saving" => photo[f] = "saving"
    <2>1. f \in U!Paths /\ upload \in [U!Paths -> {"none", "new", "old"}]
      BY PathsApart DEF MediaInv, U!TypeOK
    <2>2. ASSUME NEW x \in U!Paths, U!Age(x) \/ U!DeleteStored(x)
          PROVE  UNCHANGED photo /\ (upload'[f] # "none" => upload[f] # "none")
      BY <2>1, <2>2 DEF U!Age, U!DeleteStored
    <2>3. CASE U!BeginCleanup \/ U!LoseCleanup
      BY <2>3 DEF U!BeginCleanup, U!LoseCleanup, U!storeVars
    <2>4. CASE U!CommitCleanup
      BY <2>1, <2>4 DEF U!CommitCleanup
    <2>5. QED
      BY <2>2, <2>3, <2>4
  <1>4. ShelfRoom'
    BY <1>3, ShelfStays DEF MediaInv
  <1>5. QED
    BY <1>2, <1>4, TypedRetention, StoreInRetention DEF MediaInv

LEMMA StopKeeps ==
  ASSUME MediaInv, U!ServerStops
  PROVE  MediaInv'
  <1>1. UNCHANGED <<scene, attached, upload>>
    BY DEF U!ServerStops, U!storeVars
  <1>2. \A f \in Photos : photo'[f] # "saving"
    BY DEF U!ServerStops
  <1>3. \A p \in Posts : post'[p].at # "saving"
    BY DEF U!ServerStops, MediaInv, U!TypeOK
  <1>4. Room' /\ ShelfRoom'
    BY <1>1, <1>2, <1>3, RoomStays, ShelfStays DEF MediaInv
  <1>5. QED
    BY <1>4, TypedStop, ClaimsAtStop, StoreAtStop DEF MediaInv

LEMMA MediaPartInvariance ==
  MediaInv /\ [PartsNext]_<<part, vars, uploadVars>> => MediaInv'
  <1> SUFFICES ASSUME MediaInv, [PartsNext]_<<part, vars, uploadVars>> PROVE MediaInv'
    OBVIOUS
  <1>1. CASE UNCHANGED uploadVars
    <2>1. U!TypeOK'
      BY <1>1 DEF MediaInv, U!TypeOK, uploadVars
    <2>2. Claimed' /\ Spent'
      BY <1>1, ClaimsRest DEF MediaInv, uploadVars
    <2>3. StoreInv'
      BY <1>1, StoreRest DEF MediaInv, uploadVars
    <2>4. Room' /\ ShelfRoom'
      BY <1>1, RoomStays, ShelfStays DEF MediaInv, uploadVars
    <2>5. QED
      BY <2>1, <2>2, <2>3, <2>4 DEF MediaInv
  <1>2. CASE U!Next
    <2>1. ASSUME NEW s \in Stages,
                 U!CreateStage(s) \/ U!LearnOffset(s) \/ U!BreakLock(s) \/ U!Inventory(s)
          PROVE  MediaInv'
      BY <2>1, StagingKeeps
    <2>2. ASSUME NEW h \in Puts, U!WriteChunk(h)
          PROVE  MediaInv'
      BY <2>2, StagingKeeps
    <2>3. ASSUME NEW h \in Puts, NEW s \in Stages, U!AppendStage(h, s)
          PROVE  MediaInv'
      BY <2>3, StagingKeeps
    <2>4. QED
      BY <1>2, <2>1, <2>2, <2>3, SendingKeeps, PhotosKeep, RetentionKeeps, StopKeeps DEF U!Next
  <1>3. QED
    BY <1>1, <1>2 DEF PartsNext

(* The invariant of the media among the other parts.                       *)
THEOREM MediaInvariance == PartsSpec => []MediaInv
  <1>1. PartsInit => MediaInv
    BY MediaInitially DEF PartsInit
  <1>2. QED
    BY <1>1, MediaPartInvariance, PTL DEF PartsSpec

(* Its parts give MediaIsSound; who used a file is one request, because    *)
(* Spent keeps it from every other.                                        *)
LEMMA MediaInvIsEnough == MediaInv => MediaIsSound
  <1> SUFFICES ASSUME MediaInv PROVE MediaIsSound
    OBVIOUS
  <1>1. U!UsedOnce
    <2>1. ASSUME NEW s \in Stages
          PROVE  Cardinality({p \in Posts : message[p] # "none" /\ s \in post[p].want}) <= 1
      <3> DEFINE Users == {p \in Posts : message[p] # "none" /\ s \in post[p].want}
      <3>1. \A p, q \in Users : p = q
        BY DEF MediaInv, Spent
      <3>2. Users = {} \/ \E p \in Users : Users = {p}
        BY <3>1
      <3>3. Cardinality({}) = 0 /\ \A p : Cardinality({p}) = 1
        BY FS_EmptySet, FS_Singleton
      <3> HIDE DEF Users
      <3>4. Cardinality(Users) = 0 \/ Cardinality(Users) = 1
        BY <3>2, <3>3, Zenon
      <3>5. QED
        BY <3>4 DEF Users
    <2>2. QED
      BY <2>1, SameSize DEF U!UsedOnce
  <1>2. U!PhotoThere
    BY DEF MediaInv, StoreInv, Shown, U!PhotoThere
  <1>3. Cardinality(attached) <= scene.budget /\ Cardinality(Shelved) <= Shelf
    BY DEF MediaInv, Room, ShelfRoom
  <1>4. QED
    BY <1>1, <1>2, <1>3, SameSize DEF MediaIsSound, U!MediaIsSound, MediaInv, StoreInv, Shelved

(* A staged file is in one message at most; attachments and visible photos *)
(* are stored in full while they are referred to, whatever fails and       *)
(* whatever retention removes; and the storage stays within its limits     *)
(* (claimStage, finish, saveFile, cleanupUploads and the two routes).      *)
THEOREM MediaStaysSound == PartsSpec => []MediaIsSound
  BY MediaInvariance, MediaInvIsEnough, PTL
=============================================================================
