------------------------- MODULE ClientLookupProofs -------------------------
(***************************************************************************)
(* Proofs about ClientLookup, for any urls and keys, good or bad, and any  *)
(* number of labelled Secrets and Services: FromCr takes the key, and      *)
(* unless a resource gives half of the connection the url too, from the    *)
(* first source that has one.                                              *)
(***************************************************************************)
EXTENDS ClientLookup, FiniteSetTheorems, TLAPS

-----------------------------------------------------------------------------
(* What the helpers return.                                                *)

\* Exactly one Secret is one that is there.
LEMMA TheOnlyOne ==
  ASSUME NEW S, Cardinality(S) = 1
  PROVE  (CHOOSE x \in S : TRUE) \in S
<1>1. S # {}
  BY FS_EmptySet
<1> QED
  BY <1>1

\* FirstOf finds the first candidate that is there.
LEMMA FirstIsFound ==
  ASSUME NEW n \in Nat, NEW s, DOMAIN s = 1..n,
         NEW i \in 1..n, s[i] # Absent, \A j \in 1..n : j < i => s[j] = Absent
  PROVE  FirstOf(s) = s[i]
<1> DEFINE there == {j \in DOMAIN s : s[j] # Absent}
<1>1. i \in there /\ \A j \in there : i <= j
  OBVIOUS
<1>2. \A k \in there : (\A j \in there : k <= j) => k = i
  BY <1>1
<1>3. (CHOOSE k \in there : \A j \in there : k <= j) = i
  BY <1>1, <1>2
<1> QED
  BY <1>1, <1>3 DEF FirstOf

\* Nothing is found if nothing is there.
LEMMA NothingIsFound ==
  ASSUME NEW s, \A j \in DOMAIN s : s[j] = Absent
  PROVE  FirstOf(s) = Absent
BY DEF FirstOf

\* Spelt out for the numbers of sources there are.
LEMMA FirstOfThree ==
  ASSUME NEW a, NEW b, NEW c
  PROVE  FirstOf(<<a, b, c>>) =
           IF a # Absent THEN a ELSE IF b # Absent THEN b ELSE c
<1> DEFINE s == <<a, b, c>>
<1>1. DOMAIN s = 1..3 /\ s[1] = a /\ s[2] = b /\ s[3] = c
  OBVIOUS
<1> HIDE DEF s
<1>2. \A i \in 1..3 : s[i] # Absent /\ (\A j \in 1..3 : j < i => s[j] = Absent)
                        => FirstOf(s) = s[i]
  BY <1>1, FirstIsFound
<1>3. (\A j \in 1..3 : s[j] = Absent) => FirstOf(s) = Absent
  BY <1>1, NothingIsFound
<1>4. FirstOf(s) = IF a # Absent THEN a ELSE IF b # Absent THEN b ELSE c
  BY <1>1, <1>2, <1>3
<1> QED
  BY <1>4 DEF s

LEMMA FirstOfFour ==
  ASSUME NEW a, NEW b, NEW c, NEW d
  PROVE  FirstOf(<<a, b, c, d>>) =
           IF a # Absent THEN a ELSE IF b # Absent THEN b
           ELSE IF c # Absent THEN c ELSE d
<1> DEFINE s == <<a, b, c, d>>
<1>1. DOMAIN s = 1..4 /\ s[1] = a /\ s[2] = b /\ s[3] = c /\ s[4] = d
  OBVIOUS
<1> HIDE DEF s
<1>2. \A i \in 1..4 : s[i] # Absent /\ (\A j \in 1..4 : j < i => s[j] = Absent)
                        => FirstOf(s) = s[i]
  BY <1>1, FirstIsFound
<1>3. (\A j \in 1..4 : s[j] = Absent) => FirstOf(s) = Absent
  BY <1>1, NothingIsFound
<1>4. FirstOf(s) = IF a # Absent THEN a ELSE IF b # Absent THEN b
                   ELSE IF c # Absent THEN c ELSE d
  BY <1>1, <1>2, <1>3
<1> QED
  BY <1>4 DEF s

-----------------------------------------------------------------------------
(* What FromCr makes of its sources.                                       *)

\* All there is to know before Build decides.
Found ==
  FromService(FromNamespace(FromConfigSecret(FromResource(cr), configSecret), secrets),
              services)

\* The key comes from the first source that has one.
LEMMA KeyFound == TypeOK => Found.key = ExpectedKey
<1> SUFFICES ASSUME TypeOK PROVE Found.key = ExpectedKey
  OBVIOUS
<1> DEFINE handed    == FromConfigSecret(FromResource(cr), configSecret)
           namespace == FromNamespace(handed, secrets)
<1>1. cr.key # Absent
  BY ConfigTexts DEF TypeOK, CrConfig
<1>2. ExpectedKey = IF cr.key # Empty THEN cr.key
                    ELSE IF Handed.key # Absent THEN Handed.key ELSE InNamespace.key
  BY <1>1, FirstOfThree DEF ExpectedKey
<1>3. handed.key = IF cr.key # Empty THEN cr.key ELSE Handed.key
  BY <1>1 DEF FromConfigSecret, FromResource, Handed, Nothing
<1>4. namespace.key = IF handed.key # Absent THEN handed.key ELSE InNamespace.key
  BY DEF FromNamespace, InNamespace, Nothing
<1>5. Found.key = namespace.key
  BY DEF Found, FromService, FromNamespace, FromConfigSecret, FromResource
<1> QED
  BY <1>1, <1>2, <1>3, <1>4, <1>5

\* So does the url, unless the resource gives half of the connection.
LEMMA UrlFound == TypeOK /\ ~HalfGiven => Found.url = ExpectedUrl
<1> SUFFICES ASSUME TypeOK, ~HalfGiven PROVE Found.url = ExpectedUrl
  OBVIOUS
<1> DEFINE own       == FromResource(cr)
           handed    == FromConfigSecret(own, configSecret)
           namespace == FromNamespace(handed, secrets)
           cluster   == IF Cardinality(services) = 1 THEN ServiceUrl ELSE Absent
<1>1. cr.url # Absent /\ cr.key # Absent
  BY ConfigTexts DEF TypeOK, CrConfig
<1>2. ExpectedUrl = IF cr.url # Empty THEN cr.url
                    ELSE IF Handed.url # Absent THEN Handed.url
                    ELSE IF InNamespace.url # Absent THEN InNamespace.url ELSE cluster
  BY <1>1, FirstOfFour DEF ExpectedUrl
<1>3. /\ own.url = IF cr.url # Empty THEN cr.url ELSE Absent
      /\ own.key = IF cr.key # Empty THEN cr.key ELSE Absent
  BY DEF FromResource
<1>4. handed.url = IF own.url # Absent THEN own.url ELSE Handed.url
  <2>1. CASE configSecret = None
    BY <2>1 DEF FromConfigSecret, Handed, Nothing
  <2>2. CASE configSecret # None /\ own.key # Absent
    BY <1>1, <1>3, <2>2 DEF FromConfigSecret, Handed, HalfGiven
  <2>3. CASE configSecret # None /\ own.key = Absent
    BY <1>1, <1>3, <2>3 DEF FromConfigSecret, Handed, HalfGiven
  <2> QED
    BY <2>1, <2>2, <2>3
<1>5. namespace.url = IF handed.url # Absent THEN handed.url ELSE InNamespace.url
  BY DEF FromNamespace, InNamespace, Nothing
<1>6. DOMAIN namespace = {"url", "key"}
  <2>1. DOMAIN handed = {"url", "key"}
    <3>1. handed = own \/ \E u, k : handed = [url |-> u, key |-> k]
      BY DEF FromConfigSecret
    <3> QED
      BY <3>1 DEF FromResource
  <2> HIDE DEF handed
  <2>2. namespace = handed \/ \E u, k : namespace = [url |-> u, key |-> k]
    BY DEF FromNamespace
  <2> QED
    BY <2>1, <2>2
<1>7. Found = FromService(namespace, services)
  BY DEF Found
<1>8. Found.url = IF namespace.url # Absent THEN namespace.url ELSE cluster
  <2> HIDE DEF namespace
  <2> QED
    BY <1>6, <1>7 DEF FromService
<1> QED
  BY <1>1, <1>2, <1>3, <1>4, <1>5, <1>8

\* The entries are texts, empty or absent.
LEMMA FoundType ==
  ASSUME NEW own \in CrConfig, NEW handed \in SecretData \cup {None},
         NEW labelled \in SUBSET Secrets, NEW clusterServices
  PROVE  FromService(FromNamespace(FromConfigSecret(FromResource(own), handed), labelled),
                     clusterServices) \in SecretData
<1> DEFINE known == FromConfigSecret(FromResource(own), handed)
<1>1. FromResource(own) \in SecretData
  BY DEF FromResource, SecretData, CrConfig
<1>2. known \in SecretData
  BY <1>1 DEF FromConfigSecret, SecretData
<1>3. FromNamespace(known, labelled) \in SecretData
  <2>1. CASE Cardinality(labelled) # 1
    BY <1>2, <2>1 DEF FromNamespace
  <2>2. CASE Cardinality(labelled) = 1
    <3> DEFINE secret == CHOOSE x \in labelled : TRUE
    <3>1. secret \in Secrets
      BY <2>2, TheOnlyOne
    <3> HIDE DEF secret
    <3>2. secret.url \in Urls \cup {Empty, Absent} /\ secret.key \in Keys \cup {Empty, Absent}
      <4>1. PICK n \in SecretNames, d \in SecretData :
              secret = [name |-> n, url |-> d.url, key |-> d.key]
        BY <3>1 DEF Secrets
      <4>2. secret.url = d.url /\ secret.key = d.key
        BY <4>1
      <4> QED
        BY <4>2 DEF SecretData
    <3>3. FromNamespace(known, labelled) =
            IF known.url # Absent /\ known.key # Absent THEN known
            ELSE [url |-> IF known.url # Absent THEN known.url ELSE secret.url,
                  key |-> IF known.key # Absent THEN known.key ELSE secret.key]
      BY <2>2 DEF FromNamespace, secret
    <3> HIDE DEF known
    <3>4. known.url \in Urls \cup {Empty, Absent} /\ known.key \in Keys \cup {Empty, Absent}
      BY <1>2 DEF SecretData
    <3>5. CASE known.url # Absent /\ known.key # Absent
      BY <1>2, <3>3, <3>5
    <3>6. CASE ~(known.url # Absent /\ known.key # Absent)
      BY <3>2, <3>3, <3>4, <3>6 DEF SecretData
    <3> QED
      BY <3>5, <3>6
  <2> QED
    BY <2>1, <2>2
<1>4. \A found \in SecretData : FromService(found, clusterServices) \in SecretData
  BY ConfigTexts DEF FromService, SecretData
<1> QED
  BY <1>3, <1>4

\* What Build returns is a client, unless a url or a key is missing or useless.
LEMMA BuildType ==
  ASSUME NEW found \in SecretData
  PROVE  /\ Build(found) \in Client \cup {None}
         /\ Build(found) # None <=> found.url \in Urls \ BadUrls /\ found.key \in Keys
         /\ Build(found) # None =>
              /\ Build(found).url = found.url
              /\ Build(found).key = IF found.key \in BlankKeys THEN Empty ELSE found.key
<1>1. CASE Build(found) = None
  <2>1. found.url \in {Absent, Empty} \cup BadUrls \/ found.key \in {Absent, Empty}
    <3>1. ASSUME NEW k \in Keys \cup {Empty}, found.url \in Urls
          PROVE  [url |-> found.url, key |-> k] # None
      BY <3>1, NoneIsNoClient DEF Client
    <3> QED
      BY <1>1, <3>1, ConfigTexts DEF Build, SecretData
  <2> QED
    BY <1>1, <2>1, ConfigTexts
<1>2. CASE Build(found) # None
  BY <1>2, ConfigTexts DEF Build, SecretData, Client
<1> QED
  BY <1>1, <1>2

-----------------------------------------------------------------------------
(* The theorems.  What is remembered of a call was asked in the state the      *)
(* namespace is still in; the rest is what FromCr computes.                    *)

Answered ==
  IF asked THEN client = Build(Found) ELSE client = None /\ configSecret = None

LookupInv == TypeOK /\ Answered

\* Every call is remembered as it was answered, until the namespace changes.
LEMMA LookupInvariant == Spec => []LookupInv
<1>1. Init => LookupInv
  BY DEF Init, LookupInv, TypeOK, Answered
<1>2. LookupInv /\ [Next]_vars => LookupInv'
  <2> SUFFICES ASSUME LookupInv, [Next]_vars PROVE LookupInv'
    OBVIOUS
  <2>1. ASSUME NEW handed \in SecretData \cup {None}, Connect(handed)
        PROVE  LookupInv'
    <3>1. /\ configSecret' = handed /\ asked' = TRUE
          /\ UNCHANGED <<cr, secrets, services>>
          /\ client' = FromCr(cr, handed, secrets, services)
      BY <2>1 DEF Connect
    <3>2. Answered'
      BY <3>1 DEF Answered, FromCr, Found
    <3>3. client' \in Client \cup {None}
      BY <3>1, FoundType, BuildType DEF LookupInv, TypeOK, FromCr
    <3> QED
      BY <3>1, <3>2, <3>3 DEF LookupInv, TypeOK
  <2>2. ASSUME NEW secret \in Secrets, PutSecret(secret)
        PROVE  LookupInv'
    BY <2>2 DEF PutSecret, ForgetCall, LookupInv, TypeOK, Answered
  <2>3. ASSUME NEW name \in ServiceNames, ToggleService(name)
        PROVE  LookupInv'
    BY <2>3 DEF ToggleService, ForgetCall, LookupInv, TypeOK, Answered
  <2>4. CASE UNCHANGED vars
    BY <2>4 DEF vars, LookupInv, TypeOK, Answered, Found
  <2> QED
    BY <2>1, <2>2, <2>3, <2>4 DEF Next
<1> QED
  BY <1>1, <1>2, PTL DEF Spec

\* The types of the variables; in particular the Secrets keep their names apart.
THEOREM TypeCorrect == Spec => []TypeOK
BY LookupInvariant, PTL DEF LookupInv

\* The API key of every client comes from the first source that has one: resource,
\* Secret handed over, namespace; and there is no client without a key.
THEOREM KeysByPrecedence == Spec => []KeyPrecedence
<1>1. LookupInv => KeyPrecedence
  <2> SUFFICES ASSUME LookupInv, client # None PROVE KeyPrecedence
    BY DEF KeyPrecedence
  <2>1. client = Build(Found) /\ Build(Found) # None
    BY DEF LookupInv, Answered
  <2>2. Found \in SecretData
    BY FoundType DEF LookupInv, TypeOK, Found
  <2>3. Found.key = ExpectedKey
    BY KeyFound DEF LookupInv
  <2> QED
    BY <2>1, <2>2, <2>3, BuildType, ConfigTexts DEF KeyPrecedence
<1> QED
  BY <1>1, LookupInvariant, PTL

\* There is a client exactly if the first url and the first key there are can be used,
\* and it has them: nothing empty, missing or ambiguous is skipped or guessed.  (Not so
\* when the resource gives half of the connection and a Secret with a url is handed over.)
THEOREM LookupsFindFirstMatch == Spec => []LookupIsFirstMatch
<1>1. LookupInv => LookupIsFirstMatch
  <2> SUFFICES ASSUME LookupInv, asked, ~HalfGiven PROVE LookupIsFirstMatch
    BY DEF LookupIsFirstMatch
  <2>1. client = Build(Found)
    BY DEF LookupInv, Answered
  <2>2. Found \in SecretData
    BY FoundType DEF LookupInv, TypeOK, Found
  <2>3. Found.key = ExpectedKey /\ Found.url = ExpectedUrl
    BY KeyFound, UrlFound DEF LookupInv
  <2> QED
    BY <2>1, <2>2, <2>3, BuildType DEF LookupIsFirstMatch
<1> QED
  BY <1>1, LookupInvariant, PTL

=============================================================================
