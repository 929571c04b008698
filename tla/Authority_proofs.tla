---------------------------- MODULE Authority_proofs ----------------------------
(***************************************************************************)
(* Proofs about Authority: for any set of addresses, names and             *)
(* configurations, and any number of restarts.                             *)
(***************************************************************************)
EXTENDS Authority, TLAPS

\* Where a session's header comes from: the CLI, or a request that was valid under
\* the configuration of the creation.
OriginInv ==
    \A s \in session :
        \/ s.header = CliMeta /\ s.reqs = {}
        \/ \E req \in Request : /\ s.reqs = {req}
                                /\ s.header = MetaOf(s.under, req)
                                /\ IdendityValid(s.under, req, s.header)

\* No change is recorded of a session that is not there.
LastInv == session = {} => last = {}

AuthorityInv == TypeOK /\ OriginInv /\ LastInv /\ SourceKept /\ ConfigKept

-----------------------------------------------------------------------------
\* The type of a request is never that of the CLI; it tells whether a middleware
\* is registered.
LEMMA ProviderFacts ==
    ASSUME NEW c \in Config, NEW req \in Request
    PROVE  /\ ProviderOf(c, req) \in Provider \ {IDENDITY_CLI}
           /\ ProviderOf(c, req) = IDENDITY_HTTP_TRUSTED <=> c # NoMiddleware
  BY DEF ProviderOf, Provider, IDENDITY_CLI, IDENDITY_HTTP_PUBLIC, IDENDITY_HTTP_BASIC,
         IDENDITY_HTTP_DIGEST, IDENDITY_HTTP_TRUSTED, Config

LEMMA MetaType ==
    ASSUME NEW c \in Config, NEW req \in Request
    PROVE  /\ MetaOf(c, req) \in Meta
           /\ MetaOf(c, req).provider = ProviderOf(c, req)
           /\ MetaOf(c, req).authority = req.remote
  <1>1. ProviderOf(c, req) \in Provider
    BY ProviderFacts
  <1> QED
    BY <1>1 DEF MetaOf, Meta, Request

LEMMA CliMetaType == CliMeta \in Meta /\ CliMeta.provider = IDENDITY_CLI
  BY DEF CliMeta, Meta, Provider, IDENDITY_CLI, IDENDITY_HTTP_TRUSTED

\* A request that a session of that header lets pass comes from the header's
\* source, under the configuration the header was made in.
LEMMA AcceptedFacts ==
    ASSUME AuthorityInv, NEW s \in session, NEW req \in Request, Accepts(config, s.header, req)
    PROVE  /\ MetaOf(config, req).provider = s.header.provider
           /\ MetaOf(config, req).provider = IDENDITY_HTTP_TRUSTED =>
                  MetaOf(config, req).authority = s.header.authority
           /\ config = s.under
  <1> DEFINE meta == MetaOf(config, req)
  <1>1. config \in Config /\ s.under \in Config
    BY DEF AuthorityInv, TypeOK
  <1>2. /\ meta.provider = ProviderOf(config, req)
        /\ meta.provider # IDENDITY_CLI
        /\ meta.provider = IDENDITY_HTTP_TRUSTED <=> config # NoMiddleware
    BY <1>1, ProviderFacts, MetaType
  <1>3. /\ meta.provider = s.header.provider
        /\ meta.provider = IDENDITY_HTTP_TRUSTED => meta.authority = s.header.authority
        /\ meta.provider = IDENDITY_HTTP_TRUSTED => meta.authority = config
    BY DEF Accepts, AuthorityValid, IdendityValid
  <1>4. PICK r \in Request : /\ s.header = MetaOf(s.under, r)
                             /\ IdendityValid(s.under, r, s.header)
    <2>1. s.header # CliMeta
      BY <1>2, <1>3, CliMetaType
    <2> QED
      BY <2>1 DEF AuthorityInv, OriginInv
  <1>5. s.header.provider = IDENDITY_HTTP_TRUSTED <=> s.under # NoMiddleware
    BY <1>1, <1>4, ProviderFacts, MetaType
  <1>6. CASE meta.provider = IDENDITY_HTTP_TRUSTED
    <2>1. s.header.authority = s.under
      BY <1>3, <1>4, <1>6 DEF IdendityValid
    <2> QED
      BY <1>3, <1>6, <2>1
  <1>7. CASE meta.provider # IDENDITY_HTTP_TRUSTED
    BY <1>2, <1>3, <1>5, <1>7
  <1> QED
    BY <1>3, <1>6, <1>7

-----------------------------------------------------------------------------
\* Every step keeps the invariant.
LEMMA AuthorityStep == AuthorityInv /\ [Next]_vars => AuthorityInv'
  <1> SUFFICES ASSUME AuthorityInv, [Next]_vars PROVE AuthorityInv'
    OBVIOUS
  <1>0. /\ config \in Config
        /\ \A s \in session : /\ s.header \in Meta /\ s.reqs \subseteq Request
                              /\ s.under \in Config /\ session = {s}
        /\ last \subseteq Change
    BY DEF AuthorityInv, TypeOK
  <1>1. ASSUME NEW req \in Request, CreateSession(req) PROVE AuthorityInv'
    <2> DEFINE s == Created(MetaOf(config, req), {req})
    <2>1. /\ session = {} /\ session' = {s} /\ config' = config /\ last' = last
          /\ IdendityValid(config, req, MetaOf(config, req))
      BY <1>1 DEF CreateSession
    <2>2. s.header = MetaOf(config, req) /\ s.reqs = {req} /\ s.under = config
      BY DEF Created
    <2>3. MetaOf(config, req) \in Meta
      BY <1>0, MetaType
    <2> HIDE DEF s
    <2>4. TypeOK'
      BY <1>0, <2>1, <2>2, <2>3 DEF TypeOK
    <2>5. OriginInv'
      BY <2>1, <2>2 DEF OriginInv
    <2>6. last = {}
      BY <2>1 DEF AuthorityInv, LastInv
    <2> QED
      BY <2>1, <2>4, <2>5, <2>6 DEF AuthorityInv, LastInv, SourceKept, ConfigKept
  <1>2. CASE CliNewSession
    <2> DEFINE s == Created(CliMeta, {})
    <2>1. session = {} /\ session' = {s} /\ config' = config /\ last' = last
      BY <1>2 DEF CliNewSession
    <2>2. s.header = CliMeta /\ s.reqs = {} /\ s.under = config
      BY DEF Created
    <2> HIDE DEF s
    <2>3. TypeOK'
      BY <1>0, <2>1, <2>2, CliMetaType DEF TypeOK
    <2>4. OriginInv'
      BY <2>1, <2>2 DEF OriginInv
    <2>5. last = {}
      BY <2>1 DEF AuthorityInv, LastInv
    <2> QED
      BY <2>1, <2>3, <2>4, <2>5 DEF AuthorityInv, LastInv, SourceKept, ConfigKept
  <1>3. ASSUME NEW req \in Request, ChangeSession(req) PROVE AuthorityInv'
    <2> DEFINE l == [by |-> MetaOf(config, req), under |-> config]
    <2>1. PICK s \in session : Accepts(config, s.header, req)
      BY <1>3 DEF ChangeSession
    <2>2. last' = {l} /\ config' = config /\ session' = session /\ session = {s}
      BY <1>0, <1>3 DEF ChangeSession
    <2>3. l \in Change /\ l.by = MetaOf(config, req) /\ l.under = config
      BY <1>0, MetaType DEF Change
    <2>4. /\ l.by.provider = s.header.provider
          /\ l.by.provider = IDENDITY_HTTP_TRUSTED => l.by.authority = s.header.authority
          /\ l.under = s.under
      BY <2>1, <2>3, AcceptedFacts
    <2> HIDE DEF l
    <2>5. TypeOK'
      BY <1>0, <2>2, <2>3 DEF TypeOK
    <2>6. OriginInv' /\ LastInv'
      BY <2>2 DEF AuthorityInv, OriginInv, LastInv
    <2>7. SourceKept' /\ ConfigKept'
      BY <2>2, <2>4 DEF SourceKept, ConfigKept
    <2> QED
      BY <2>5, <2>6, <2>7 DEF AuthorityInv
  <1>4. CASE CliChangeSession
    <2> DEFINE l == [by |-> CliMeta, under |-> config]
    <2>1. last' = {l} /\ config' = config /\ session' = session /\ session # {}
      BY <1>4 DEF CliChangeSession
    <2>2. l \in Change /\ l.by.provider = IDENDITY_CLI
      BY <1>0, CliMetaType DEF Change
    <2> HIDE DEF l
    <2>3. TypeOK'
      BY <1>0, <2>1, <2>2 DEF TypeOK
    <2>4. OriginInv' /\ LastInv' /\ SourceKept' /\ ConfigKept'
      BY <2>1, <2>2 DEF AuthorityInv, OriginInv, LastInv, SourceKept, ConfigKept
    <2> QED
      BY <2>3, <2>4 DEF AuthorityInv
  <1>5. CASE RemoveSession
    <2>1. session' = {} /\ last' = {} /\ config' = config
      BY <1>5 DEF RemoveSession
    <2> QED
      BY <1>0, <2>1 DEF AuthorityInv, TypeOK, OriginInv, LastInv, SourceKept, ConfigKept
  <1>6. CASE Restart
    <2>1. session' = session /\ last' = last /\ config' \in Config
      BY <1>6 DEF Restart
    <2>2. TypeOK'
      BY <1>0, <2>1 DEF TypeOK
    <2>3. OriginInv' /\ LastInv' /\ SourceKept' /\ ConfigKept'
      BY <2>1 DEF AuthorityInv, OriginInv, LastInv, SourceKept, ConfigKept
    <2> QED
      BY <2>2, <2>3 DEF AuthorityInv
  <1>7. CASE UNCHANGED vars
    BY <1>7 DEF vars, AuthorityInv, TypeOK, OriginInv, LastInv, SourceKept, ConfigKept
  <1> QED
    BY <1>1, <1>2, <1>3, <1>4, <1>5, <1>6, <1>7 DEF Next

LEMMA AuthorityInit == Init => AuthorityInv
  BY DEF Init, AuthorityInv, TypeOK, OriginInv, LastInv, SourceKept, ConfigKept

LEMMA AuthorityInvariant == Spec => []AuthorityInv
  BY AuthorityInit, AuthorityStep, PTL DEF Spec

-----------------------------------------------------------------------------
\* A session is changed over HTTP only from where it was created: no restart with
\* another middleware, and no request of another kind, gets past the header.
THEOREM SourceOfChanges == Spec => []SourceKept
  <1>1. AuthorityInv => SourceKept
    BY DEF AuthorityInv
  <1> QED
    BY <1>1, AuthorityInvariant, PTL

\* ... and only under the configuration it was created in, although the code never
\* compares configurations.
THEOREM ConfigOfChanges == Spec => []ConfigKept
  <1>1. AuthorityInv => ConfigKept
    BY DEF AuthorityInv
  <1> QED
    BY <1>1, AuthorityInvariant, PTL

\* The checks of later requests never lock out who passed those of the creation.
THEOREM CreatorAccepted == Spec => []CreatorMayContinue
  <1>1. AuthorityInv => CreatorMayContinue
    <2> SUFFICES ASSUME AuthorityInv, NEW s \in session, NEW req \in s.reqs, config = s.under
                 PROVE  Accepts(config, s.header, req)
      BY DEF CreatorMayContinue
    <2>1. s.header = MetaOf(s.under, req) /\ IdendityValid(s.under, req, s.header)
      BY DEF AuthorityInv, OriginInv
    <2> QED
      BY <2>1 DEF Accepts, AuthorityValid
  <1> QED
    BY <1>1, AuthorityInvariant, PTL

\* Every variable holds what the program keeps in it.
THEOREM AuthorityTypes == Spec => []TypeOK
  <1>1. AuthorityInv => TypeOK
    BY DEF AuthorityInv
  <1> QED
    BY <1>1, AuthorityInvariant, PTL
=============================================================================
