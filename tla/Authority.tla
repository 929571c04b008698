------------------------------- MODULE Authority -------------------------------
(***************************************************************************)
(* Who may use a session.  The backend does not authenticate anybody: the  *)
(* web server or a trusted middleware in front of it does.  It records in  *)
(* the session's header where the session was created from (session_meta)  *)
(* and lets a later HTTP request pass only when it comes from there.       *)
(* Between two requests the server may be restarted with another           *)
(* SS_TRUSTED_MIDDLEWARE.  The command line tool asks nobody.              *)
(***************************************************************************)
EXTENDS Integers

CONSTANTS
    Source,        \* "<remote>(<port>)": where a request comes from
    Name,          \* names of users and groups
    NoName,        \* a NULL or empty string
    NoMiddleware   \* SS_TRUSTED_MIDDLEWARE is not set

ASSUME NamesAssumption == NoName \notin Name /\ NoMiddleware \notin Source

VARIABLES
    config,    \* SS_TRUSTED_MIDDLEWARE of the running server
    session,   \* the session's header and, as history, how it was created
    last       \* history: the last request that changed the session

vars == <<config, session, last>>

-----------------------------------------------------------------------------
\* enum idendity_provider
IDENDITY_CLI          == 0
IDENDITY_HTTP_PUBLIC  == 1
IDENDITY_HTTP_BASIC   == 2
IDENDITY_HTTP_DIGEST  == 3
IDENDITY_HTTP_TRUSTED == 4

Provider == IDENDITY_CLI..IDENDITY_HTTP_TRUSTED
Config   == Source \cup {NoMiddleware}

\* What a request says of its origin: auth and type are req->auth and
\* req->rawauth.type, login and realm its credentials, xuser and xgroup the
\* two X-SurveyProxy-Auth headers.
Request == [remote : Source, auth : BOOLEAN, type : {"none", "basic", "digest"},
            authorised : BOOLEAN, login : Name, realm : Name,
            xuser : Name \cup {NoName}, xgroup : Name \cup {NoName}]

\* struct session_meta, and the header answers @user, @group and @authority.
Meta == [provider : Provider, authority : Source \cup {NoName},
         user : Name \cup {NoName}, group : Name \cup {NoName}]

CliMeta == [provider |-> IDENDITY_CLI, authority |-> NoName, user |-> NoName, group |-> NoName]

\* Changes of a session: by whom and under which configuration.
Change == [by : Meta, under : Config]

\* get_autorisation_type: with a middleware registered every request is taken
\* for one of the middleware.
ProviderOf(c, req) ==
    CASE c # NoMiddleware                                    -> IDENDITY_HTTP_TRUSTED
      [] c = NoMiddleware /\ req.auth /\ req.type = "basic"  -> IDENDITY_HTTP_BASIC
      [] c = NoMiddleware /\ req.auth /\ req.type = "digest" -> IDENDITY_HTTP_DIGEST
      [] OTHER                                               -> IDENDITY_HTTP_PUBLIC

\* fcgi_request_parse_meta
MetaOf(c, req) ==
    LET p == ProviderOf(c, req)
    IN [provider  |-> p,
        authority |-> req.remote,
        user  |-> CASE p = IDENDITY_HTTP_TRUSTED -> req.xuser
                    [] p \in {IDENDITY_HTTP_BASIC, IDENDITY_HTTP_DIGEST} -> req.login
                    [] OTHER -> NoName,
        group |-> CASE p = IDENDITY_HTTP_TRUSTED -> req.xgroup
                    [] p = IDENDITY_HTTP_DIGEST  -> req.realm
                    [] OTHER -> NoName]

\* A bug for the mutation tests: the middleware's address is not compared.
Mut_IdendityValid(c, req, meta) ==
    meta.provider > IDENDITY_HTTP_PUBLIC => req.auth /\ req.authorised

\* fcgi_request_validate_session_idendity
IdendityValid(c, req, meta) ==
    /\ meta.provider > IDENDITY_HTTP_PUBLIC => req.auth /\ req.authorised
    /\ meta.provider = IDENDITY_HTTP_TRUSTED =>
           /\ meta.authority = c
           /\ meta.user # NoName
           /\ meta.group # NoName

\* A bug for the mutation tests: the provider's type is not compared.
Mut_AuthorityValid(header, meta) ==
    header.provider = IDENDITY_HTTP_TRUSTED => header.authority = meta.authority

\* A bug for the mutation tests: a group is required, although only two providers
\* have one.
Mut_AuthorityStrict(header, meta) ==
    /\ header.provider = meta.provider
    /\ header.group # NoName
    /\ header.authority = meta.authority

\* validate_session_authority: users and groups are not compared.
AuthorityValid(header, meta) ==
    /\ header.provider = meta.provider
    /\ header.provider = IDENDITY_HTTP_TRUSTED => header.authority = meta.authority

\* fcgi_request_load_and_verify_session, up to the session's state.
Accepts(c, header, req) ==
    /\ IdendityValid(c, req, MetaOf(c, req))
    /\ AuthorityValid(header, MetaOf(c, req))

-----------------------------------------------------------------------------
\* session and last are sets that are empty or hold one record.
Init == /\ config \in Config
        /\ session = {}
        /\ last = {}

Created(header, reqs) == [header |-> header, reqs |-> reqs, under |-> config]

\* A bug for the mutation tests: nobody looks whether the session exists.
Mut_CreateSession(req) ==
    /\ IdendityValid(config, req, MetaOf(config, req))
    /\ session' = session \cup {Created(MetaOf(config, req), {req})}
    /\ UNCHANGED <<config, last>>

\* /session: the meta of the request becomes the header of the session.
CreateSession(req) ==
    /\ session = {}
    /\ IdendityValid(config, req, MetaOf(config, req))
    /\ session' = {Created(MetaOf(config, req), {req})}
    /\ UNCHANGED <<config, last>>

\* newsession
CliNewSession ==
    /\ session = {}
    /\ session' = {Created(CliMeta, {})}
    /\ UNCHANGED <<config, last>>

\* /questions, /answers and /analysis: a request that is accepted saves the
\* session, whose header stays as it was loaded.
ChangeSession(req) ==
    /\ \E s \in session : Accepts(config, s.header, req)
    /\ last' = {[by |-> MetaOf(config, req), under |-> config]}
    /\ UNCHANGED <<config, session>>

\* addanswer and the other commands.
CliChangeSession ==
    /\ session # {}
    /\ last' = {[by |-> CliMeta, under |-> config]}
    /\ UNCHANGED <<config, session>>

\* delsession
RemoveSession ==
    /\ session # {}
    /\ session' = {}
    /\ last' = {}
    /\ UNCHANGED config

\* The server is restarted, with the same or another middleware.
Restart ==
    /\ config' \in Config
    /\ UNCHANGED <<session, last>>

Next == \/ \E req \in Request : CreateSession(req) \/ ChangeSession(req)
        \/ CliNewSession \/ CliChangeSession \/ RemoveSession \/ Restart

Spec == Init /\ [][Next]_vars

-----------------------------------------------------------------------------
\* Headers and changes are those of session_meta; there is one session.
TypeOK ==
    /\ config \in Config
    /\ \A s \in session : /\ s.header \in Meta /\ s.reqs \subseteq Request /\ s.under \in Config
                          /\ session = {s}
    /\ last \subseteq Change

\* Whatever the server's configuration was meanwhile, a session is changed over
\* HTTP only by requests of the provider that created it and, behind a
\* middleware, from the same address ("All requests within a session need to
\* come from the same middleware"); a session of the CLI is never changed so.
SourceKept ==
    \A s \in session : \A l \in last : l.by.provider # IDENDITY_CLI =>
        /\ l.by.provider = s.header.provider
        /\ l.by.provider = IDENDITY_HTTP_TRUSTED => l.by.authority = s.header.authority

\* A session is changed over HTTP only while the middleware it was created
\* through is registered, or none when there was none.  No check compares the
\* two configurations: it follows from how the provider is told from a request.
ConfigKept ==
    \A s \in session : \A l \in last : l.by.provider # IDENDITY_CLI => l.under = s.under

\* Who created a session may go on with it, with the request of the creation, as
\* long as the server has the configuration of the creation again.
CreatorMayContinue ==
    \A s \in session : \A req \in s.reqs :
        config = s.under => Accepts(config, s.header, req)
=============================================================================
