----------------------------- MODULE Connection -----------------------------
(***************************************************************************)
(* One connection handle (ConnHandle) through SQLDriverConnect in its      *)
(* three forms, SQLConnect, SQLDisconnect and the attribute calls: what    *)
(* its configuration and its client are made of.                           *)
(*                                                                         *)
(* The driver manager lets only legal calls through: a connection that it  *)
(* has been told is open is not opened again, one that is not open is not  *)
(* closed.  A call runs to its end before the next begins.                 *)
(***************************************************************************)
EXTENDS ConnectionString

CONSTANTS ConnectStrings,   \* connection strings the application uses
          Users,            \* user names it gives to SQLConnect, << >> for none
          Passwords,        \* likewise
          Environments,     \* what the environment variables may hold
          OutLength,        \* bound: length of the string SQLDriverConnect gives back
          MaxConnects       \* bound: calls that connect

ASSUME ConnectionAssumption ==
  /\ ConnectStrings \cup Users \cup Passwords \subseteq Seq(STRING)
  /\ NoValue \notin Seq(STRING)

NoClient == << >>

NoCall == [string |-> << >>, by |-> "none", user |-> << >>, password |-> << >>]

VARIABLES
  environment,   \* environment variables: endpoint, project, key, secret, proxy
  schemaModel,   \* the project has the schema model (odps.schema.model.enabled)
  config,        \* m_config
  client,        \* m_sdk: the configuration of the client, or NoClient
  told,          \* the driver manager has been told that the connection is open
  answer,        \* return code of the last call, SQLSTATE of the record it added
  given,         \* history: what the latest call that connects was given
  before,        \* history: the configuration that call stored into
  connects       \* history: calls that tried to connect

service == <<environment, schemaModel>>
handle == <<config, client, told>>
history == <<given, before, connects>>
connVars == <<service, handle, answer, history>>

\* The call adds a record to m_diag_records, from which nothing is ever removed.
Explain(code, state) == answer' = [code |-> code, state |-> state]

Succeed == answer' = [code |-> "SUCCESS", state |-> "none"]

ConnInit ==
  /\ environment \in Environments
  /\ schemaModel \in BOOLEAN
  /\ config = DefaultConfig
  /\ client = NoClient
  /\ told = FALSE
  /\ answer = [code |-> "SUCCESS", state |-> "none"]
  /\ given = NoCall
  /\ before = DefaultConfig
  /\ connects = 0

-----------------------------------------------------------------------------
(* The client                                                              *)

\* MaxComputeClientImpl asks for the project: when it is told, its own copy of
\* namespaceSchema follows the project; when not, the copy stays as it is.
NewClients(c) == {c, [c EXCEPT !.namespaceSchema = schemaModel]}

-----------------------------------------------------------------------------
(* SQLDriverConnect                                                        *)

\* A setting, or the environment variable for it when it is missing or empty.
OrEnvironment(value, variable) ==
  IF ~Given(value) /\ variable # NoValue THEN variable ELSE value

NamesFromEnvironment(c) ==
  [c EXCEPT !.accessKeyId     = OrEnvironment(@, environment.accessKeyId),
            !.accessKeySecret = OrEnvironment(@, environment.accessKeySecret),
            !.endpoint        = OrEnvironment(@, environment.endpoint),
            !.project         = OrEnvironment(@, environment.project)]

\* The proxy variable for the scheme of the endpoint; the user is taken from its URL.
ProxyFromEnvironment(c) ==
  IF c.httpProxy = NoValue /\ Given(environment.proxy)
  THEN [c EXCEPT !.httpProxy = environment.proxy,
                 !.proxyUser = IF @ = NoValue /\ UrlUser(environment.proxy) # << >>
                               THEN UrlUser(environment.proxy) ELSE @]
  ELSE c

IsComplete(c) == Given(c.endpoint) /\ Given(c.project) /\ hasValidCredentials(c)

FailToConnect ==
  /\ Explain("ERROR", "08001")
  /\ UNCHANGED <<client, told>>

\* Whether the caller may be told that the string it gets back is cut: it has to ask
\* for the length.  The wide form hands the size of its buffer on as a number of bytes
\* and fills only half of it, but tells by the same comparison.
CutIsReported ==
  {asksLength /\ buffer > 0 /\ OutLength > buffer - 1 :
     buffer \in 0 .. OutLength + 1, asksLength \in BOOLEAN}

Connected(cut) ==
  /\ told' = TRUE
  /\ IF cut THEN Explain("SUCCESS_WITH_INFO", "01004") ELSE Succeed

\* The live configuration is updated first, and whatever goes wrong later leaves it so.
DriverConnect(s, cut) ==
  LET update == updateConfig(s, config)
      filled == ProxyFromEnvironment(NamesFromEnvironment(update.config))
  IN  /\ ~told
      /\ connects < MaxConnects
      /\ connects' = connects + 1
      /\ given' = [string |-> s, by |-> "SQLDriverConnect",
                   user |-> << >>, password |-> << >>]
      /\ before' = config
      /\ config' = IF update.threw THEN update.config ELSE filled
      /\ \/ (update.threw \/ ~IsComplete(filled)) /\ FailToConnect
         \/ /\ ~update.threw /\ IsComplete(filled)
            /\ client' \in NewClients(filled)
            /\ Connected(cut)
      /\ UNCHANGED service

SQLDriverConnect ==
  \E s \in ConnectStrings, cut \in CutIsReported : DriverConnect(s, cut)

SQLDriverConnectA ==
  \E s \in ConnectStrings, cut \in CutIsReported : DriverConnect(s, cut)

SQLDriverConnectW ==
  \E s \in ConnectStrings, cut \in CutIsReported : DriverConnect(s, cut)

-----------------------------------------------------------------------------
(* SQLConnect and SQLDisconnect                                            *)

ParametersOfConnect(s, user, password) ==
  LET parsed == parse(s)
  IN  [parsed EXCEPT !.accessKeyId     = IF user # << >> THEN user ELSE @,
                     !.accessKeySecret = IF password # << >> THEN password ELSE @]

\* A name without "=" is looked up nowhere.
RefuseDsn(s) ==
  /\ Find(s, "=", 1) = 0
  /\ Explain("ERROR", "IM002")
  /\ UNCHANGED <<config, client, told, given, before>>

\* A MaxQA session that cannot be opened is an error, but the client stays.
OpenSession ==
  \/ Connected(FALSE)
  \/ /\ config'.interactiveMode
     /\ Explain("ERROR", "08001") /\ UNCHANGED told

SQLConnect ==
  \E s \in ConnectStrings, user \in Users, password \in Passwords :
    /\ ~told
    /\ connects < MaxConnects
    /\ connects' = connects + 1
    /\ \/ RefuseDsn(s)
       \/ /\ Find(s, "=", 1) # 0
          /\ config' = ParametersOfConnect(s, user, password)
          /\ given' = [string |-> s, by |-> "SQLConnect",
                       user |-> user, password |-> password]
          /\ before' = DefaultConfig
          /\ \/ ~validate(config') /\ FailToConnect
             \/ /\ validate(config')
                /\ client' \in NewClients(config')
                /\ OpenSession
    /\ UNCHANGED service

\* The configuration stays.
SQLDisconnect ==
  /\ told
  /\ told' = FALSE
  /\ client' = NoClient
  /\ Succeed
  /\ UNCHANGED <<service, config, history>>

-----------------------------------------------------------------------------
(* Attributes: nothing an application sets has an effect.                  *)

KnownAttributes ==
  {"AUTOCOMMIT", "TXN_ISOLATION", "CONNECTION_DEAD", "ANSI_APP", "PACKET_SIZE"}

SetConnectAttr ==
  /\ \/ Explain("SUCCESS", "01S02")     \* AUTOCOMMIT_OFF
     \/ Succeed                         \* every other attribute and value
  /\ UNCHANGED <<service, handle, history>>

GetConnectAttr ==
  /\ \E attribute \in KnownAttributes \cup {"other"} :
       \/ attribute \in KnownAttributes /\ Succeed
       \/ attribute \notin KnownAttributes /\ Explain("ERROR", "HYC00")
  /\ UNCHANGED <<service, handle, history>>

SQLSetConnectAttr  == SetConnectAttr
SQLSetConnectAttrW == SetConnectAttr
SQLGetConnectAttr  == GetConnectAttr
SQLGetConnectAttrW == GetConnectAttr

-----------------------------------------------------------------------------
ConnNext ==
  \/ SQLDriverConnect \/ SQLDriverConnectA \/ SQLDriverConnectW
  \/ SQLConnect \/ SQLDisconnect
  \/ SQLSetConnectAttr \/ SQLSetConnectAttrW
  \/ SQLGetConnectAttr \/ SQLGetConnectAttrW
-----------------------------------------------------------------------------
(* Properties                                                              *)

TextSettings == {"endpoint", "project", "accessKeyId", "accessKeySecret"}

\* What a call gave, in order, as the plain parser reads its string: up to a bad number
\* when it was stored by updateConfig, then the user and the password.
GivenBy(g) ==
  LET pairs == parseDriverConnectString(g.string)
      Argument(k, v) == IF v = << >> THEN << >> ELSE <<[key |-> k, value |-> v]>>
  IN  (IF g.by = "SQLDriverConnect" THEN BeforeThrow(pairs) ELSE pairs)
        \o Argument("accesskeyid", g.user) \o Argument("accesskeysecret", g.password)

\* The places in it where it gave a value for the setting, and the last such value.
About(g, setting) ==
  LET keys == IF g.by = "SQLDriverConnect" THEN UpdateKeys ELSE TextKeys
      pairs == GivenBy(g)
  IN  {i \in DOMAIN pairs : pairs[i].key \in DOMAIN keys /\ keys[pairs[i].key] = setting}

LastValue(g, setting) == GivenBy(g)[Max(About(g, setting))].value

\* The value this call gave last, or the environment's when it is empty or missing.
Promised(setting) ==
  IF About(given, setting) # {} /\ LastValue(given, setting) # << >>
  THEN LastValue(given, setting) ELSE environment[setting]

\* SQLDriverConnect stores into the live configuration: a setting its string does not
\* name still has the value of an earlier call, a failed one too, and that value keeps
\* the environment out.  The comments of entry_points.cpp (1569-1570, 1587-1588) say
\* that the environment is taken when the connection string does not name the setting.
LeftOver(setting) == About(given, setting) = {} /\ Given(before[setting])

\* An open connection has a client.  When the string of the call that opened it was a
\* plain list of keys and values, the client goes to the endpoint and the project, with
\* the key, that this call gave last, or else to those of the environment: the two
\* parsers that scan for "=" (config.cpp 130-153, 332-353) agree with splitting the
\* string at ";", and nothing that earlier calls gave comes before what this one gave.
\* Two exceptions, both disagreements of the code with what it is documented to do: a
\* setting that is LeftOver, and a string with quotes, blanks or a piece without "=",
\* of which the parsers may lose the parameter that follows (config.cpp 380).
ConnectedAsGiven ==
  told =>
    /\ client # NoClient
    /\ IsPlain(given.string) =>
         \A setting \in TextSettings :
           LeftOver(setting) \/ client[setting] = Promised(setting)

=============================================================================
