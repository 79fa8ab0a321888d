------------------------------ MODULE Options ------------------------------
(***************************************************************************)
(* The options of agents, servers and services: options.go and the option  *)
(* functions of server.go and service.go in pkg/athyr.  An option is a     *)
(* record of its function's name, without the "Server" of the server's     *)
(* own, and its argument; options are applied in the order they are given. *)
(* Nil is a nil pointer and the empty string; durations are Nats.          *)
(***************************************************************************)
EXTENDS Naturals, Sequences, SequencesExt

CONSTANT Nil

Option(name, arg) == [name |-> name, arg |-> arg]

NoTLS == [tlsCertFile |-> Nil, tlsConfig |-> Nil, insecure |-> FALSE,
          systemTLS |-> FALSE]

\* Durations are in seconds.
defaultOptions ==
  NoTLS @@ [agentCard |-> [name |-> Nil, capabilities |-> <<>>],
            heartbeatInterval |-> 30, requestTimeout |-> 60,
            autoReconnect |-> FALSE, maxRetries |-> 0,
            baseBackoff |-> 1, maxBackoff |-> 30,
            onStateChange |-> Nil, logger |-> "nopLogger"]

-----------------------------------------------------------------------------
(* TLS: the same four options for agents and servers *)

WithTLS(o, certFile) ==
  [o EXCEPT !.tlsCertFile = certFile, !.insecure = FALSE]

WithTLSConfig(o, cfg) == [o EXCEPT !.tlsConfig = cfg, !.insecure = FALSE]

WithSystemTLS(o) ==
  [o EXCEPT !.systemTLS = TRUE, !.tlsCertFile = Nil, !.tlsConfig = Nil,
            !.insecure = FALSE]

WithInsecure(o) == [o EXCEPT !.insecure = TRUE]

TLSNames == {"WithTLS", "WithTLSConfig", "WithSystemTLS", "WithInsecure"}

ApplyTLS(o, opt) ==
  CASE opt.name = "WithTLS" -> WithTLS(o, opt.arg)
    [] opt.name = "WithTLSConfig" -> WithTLSConfig(o, opt.arg)
    [] opt.name = "WithSystemTLS" -> WithSystemTLS(o)
    [] opt.name = "WithInsecure" -> WithInsecure(o)

\* How the connection is made: its kind and what it is made with.
buildTransportCredentials(o) ==
  IF o.insecure THEN <<"insecure">>
  ELSE IF o.tlsConfig # Nil THEN <<"config", o.tlsConfig>>
  ELSE IF o.tlsCertFile # Nil THEN <<"file", o.tlsCertFile>>
  ELSE IF o.systemTLS THEN <<"system">>
  ELSE <<"insecure">>

-----------------------------------------------------------------------------
(* Agents *)

WithAgentCard(o, card) == [o EXCEPT !.agentCard = card]

WithCapabilities(o, caps) == [o EXCEPT !.agentCard.capabilities = caps]

WithAutoReconnect(o, arg) ==
  [o EXCEPT !.autoReconnect = TRUE, !.maxRetries = arg.maxRetries,
            !.baseBackoff = IF arg.baseBackoff > 0 THEN arg.baseBackoff ELSE @]

WithMaxBackoff(o, d) == [o EXCEPT !.maxBackoff = IF d > 0 THEN d ELSE @]

WithLogger(o, logger) ==
  [o EXCEPT !.logger = IF logger # Nil THEN logger ELSE @]

\* The options that only assign their argument.
Assign(o, opt) ==
  CASE opt.name = "WithHeartbeatInterval" -> [o EXCEPT !.heartbeatInterval = opt.arg]
    [] opt.name = "WithRequestTimeout" -> [o EXCEPT !.requestTimeout = opt.arg]
    [] opt.name = "WithConnectionCallback" -> [o EXCEPT !.onStateChange = opt.arg]

Apply(o, opt) ==
  CASE opt.name \in TLSNames -> ApplyTLS(o, opt)
    [] opt.name = "WithAgentCard" -> WithAgentCard(o, opt.arg)
    [] opt.name = "WithCapabilities" -> WithCapabilities(o, opt.arg)
    [] opt.name = "WithAutoReconnect" -> WithAutoReconnect(o, opt.arg)
    [] opt.name = "WithMaxBackoff" -> WithMaxBackoff(o, opt.arg)
    [] opt.name = "WithLogger" -> WithLogger(o, opt.arg)
    [] OTHER -> Assign(o, opt)

NewAgent(opts) == FoldLeft(Apply, defaultOptions, opts)

-----------------------------------------------------------------------------
(* Servers and services *)

ApplyServer(s, opt) ==
  CASE opt.name \in TLSNames -> ApplyTLS(s, opt)
    [] opt.name = "WithAgentName" -> [s EXCEPT !.agentName = opt.arg]
    [] opt.name = "WithAgentDescription" -> [s EXCEPT !.agentDesc = opt.arg]
    [] opt.name = "WithVersion" -> [s EXCEPT !.version = opt.arg]
    [] opt.name = "WithMiddleware" -> [s EXCEPT !.middleware = @ \o opt.arg]

NewServer(opts) ==
  FoldLeft(ApplyServer,
           NoTLS @@ [agentName |-> "service-agent", agentDesc |-> Nil,
                     version |-> "1.0.0", middleware |-> <<>>], opts)

ApplyService(svc, opt) ==
  CASE opt.name = "WithQueueGroup" -> [svc EXCEPT !.queueGroup = opt.arg]
    [] opt.name = "WithName" -> [svc EXCEPT !.name = opt.arg]
    [] opt.name = "WithServiceMiddleware" ->
         [svc EXCEPT !.middleware = @ \o opt.arg]

\* NewService and NewRawService differ in the handler only.
NewService(subject, opts) ==
  FoldLeft(ApplyService, [name |-> subject, subject |-> subject,
                          queueGroup |-> Nil, middleware |-> <<>>], opts)

\* A handler under middleware is the sequence of what runs, outermost first.
BuildHandler(svc, global) ==
  FoldRight(LAMBDA mw, handler : <<mw>> \o handler, global,
            FoldRight(LAMBDA mw, handler : <<mw>> \o handler, svc.middleware,
                      <<"handler">>))

\* The options Server.Run gives to its agent: what was set is told again.
AgentOptions(s) ==
  <<Option("WithAgentCard", [name |-> s.agentName, capabilities |-> <<>>])>>
  \o (IF s.insecure THEN <<Option("WithInsecure", Nil)>>
      ELSE IF s.tlsConfig # Nil THEN <<Option("WithTLSConfig", s.tlsConfig)>>
      ELSE IF s.tlsCertFile # Nil THEN <<Option("WithTLS", s.tlsCertFile)>>
      ELSE IF s.systemTLS THEN <<Option("WithSystemTLS", Nil)>>
      ELSE <<>>)

\* Run and RunRaw: the subject is the agent's name unless an option says else.
ensureAgentName(opts, subject) == <<Option("WithAgentName", subject)>> \o opts
=============================================================================
