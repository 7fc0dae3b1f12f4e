---------------------------- MODULE MySQLServer ----------------------------
(***************************************************************************)
(* The MySQL protocol server: mysql/server.go, mysql/protocol.go, and the  *)
(* credentials it checks, auth/auth.go.                                    *)
(*                                                                         *)
(* Processes: the accept loop, one goroutine for each connection, the      *)
(* caller of Stop, and the clients.  A statement holds the engine's lock,  *)
(* so its execution is one step; the credentials have a lock of their own, *)
(* which the steps of the authentication take one by one, so that a SET on *)
(* another connection may come in between.                                 *)
(*                                                                         *)
(* A packet is its kind, a count where it has one, and its sequence number *)
(* (a byte; ByteMod is 256 in the code).  That a token proves knowledge of  *)
(* a password (SHA1 with the salt of the connection) is taken for granted. *)
(***************************************************************************)
EXTENDS Integers, Sequences, FiniteSets

CONSTANTS Conn,         \* connections that clients may open
          User,         \* user names, "" among them
          Password,     \* passwords, "" among them
          Login,        \* names and passwords that clients present
          Plugin,       \* the authentication plugins clients use
          RequireAuth,  \* Config.RequireAuth
          ByteMod,       \* values of a sequence number
          Param,        \* numbers of placeholders of prepared statements
          MaxCommands,  \* bound on the commands of all clients
          MaxSets       \* bound on changes of the credentials

Native == "mysql_native_password"
ASSUME ServerAssumption ==
    /\ "" \in User /\ "" \in Password /\ RequireAuth \in BOOLEAN
    /\ Login \subseteq User \X Password
    /\ ByteMod \in Nat \ {0} /\ Param \subseteq Nat
    /\ "none" \notin Conn

VARIABLES cred,        \* e.auth: enabled, username, password (NoPassword: no hash)
          shutdown,    \* s.shutdown
          listener,    \* "open" or "closed"
          stopPc,      \* where Stop is: "no", "flagged", "swept", "done"
          loop,        \* acceptLoop: "accept" or "ended"
          hand,        \* the connection acceptLoop has accepted and not yet registered
          clients,     \* s.clients
          phase,       \* where the goroutine of a connection is
          sock,        \* the socket of a connection
          login,       \* what the client of a connection presents while it logs in
          stmts,       \* client.statements: placeholders by statement id
          counter,     \* s.stmtIDCounter
          wire,        \* packets written and not yet read by the client
          awaits,      \* what the client waits for
          cseq,        \* the sequence number the client expects next
          mine,        \* the statements the client believes it has prepared
          commands, sets,
          seen,        \* history: the credentials in force while a connection logged in
          columnless   \* history: connections that got a result without columns

serverVars == <<shutdown, listener, stopPc, loop, hand, clients>>
connVars == <<phase, sock, login, stmts, counter>>
clientVars == <<wire, awaits, cseq, mine, commands>>
credVars == <<cred, sets, seen>>
vars == <<serverVars, connVars, clientVars, credVars, columnless>>

None == "none"
NoPassword == "no password"
NoLogin == [user |-> "", password |-> "", switched |-> FALSE]

Cred == [enabled : BOOLEAN, username : User, password : Password \cup {NoPassword}]

\* SetCredentials: an empty password is no password.
SetCredentials(u, p) ==
    [enabled |-> u # "", username |-> u, password |-> IF p = "" THEN NoPassword ELSE p]

Init ==
    /\ cred \in {SetCredentials(l[1], l[2]) : l \in {k \in Login : k[1] # "" /\ k[2] # ""}}
    /\ shutdown = FALSE /\ listener = "open" /\ stopPc = "no"
    /\ loop = "accept" /\ hand = None /\ clients = {}
    /\ phase = [c \in Conn |-> "none"] /\ sock = [c \in Conn |-> "new"]
    /\ login = [c \in Conn |-> NoLogin]
    /\ stmts = [c \in Conn |-> << >>] /\ counter = 0
    /\ wire = [c \in Conn |-> << >>] /\ awaits = [c \in Conn |-> None]
    /\ cseq = [c \in Conn |-> 0] /\ mine = [c \in Conn |-> << >>]
    /\ commands = 0 /\ sets = 0
    /\ seen = [c \in Conn |-> {}] /\ columnless = {}

----------------------------------------------------------------------------
(* Packets.                                                                 *)

Packet(kind, n) == [kind |-> kind, n |-> n]

\* writePacketInternal: each packet gets the next number of the writer.
Numbered(packets, from) ==
    [i \in 1..Len(packets) |-> [kind |-> packets[i].kind, n |-> packets[i].n,
                                seq |-> (from + i - 1) % ByteMod]]

\* WriteResultHeader, WriteColumnDefinition, WriteRowData, WriteEOF.
ResultSet(columns, rows) ==
    <<Packet("header", columns)>>
    \o [i \in 1..columns |-> Packet("column", 0)] \o <<Packet("eof", 0)>>
    \o [i \in 1..rows |-> Packet("row", 0)] \o <<Packet("eof", 0)>>

OK == <<Packet("ok", 0)>>
Error == <<Packet("error", 0)>>

\* The reply reaches the client unless the socket is closed.
Write(c, packets, from) ==
    wire' = [wire EXCEPT ![c] = IF sock[c] = "open" THEN @ \o Numbered(packets, from) ELSE @]

----------------------------------------------------------------------------
(* Credentials.                                                             *)

\* Mutant of verifyPassword: a response that is empty is let through.
verifyPasswordLax(presented, stored) == presented = "" \/ presented = stored

\* verifyMysqlNativePasswordWithSha1: a client without a password sends an empty
\* response, which is refused for its length.
verifyPassword(presented, stored) == presented # "" /\ presented = stored

LoggingIn == {c \in Conn : phase[c] \notin {"none", "command", "leaving", "left"}}

\* The credentials change: connections that log in have seen both.
SetCred(k) ==
    /\ sets < MaxSets /\ sets' = sets + 1
    /\ cred' = k
    /\ seen' = [c \in Conn |-> IF c \in LoggingIn THEN seen[c] \cup {k} ELSE seen[c]]

----------------------------------------------------------------------------
(* The accept loop and Stop.                                                *)

\* A client connects; the kernel keeps the connection until it is accepted.
Dial(c) ==
    /\ sock[c] = "new" /\ listener = "open"
    /\ sock' = [sock EXCEPT ![c] = "pending"]
    /\ awaits' = [awaits EXCEPT ![c] = "handshake"]
    /\ UNCHANGED <<serverVars, phase, login, stmts, counter, wire, cseq, mine, commands,
                   credVars, columnless>>

\* acceptLoop: Accept returns a connection.
Accept(c) ==
    /\ loop = "accept" /\ hand = None /\ listener = "open" /\ sock[c] = "pending"
    /\ hand' = c
    /\ sock' = [sock EXCEPT ![c] = "open"]
    /\ UNCHANGED <<shutdown, listener, stopPc, loop, clients, phase, login, stmts, counter,
                   clientVars, credVars, columnless>>

\* acceptLoop: the connection is registered and its goroutine started.
Register ==
    /\ hand # None
    /\ clients' = clients \cup {hand}
    /\ phase' = [phase EXCEPT ![hand] = "greet"]
    /\ seen' = [seen EXCEPT ![hand] = {cred}]
    /\ hand' = None
    /\ UNCHANGED <<shutdown, listener, stopPc, loop, sock, login, stmts, counter,
                   clientVars, cred, sets, columnless>>

\* acceptLoop: Accept fails on the closed listener.
AcceptFails ==
    /\ loop = "accept" /\ hand = None /\ listener = "closed"
    /\ shutdown
    /\ loop' = "ended"
    /\ UNCHANGED <<shutdown, listener, stopPc, hand, clients, connVars, clientVars, credVars, columnless>>

\* Mutant of StopFlag: the flag is not raised, and the accept loop goes on trying.
StopFlagForgets ==
    /\ stopPc = "no"
    /\ stopPc' = "flagged"
    /\ UNCHANGED <<shutdown, listener, loop, hand, clients, connVars, clientVars, credVars, columnless>>

\* Stop, first part: the flag.
StopFlag ==
    /\ stopPc = "no"
    /\ shutdown' = TRUE /\ stopPc' = "flagged"
    /\ UNCHANGED <<listener, loop, hand, clients, connVars, clientVars, credVars, columnless>>

\* Stop, second part: the registered connections are closed.
StopSweep ==
    /\ stopPc = "flagged"
    /\ stopPc' = "swept"
    /\ sock' = [c \in Conn |-> IF c \in clients /\ sock[c] = "open" THEN "closed" ELSE sock[c]]
    /\ UNCHANGED <<shutdown, listener, loop, hand, clients, phase, login, stmts, counter,
                   clientVars, credVars, columnless>>

\* Stop, third part: the listener is closed, and with it what was not accepted.
StopListener ==
    /\ stopPc = "swept"
    /\ stopPc' = "done" /\ listener' = "closed"
    /\ sock' = [c \in Conn |-> IF sock[c] = "pending" THEN "closed" ELSE sock[c]]
    /\ UNCHANGED <<shutdown, loop, hand, clients, phase, login, stmts, counter,
                   clientVars, credVars, columnless>>

----------------------------------------------------------------------------
(* The goroutine of a connection, up to the command loop.                   *)

\* The goroutine goes on to another phase; a read or write of a closed socket fails and
\* ends it.
Goes(c, from, to) ==
    /\ phase[c] = from /\ phase' = [phase EXCEPT ![c] = to]

\* sendHandshake.
sendHandshake(c) ==
    /\ Goes(c, "greet", IF sock[c] = "open" THEN "login" ELSE "leaving")
    /\ Write(c, <<Packet("handshake", 0)>>, 0)
    /\ UNCHANGED <<serverVars, sock, login, stmts, counter, awaits, cseq, mine, commands,
                   credVars, columnless>>

Unwritten == UNCHANGED <<serverVars, sock, login, stmts, counter, clientVars, credVars, columnless>>

\* handleAuth, the tests in the order of the code, each reading the credentials anew: with
\* RequireAuth there must be credentials;
AuthRequired(c) ==
    /\ Goes(c, "required", IF RequireAuth /\ ~cred.enabled THEN "refuse" ELSE "enabled")
    /\ Unwritten

\* without credentials anybody is admitted;
AuthEnabled(c) ==
    /\ Goes(c, "enabled", IF cred.enabled THEN "user" ELSE "admit")
    /\ Unwritten

\* the name must be the one configured, if there is one, and the client's plugin decides how
\* it goes on;
AuthUser(c) ==
    /\ \E plugin \in Plugin :
         Goes(c, "user", IF cred.username \notin {"", login[c].user} THEN "refuse"
                         ELSE IF plugin = Native THEN "token" ELSE "switch")
    /\ Unwritten

\* and the token must be one of the password; otherwise the client may try again.
AuthToken(c) ==
    /\ Goes(c, "token", IF cred.password = NoPassword \/ verifyPassword(login[c].password, cred.password)
                        THEN "admit" ELSE "switch")
    /\ Unwritten

\* sendAuthSwitchRequest: the client is asked for a token of the native plugin,
sendAuthSwitchRequest(c) ==
    /\ Goes(c, "switch", IF sock[c] = "open" THEN "switchWait" ELSE "refuse")
    /\ Write(c, <<Packet("switch", 0)>>, 2)
    /\ UNCHANGED <<serverVars, sock, login, stmts, counter, awaits, cseq, mine, commands,
                   credVars, columnless>>

\* and the tests are made again.
SwitchedEnabled(c) ==
    /\ Goes(c, "switched", IF cred.enabled THEN "switchedUser" ELSE "admit")
    /\ Unwritten

SwitchedUser(c) ==
    /\ Goes(c, "switchedUser", IF cred.username \in {"", login[c].user} THEN "switchedToken" ELSE "refuse")
    /\ Unwritten

SwitchedToken(c) ==
    /\ Goes(c, "switchedToken",
            IF cred.password = NoPassword \/ verifyPassword(login[c].password, cred.password)
            THEN "admit" ELSE "refuse")
    /\ Unwritten

\* client.authSeq: the number of the packet that ends the login, with or without a switch.
authSeq(c) == IF login[c].switched THEN 4 ELSE 2

\* The login is over; what the client presented is not looked at again.
LoggedIn(c) ==
    /\ login' = [login EXCEPT ![c] = NoLogin] /\ seen' = [seen EXCEPT ![c] = {}]
    /\ UNCHANGED <<serverVars, sock, stmts, counter, awaits, cseq, mine, commands, cred, sets, columnless>>

\* Mutant of Admit: the OK packet is numbered as if there had been no switch.
AdmitDirect(c) ==
    /\ Goes(c, "admit", IF sock[c] = "open" THEN "command" ELSE "leaving")
    /\ Write(c, OK, 2)
    /\ LoggedIn(c)

\* handleConnection: the OK packet, and the command loop.
Admit(c) ==
    /\ Goes(c, "admit", IF sock[c] = "open" THEN "command" ELSE "leaving")
    /\ Write(c, OK, authSeq(c))
    /\ LoggedIn(c)

\* handleConnection: the error packet, and the end.
Refuse(c) ==
    /\ Goes(c, "refuse", "leaving")
    /\ Write(c, Error, authSeq(c))
    /\ LoggedIn(c)

\* Mutant of ReadFails: the read after the request to switch does not notice.
ReadFailsPartly(c) ==
    /\ phase[c] \in {"login", "command"} /\ sock[c] = "closed"
    /\ phase' = [phase EXCEPT ![c] = "leaving"]
    /\ Unwritten

\* A read from a closed socket fails.
ReadFails(c) ==
    /\ phase[c] \in {"login", "switchWait", "command"} /\ sock[c] = "closed"
    /\ phase' = [phase EXCEPT ![c] = IF @ = "switchWait" THEN "refuse" ELSE "leaving"]
    /\ Unwritten

\* The deferred function of handleConnection: the socket is closed and the connection
\* removed from s.clients; its statements and its user are gone with it.
Leave(c) ==
    /\ Goes(c, "leaving", "left")
    /\ sock' = [sock EXCEPT ![c] = "closed"]
    /\ clients' = clients \ {c}
    /\ login' = [login EXCEPT ![c] = NoLogin]
    /\ stmts' = [stmts EXCEPT ![c] = << >>] /\ mine' = [mine EXCEPT ![c] = << >>]
    /\ wire' = [wire EXCEPT ![c] = << >>] /\ awaits' = [awaits EXCEPT ![c] = "gone"]
    /\ cseq' = [cseq EXCEPT ![c] = 0]
    /\ seen' = [seen EXCEPT ![c] = {}] /\ columnless' = columnless \ {c}
    /\ UNCHANGED <<shutdown, listener, stopPc, loop, hand, counter, commands, cred, sets>>

----------------------------------------------------------------------------
(* The command loop.                                                        *)

\* What a text statement does in the engine: a result set (of one column), an OK, an
\* error; or a change of the credentials (executeSet: SET USER forgets the password).
\* Statements on information_schema are answered by handleInfoSchemaQuery instead.
Statements == {"rows", "dml", "bad", "info"}
SetStatements == {[set |-> "user", to |-> u] : u \in User} \cup
                 {[set |-> "password", to |-> p] : p \in Password}

QueryReply(s) ==
    CASE s = "rows" -> ResultSet(1, 2)
      [] s = "dml" -> OK
      [] s = "bad" -> Error
      [] s = "info" -> ResultSet(1, 2)

\* A client that has its last reply sends a command, which the goroutine reads at once.
Sends(c, command) ==
    /\ phase[c] = "command" /\ sock[c] = "open" /\ awaits[c] = "ready" /\ wire[c] = << >>
    /\ commands < MaxCommands /\ commands' = commands + 1
    /\ awaits' = [awaits EXCEPT ![c] = command]
    /\ cseq' = [cseq EXCEPT ![c] = IF command \in {"ready", "gone"} THEN 0 ELSE 1 % ByteMod]
    /\ UNCHANGED <<serverVars, sock, login>>

\* COM_PING, COM_INIT_DB, COM_STATISTICS, COM_FIELD_LIST and unknown commands.
SimpleCommand(c) ==
    /\ \E r \in {<<"ping", OK>>, <<"statistics", <<Packet("text", 0)>>>>,
                 <<"field list", <<Packet("eof", 0)>>>>, <<"unknown", Error>>} :
         Sends(c, r[1]) /\ Write(c, r[2], 1)
    /\ UNCHANGED <<phase, stmts, counter, mine, credVars, columnless>>

\* COM_QUERY: handleQuery.
handleQuery(c) ==
    /\ Sends(c, "query")
    /\ \/ /\ \E s \in Statements : Write(c, QueryReply(s), 1)
          /\ UNCHANGED credVars
       \/ /\ \E s \in SetStatements :
               SetCred(IF s.set = "user" THEN SetCredentials(s.to, "")
                       ELSE SetCredentials(cred.username, s.to))
          /\ Write(c, OK, 1)
    /\ UNCHANGED <<phase, stmts, counter, mine, columnless>>

\* COM_STMT_PREPARE: handleStmtPrepare.  Ids come from a counter of the server.
handleStmtPrepare(c) ==
    /\ Sends(c, "prepare")
    /\ counter' = counter + 1
    /\ \E n \in Param :
         /\ stmts' = [stmts EXCEPT ![c] = [i \in DOMAIN @ \cup {counter'} |-> IF i = counter' THEN n ELSE @[i]]]
         /\ mine' = [mine EXCEPT ![c] = [i \in DOMAIN @ \cup {counter'} |-> IF i = counter' THEN n ELSE @[i]]]
         /\ Write(c, <<Packet("prepared", n)>> \o [i \in 1..n |-> Packet("column", 0)]
                      \o (IF n > 0 THEN <<Packet("eof", 0)>> ELSE << >>), 1)
    /\ UNCHANGED <<phase, credVars, columnless>>

\* COM_STMT_EXECUTE: handleStmtExecute of a statement of any id.  A result without columns
\* (a table of information_schema that the engine does not know) is a header and an EOF.
handleStmtExecute(c) ==
    /\ Sends(c, "execute")
    /\ \E id \in 1..MaxCommands :
         \/ /\ id \notin DOMAIN stmts[c]
            /\ Write(c, Error, 1)
            /\ UNCHANGED columnless
         \/ /\ id \in DOMAIN stmts[c]
            /\ \/ /\ \E s \in Statements \ {"info"} : Write(c, QueryReply(s), 1)
                  /\ UNCHANGED columnless
               \/ /\ Write(c, <<Packet("header", 0), Packet("eof", 0)>>, 1)
                  /\ columnless' = columnless \cup {c}
    /\ UNCHANGED <<phase, stmts, counter, mine, credVars>>

\* COM_STMT_CLOSE: handleStmtClose, which sends no reply.
handleStmtClose(c) ==
    /\ Sends(c, "ready")
    /\ \E id \in DOMAIN mine[c] :
         /\ stmts' = [stmts EXCEPT ![c] = [i \in DOMAIN @ \ {id} |-> @[i]]]
         /\ mine' = [mine EXCEPT ![c] = [i \in DOMAIN @ \ {id} |-> @[i]]]
    /\ UNCHANGED <<phase, counter, wire, credVars, columnless>>

\* COM_QUIT.
Quit(c) ==
    /\ Sends(c, "gone")
    /\ phase' = [phase EXCEPT ![c] = "leaving"]
    /\ UNCHANGED <<stmts, counter, wire, mine, credVars, columnless>>

----------------------------------------------------------------------------
(* Clients.                                                                 *)

\* A client reads the packets of a reply.
Reads(c, kind) ==
    /\ wire[c] # << >> /\ Head(wire[c]).kind = kind
    /\ wire' = [wire EXCEPT ![c] = << >>]

\* The client answers the handshake with a name and a token.
ClientLogin(c) ==
    /\ awaits[c] = "handshake" /\ Reads(c, "handshake")
    /\ awaits' = [awaits EXCEPT ![c] = "login"]
    /\ cseq' = [cseq EXCEPT ![c] = 2 % ByteMod]
    /\ phase[c] = "login" /\ phase' = [phase EXCEPT ![c] = "required"]
    /\ \E l \in Login : login' = [login EXCEPT ![c] = [user |-> l[1], password |-> l[2], switched |-> FALSE]]
    /\ UNCHANGED <<serverVars, sock, stmts, counter, mine, commands, credVars, columnless>>

\* The client answers the request to switch with a token of the native plugin.
ClientSwitch(c) ==
    /\ awaits[c] = "login" /\ Reads(c, "switch")
    /\ login' = [login EXCEPT ![c].switched = TRUE]
    /\ cseq' = [cseq EXCEPT ![c] = 4 % ByteMod]
    /\ phase[c] = "switchWait" /\ phase' = [phase EXCEPT ![c] = "switched"]
    /\ UNCHANGED <<serverVars, sock, stmts, counter, awaits, mine, commands, credVars, columnless>>

\* The client has the reply to its login or its command.
ClientReply(c) ==
    /\ awaits[c] \notin {None, "handshake", "ready", "gone"}
    /\ wire[c] # << >> /\ Head(wire[c]).kind # "switch"
    /\ wire' = [wire EXCEPT ![c] = << >>]
    /\ awaits' = [awaits EXCEPT ![c] =
                     IF (awaits[c] = "login" /\ Head(wire[c]).kind = "error") \/ c \in columnless
                     THEN "gone" ELSE "ready"]
    /\ cseq' = [cseq EXCEPT ![c] = 0]
    /\ UNCHANGED <<serverVars, connVars, mine, commands, credVars, columnless>>

\* The client disappears.
Disconnect(c) ==
    /\ sock[c] = "open"
    /\ sock' = [sock EXCEPT ![c] = "closed"]
    /\ awaits' = [awaits EXCEPT ![c] = "gone"] /\ wire' = [wire EXCEPT ![c] = << >>]
    /\ cseq' = [cseq EXCEPT ![c] = 0]
    /\ UNCHANGED <<serverVars, phase, login, stmts, counter, mine, commands,
                   credVars, columnless>>

----------------------------------------------------------------------------
Server(c) ==
    \/ sendHandshake(c) \/ AuthRequired(c) \/ AuthEnabled(c) \/ AuthUser(c) \/ AuthToken(c)
    \/ sendAuthSwitchRequest(c) \/ SwitchedEnabled(c) \/ SwitchedUser(c) \/ SwitchedToken(c)
    \/ Admit(c) \/ Refuse(c) \/ ReadFails(c) \/ Leave(c)

Commands(c) ==
    \/ SimpleCommand(c) \/ handleQuery(c) \/ handleStmtPrepare(c) \/ handleStmtExecute(c)
    \/ handleStmtClose(c) \/ Quit(c)

Client(c) ==
    \/ Dial(c) \/ ClientLogin(c) \/ ClientSwitch(c) \/ ClientReply(c) \/ Disconnect(c)

Stop == StopFlag \/ StopSweep \/ StopListener

Next ==
    \/ \E c \in Conn : Accept(c) \/ Server(c) \/ Commands(c) \/ Client(c)
    \/ Register \/ AcceptFails
    \/ Stop

Spec == Init /\ [][Next]_vars

\* The Go scheduler runs every goroutine that can go on; nothing makes clients do
\* anything or anybody call Stop.
Fairness ==
    /\ WF_vars(Register) /\ WF_vars(AcceptFails)
    /\ WF_vars(StopSweep \/ StopListener)
    /\ \A c \in Conn : WF_vars(Server(c))

FairSpec == Spec /\ Fairness

----------------------------------------------------------------------------
(* Properties.                                                              *)

\* What the variables hold.
TypeOK ==
    /\ cred \in Cred
    /\ clients \subseteq Conn /\ hand \in Conn \cup {None}
    /\ sock \in [Conn -> {"new", "pending", "open", "closed"}]
    /\ \A c \in Conn : \A i \in 1..Len(wire[c]) : wire[c][i].seq \in 0..(ByteMod - 1)
    /\ cseq \in [Conn -> 0..(ByteMod - 1)]
    /\ \A c \in Conn : (c \in clients) <=> (phase[c] \notin {"none", "left"})

Admits(k, user, password) ==
    \/ ~k.enabled /\ ~RequireAuth
    \/ /\ k.enabled
       /\ k.username \in {"", user}
       /\ k.password = NoPassword \/ verifyPassword(password, k.password)

\* A connection about to be admitted has passed each test of handleAuth against
\* credentials that were in force while it logged in; if they did not change meanwhile,
\* it knows the name and the password.
AdmittedLegitimately ==
    \A c \in Conn : phase[c] = "admit" =>
        /\ Cardinality(seen[c]) = 1 => \A k \in seen[c] : Admits(k, login[c].user, login[c].password)
        /\ RequireAuth => \E k \in seen[c] : k.enabled
        /\ \/ \E k \in seen[c] : ~k.enabled
           \/ /\ \E k \in seen[c] : k.username \in {"", login[c].user}
              /\ \E k \in seen[c] : k.password \in {NoPassword, login[c].password}

\* The replies a client may get to what it waits for.
IsResultSet(p) ==
    /\ p[1].kind = "header" /\ p[1].n > 0 /\ Len(p) >= p[1].n + 3
    /\ \A i \in 1..Len(p) : p[i].kind =
          IF i = 1 THEN "header" ELSE IF i <= p[1].n + 1 THEN "column"
          ELSE IF i \in {p[1].n + 2, Len(p)} THEN "eof" ELSE "row"

IsReply(p, to) ==
    LET kinds == [i \in 1..Len(p) |-> p[i].kind]
    IN  CASE to = "handshake" -> kinds = <<"handshake">>
          [] to = "login" -> kinds \in {<<"ok">>, <<"error">>, <<"switch">>}
          [] to = "ping" -> kinds = <<"ok">>
          [] to = "statistics" -> kinds = <<"text">>
          [] to = "field list" -> kinds = <<"eof">>
          [] to = "unknown" -> kinds = <<"error">>
          [] to = "prepare" -> /\ p[1].kind = "prepared"
                               /\ Len(p) = IF p[1].n = 0 THEN 1 ELSE p[1].n + 2
          [] to \in {"query", "execute"} -> kinds \in {<<"ok">>, <<"error">>} \/ IsResultSet(p)
          [] OTHER -> FALSE

\* The client and the server stay in step: what is on the wire is one whole reply to what
\* the client waits for, numbered from the number it expects, for any length of the
\* reply; only a result without columns breaks this.
InSync ==
    \A c \in Conn : wire[c] # << >> /\ c \notin columnless /\ awaits[c] # "gone" =>
        /\ IsReply(wire[c], awaits[c])
        /\ \A i \in 1..Len(wire[c]) : wire[c][i].seq = (cseq[c] + i - 1) % ByteMod

\* The prepared statements of a connection are those its client believes in, and no id
\* is used by two connections.
StatementsAgree ==
    \A c \in Conn :
        /\ stmts[c] = mine[c]
        /\ \A d \in Conn \ {c} : DOMAIN stmts[c] \cap DOMAIN stmts[d] = {}

\* Once Stop has returned, the accept loop comes to its end.
AcceptLoopEnds == (stopPc = "done") ~> (loop = "ended")

\* A connection whose socket is closed, by its client or by Stop, is removed from the
\* table of clients, wherever its goroutine is.
ClosedConnectionsLeave == \A c \in Conn : (c \in clients /\ sock[c] = "closed") ~> (c \notin clients)

\* Server and clients agree on where they are: on replies, sequence numbers and prepared
\* statements, whatever the other connections and Stop do.
ClientsInStep == TypeOK /\ InSync /\ StatementsAgree
=============================================================================
