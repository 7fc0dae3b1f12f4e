-------------------------- MODULE MySQLServerProofs --------------------------
(***************************************************************************)
(* Theorems about MySQLServer, for any connections, credentials, logins,   *)
(* plugins and numbers of placeholders, any modulus of the sequence        *)
(* numbers, and any number of commands and changes of the credentials:     *)
(* whoever is admitted has passed every test, and each client stays in     *)
(* step with the server.                                                   *)
(*                                                                         *)
(* The tests of handleAuth read the credentials one at a time, so what a   *)
(* connection has passed is remembered by its phase: the invariant says    *)
(* for each phase which tests held of some credentials in force meanwhile. *)
(* That a reply fits what the client waits for needs that the wire is      *)
(* empty whenever the server writes, at each phase of the goroutine.       *)
(***************************************************************************)
EXTENDS MySQLServer, FiniteSetTheorems, SequenceTheorems, TLAPS

\* What a goroutine does with a connection, from the greeting to the command loop.
Testing == {"required", "enabled", "user", "token", "switch", "switched", "switchedUser",
            "switchedToken", "admit"}
Phase == {"none", "greet", "login", "switchWait", "refuse", "command", "leaving", "left"} \cup Testing
Kind == {"handshake", "switch", "ok", "error", "text", "eof", "header", "column", "row", "prepared"}
Awaited == {None, "handshake", "login", "ready", "gone", "ping", "statistics", "field list",
            "unknown", "query", "prepare", "execute"}
PacketSent == [kind : Kind, n : Nat, seq : 0..(ByteMod - 1)]

ServerType ==
    /\ cred \in Cred /\ counter \in Nat
    /\ clients \subseteq Conn /\ hand \in Conn \cup {None} /\ columnless \subseteq Conn
    /\ sock \in [Conn -> {"new", "pending", "open", "closed"}]
    /\ phase \in [Conn -> Phase]
    /\ login \in [Conn -> [user : User, password : Password, switched : BOOLEAN]]
    /\ seen \in [Conn -> SUBSET Cred]
    /\ wire \in [Conn -> Seq(PacketSent)]
    /\ awaits \in [Conn -> Awaited]
    /\ cseq \in [Conn -> 0..(ByteMod - 1)]
    /\ stmts = [c \in Conn |-> stmts[c]] /\ mine = stmts

\* Who is in the table, and which sockets there are.
TableInv(c) ==
    /\ c \in clients <=> phase[c] \notin {"none", "left"}
    /\ hand = c => phase[c] = "none" /\ sock[c] \in {"open", "closed"}
    /\ phase[c] # "none" => sock[c] \in {"open", "closed"}
    /\ awaits[c] = None => sock[c] = "new"

\* Some credentials that the connection has seen while it logged in ...
SawEnabled(c) == \E k \in seen[c] : k.enabled = TRUE
SawDisabled(c) == \E k \in seen[c] : k.enabled = FALSE
SawUser(c) == \E k \in seen[c] : k.username \in {"", login[c].user}
SawPassword(c) ==
    \E k \in seen[c] : k.password = NoPassword \/ verifyPassword(login[c].password, k.password)

\* The tests that a connection has passed at each phase.
AuthInv(c) ==
    /\ c \in LoggingIn => cred \in seen[c] /\ IsFiniteSet(seen[c])
    /\ phase[c] = "enabled" => (RequireAuth => SawEnabled(c))
    /\ phase[c] \in {"user", "token", "switch", "switchWait", "switched", "switchedUser", "switchedToken"}
         => SawEnabled(c)
    /\ phase[c] \in {"token", "switch", "switchWait", "switched", "switchedUser", "switchedToken"}
         => SawUser(c)
    /\ phase[c] = "admit" =>
         /\ RequireAuth => SawEnabled(c)
         /\ SawDisabled(c) \/ (SawEnabled(c) /\ SawUser(c) /\ SawPassword(c))

\* What is on the wire when the server writes next, and what the client waits for.
WireInv(c) ==
    /\ phase[c] = "none" => wire[c] = << >> /\ cseq[c] = 0 /\ awaits[c] \in {None, "handshake", "gone"}
    /\ phase[c] = "greet" => wire[c] = << >> /\ awaits[c] \in {"handshake", "gone"}
    /\ phase[c] = "login" => awaits[c] \in {"handshake", "gone"}
    /\ awaits[c] = "handshake" => cseq[c] = 0
    /\ phase[c] \in Testing => wire[c] = << >>
    /\ phase[c] \in Testing \cup {"switchWait", "refuse"} =>
         /\ awaits[c] \in {"login", "gone"}
         /\ awaits[c] = "login" => cseq[c] = authSeq(c) % ByteMod
    /\ phase[c] \in {"switchWait", "refuse"} => wire[c] = << >> \/ Head(wire[c]).kind = "switch"
    /\ phase[c] = "refuse" => wire[c] = << >> \/ sock[c] = "closed"
    /\ phase[c] \in {"required", "enabled", "user", "token", "switch", "switchWait"}
         => login[c].switched = FALSE

SyncOf(c) ==
    wire[c] # << >> /\ c \notin columnless /\ awaits[c] # "gone" =>
        /\ IsReply(wire[c], awaits[c])
        /\ \A i \in 1..Len(wire[c]) : wire[c][i].seq = (cseq[c] + i - 1) % ByteMod

\* Ids come from the counter, and no two connections have one of the same number.
StmtInv ==
    /\ \A c \in Conn : \A i \in DOMAIN stmts[c] : i \in Nat /\ i <= counter
    /\ \A c, d \in Conn : c # d => DOMAIN stmts[c] \cap DOMAIN stmts[d] = {}

ConnInv(c) == TableInv(c) /\ AuthInv(c) /\ WireInv(c) /\ SyncOf(c)

ServerInv ==
    /\ ServerType
    /\ StmtInv
    /\ \A c \in Conn : ConnInv(c)

----------------------------------------------------------------------------
(* Sequence numbers.                                                        *)

\* A byte has values.
LEMMA ByteModPositive == ByteMod \in Nat \ {0}
    BY ServerAssumption

\* A number modulo ByteMod is a sequence number.
LEMMA Modulo ==
    ASSUME NEW a \in Nat
    PROVE  a % ByteMod \in 0..(ByteMod - 1)
    BY ByteModPositive

\* The remainder is the only one.
LEMMA Remainder ==
    ASSUME NEW a \in Int, NEW q \in Int, NEW r \in 0..(ByteMod - 1), a = ByteMod * q + r
    PROVE  a % ByteMod = r
    BY ByteModPositive

\* A number is its quotient times ByteMod and its remainder.
LEMMA Division ==
    ASSUME NEW a \in Nat
    PROVE  a \div ByteMod \in Int /\ a = ByteMod * (a \div ByteMod) + (a % ByteMod)
    BY ByteModPositive

\* Quotients add up.
LEMMA Distributes ==
    ASSUME NEW m \in Int, NEW a \in Int, NEW b \in Int, NEW q \in Int, NEW r \in Int,
           NEW o \in Int, NEW t \in Int, a = m * q + r, r + b = m * o + t
    PROVE  a + b = m * (q + o) + t
<1>1. m * q \in Int /\ m * o \in Int /\ m * (q + o) = m * q + m * o
    OBVIOUS
<1> QED
    BY <1>1

\* It may be taken before or after numbers are added.
LEMMA ModuloAdds ==
    ASSUME NEW a \in Nat, NEW b \in Nat
    PROVE  ((a % ByteMod) + b) % ByteMod = (a + b) % ByteMod
<1> DEFINE r == a % ByteMod
           q == a \div ByteMod
           t == (r + b) % ByteMod
           o == (r + b) \div ByteMod
<1>1. r \in Nat /\ ByteMod \in Int
    BY Modulo, ByteModPositive
<1>2. q \in Int /\ a = ByteMod * q + r
    BY Division
<1> HIDE DEF r, q
<1>3. o \in Int /\ r + b = ByteMod * o + t /\ t \in 0..(ByteMod - 1)
    BY <1>1, Division, Modulo
<1> HIDE DEF t, o
<1>4. t \in Int /\ a + b \in Int /\ q + o \in Int
    BY <1>2, <1>3
<1>5. a + b = ByteMod * (q + o) + t
    BY <1>1, <1>2, <1>3, <1>4, Distributes
<1>6. (a + b) % ByteMod = t
    BY <1>3, <1>4, <1>5, Remainder
<1> QED
    BY <1>6 DEF t, r

----------------------------------------------------------------------------
(* Packets.                                                                 *)

Unsent == [kind : Kind, n : Nat]

\* A numbered reply.
LEMMA NumberedReply ==
    ASSUME NEW packets \in Seq(Unsent), NEW from \in Nat
    PROVE  /\ Numbered(packets, from) \in Seq(PacketSent)
           /\ Len(Numbered(packets, from)) = Len(packets)
           /\ \A i \in 1..Len(packets) :
                /\ Numbered(packets, from)[i].kind = packets[i].kind
                /\ Numbered(packets, from)[i].n = packets[i].n
                /\ Numbered(packets, from)[i].seq = (from + i - 1) % ByteMod
<1>1. Len(packets) \in Nat /\ \A i \in 1..Len(packets) : packets[i] \in Unsent
    OBVIOUS
<1>2. \A i \in 1..Len(packets) : from + i - 1 \in Nat
    BY <1>1
<1>3. \A i \in 1..Len(packets) : (from + i - 1) % ByteMod \in 0..(ByteMod - 1)
    BY <1>2, Modulo
<1> DEFINE body(i) == [kind |-> packets[i].kind, n |-> packets[i].n,
                       seq |-> (from + i - 1) % ByteMod]
<1>4. \A i \in 1..Len(packets) : body(i) \in PacketSent
    BY <1>1, <1>3 DEF PacketSent, Unsent
<1>5. \A i \in 1..Len(packets) :
        /\ body(i).kind = packets[i].kind /\ body(i).n = packets[i].n
        /\ body(i).seq = (from + i - 1) % ByteMod
    OBVIOUS
<1>6. Numbered(packets, from) = [i \in 1..Len(packets) |-> body(i)]
    BY DEF Numbered
<1> HIDE DEF body
<1>7. /\ [i \in 1..Len(packets) |-> body(i)] \in Seq(PacketSent)
      /\ Len([i \in 1..Len(packets) |-> body(i)]) = Len(packets)
    BY <1>1, <1>4
<1> QED
    BY <1>5, <1>6, <1>7

\* Packets before they are numbered.
LEMMA Packets ==
    ASSUME NEW k \in Kind, NEW n \in Nat
    PROVE  Packet(k, n) \in Unsent /\ Packet(k, n).kind = k /\ Packet(k, n).n = n
    BY DEF Packet, Unsent

\* One packet.
LEMMA Single ==
    ASSUME NEW x \in Unsent
    PROVE  <<x>> \in Seq(Unsent) /\ Len(<<x>>) = 1 /\ <<x>>[1] = x
    OBVIOUS

\* One after the other: how many, those before, and those after.
LEMMA Joined ==
    ASSUME NEW s \in Seq(Unsent), NEW t \in Seq(Unsent), NEW n, n = Len(s) + Len(t)
    PROVE  s \o t \in Seq(Unsent) /\ Len(s \o t) = n
    BY ConcatProperties

\* Those before keep their places.
LEMMA Front ==
    ASSUME NEW s \in Seq(Unsent), NEW t \in Seq(Unsent), NEW i \in 1..Len(s)
    PROVE  (s \o t)[i] = s[i]
<1>1. i \in 1..(Len(s) + Len(t)) /\ i <= Len(s)
    OBVIOUS
<1> QED
    BY <1>1, ConcatProperties

\* Those after follow.
LEMMA Back ==
    ASSUME NEW s \in Seq(Unsent), NEW t \in Seq(Unsent), NEW i \in 1..Len(t), NEW j, j = Len(s) + i
    PROVE  (s \o t)[j] = t[i]
<1>1. j \in 1..(Len(s) + Len(t)) /\ ~(j <= Len(s)) /\ j - Len(s) = i
    OBVIOUS
<1>2. (s \o t)[j] = t[j - Len(s)]
    BY <1>1, ConcatProperties
<1> QED
    BY <1>1, <1>2

\* A reply of one packet.
LEMMA OnePacket ==
    ASSUME NEW k \in Kind, NEW from \in Nat
    PROVE  /\ <<Packet(k, 0)>> \in Seq(Unsent)
           /\ [i \in 1..Len(Numbered(<<Packet(k, 0)>>, from)) |->
                 Numbered(<<Packet(k, 0)>>, from)[i].kind] = <<k>>
<1> DEFINE s == <<Packet(k, 0)>>
           p == Numbered(s, from)
<1>1. s \in Seq(Unsent) /\ Len(s) = 1 /\ s[1].kind = k
    BY Packets, Single
<1> HIDE DEF s
<1>2. Len(p) = 1 /\ p[1].kind = k
    BY <1>1, NumberedReply
<1> HIDE DEF p
<1>3. [i \in 1..Len(p) |-> p[i].kind] = <<k>>
    BY <1>2
<1> QED
    BY <1>1, <1>3 DEF p, s

\* A result set of one column and two rows.
LEMMA TwoRows ==
    /\ ResultSet(1, 2) \in Seq(Unsent) /\ Len(ResultSet(1, 2)) = 6
    /\ ResultSet(1, 2)[1] = Packet("header", 1) /\ ResultSet(1, 2)[2] = Packet("column", 0)
    /\ ResultSet(1, 2)[3] = Packet("eof", 0) /\ ResultSet(1, 2)[4] = Packet("row", 0)
    /\ ResultSet(1, 2)[5] = Packet("row", 0) /\ ResultSet(1, 2)[6] = Packet("eof", 0)
<1>1. /\ Packet("header", 1) \in Unsent /\ Packet("column", 0) \in Unsent
      /\ Packet("eof", 0) \in Unsent /\ Packet("row", 0) \in Unsent
    BY Packets DEF Kind
<1> DEFINE header == <<Packet("header", 1)>>
           columns == [i \in 1..1 |-> Packet("column", 0)]
           eof == <<Packet("eof", 0)>>
           rows == [i \in 1..2 |-> Packet("row", 0)]
<1>2. /\ header \in Seq(Unsent) /\ Len(header) = 1 /\ header[1] = Packet("header", 1)
      /\ columns \in Seq(Unsent) /\ Len(columns) = 1 /\ columns[1] = Packet("column", 0)
      /\ eof \in Seq(Unsent) /\ Len(eof) = 1 /\ eof[1] = Packet("eof", 0)
      /\ rows \in Seq(Unsent) /\ Len(rows) = 2 /\ rows[1] = Packet("row", 0) /\ rows[2] = Packet("row", 0)
    BY <1>1, Single
<1>3. ResultSet(1, 2) = (((header \o columns) \o eof) \o rows) \o eof
    BY DEF ResultSet
<1> HIDE DEF header, columns, eof, rows
<1> DEFINE begin == header \o columns
<1>4. begin \in Seq(Unsent) /\ Len(begin) = 2 /\ begin[1] = header[1] /\ begin[2] = columns[1]
    <2>1. /\ 2 = Len(header) + Len(columns) /\ 2 = Len(header) + 1
          /\ 1 \in 1..Len(header) /\ 1 \in 1..Len(columns)
        BY <1>2
    <2>2. begin \in Seq(Unsent) /\ Len(begin) = 2
        BY <1>2, <2>1, Joined
    <2>3. begin[1] = header[1]
        BY <1>2, <2>1, Front
    <2>4. begin[2] = columns[1]
        <3>1. header \in Seq(Unsent) /\ columns \in Seq(Unsent) /\ 1 \in 1..Len(columns) /\ 2 = Len(header) + 1
            BY <1>2, <2>1
        <3> QED
            BY <3>1, Back
    <2> QED
        BY <2>2, <2>3, <2>4
<1> HIDE DEF begin
<1> DEFINE head == begin \o eof
<1>5. /\ head \in Seq(Unsent) /\ Len(head) = 3
      /\ head[1] = begin[1] /\ head[2] = begin[2] /\ head[3] = eof[1]
    <2>1. /\ 3 = Len(begin) + Len(eof) /\ 3 = Len(begin) + 1
          /\ 1 \in 1..Len(begin) /\ 2 \in 1..Len(begin) /\ 1 \in 1..Len(eof)
        BY <1>2, <1>4
    <2>2. head \in Seq(Unsent) /\ Len(head) = 3
        BY <1>2, <1>4, <2>1, Joined
    <2>3. head[1] = begin[1] /\ head[2] = begin[2]
        BY <1>2, <1>4, <2>1, Front
    <2>4. head[3] = eof[1]
        <3>1. begin \in Seq(Unsent) /\ eof \in Seq(Unsent) /\ 1 \in 1..Len(eof) /\ 3 = Len(begin) + 1
            BY <1>2, <1>4, <2>1
        <3> QED
            BY <3>1, Back
    <2> QED
        BY <2>2, <2>3, <2>4
<1> HIDE DEF head
<1> DEFINE most == head \o rows
<1>6. /\ most \in Seq(Unsent) /\ Len(most) = 5
      /\ most[1] = head[1] /\ most[2] = head[2] /\ most[3] = head[3]
      /\ most[4] = rows[1] /\ most[5] = rows[2]
    <2>1. /\ 5 = Len(head) + Len(rows) /\ 4 = Len(head) + 1 /\ 5 = Len(head) + 2
          /\ 1 \in 1..Len(head) /\ 2 \in 1..Len(head) /\ 3 \in 1..Len(head)
          /\ 1 \in 1..Len(rows) /\ 2 \in 1..Len(rows)
        BY <1>2, <1>5
    <2>2. most \in Seq(Unsent) /\ Len(most) = 5
        BY <1>2, <1>5, <2>1, Joined
    <2>3. most[1] = head[1] /\ most[2] = head[2] /\ most[3] = head[3]
        BY <1>2, <1>5, <2>1, Front
    <2>4. most[4] = rows[1]
        <3>1. head \in Seq(Unsent) /\ rows \in Seq(Unsent) /\ 1 \in 1..Len(rows) /\ 4 = Len(head) + 1
            BY <1>2, <1>5, <2>1
        <3> QED
            BY <3>1, Back
    <2>5. most[5] = rows[2]
        <3>1. head \in Seq(Unsent) /\ rows \in Seq(Unsent) /\ 2 \in 1..Len(rows) /\ 5 = Len(head) + 2
            BY <1>2, <1>5, <2>1
        <3> QED
            BY <3>1, Back
    <2> QED
        BY <2>2, <2>3, <2>4, <2>5
<1> HIDE DEF most
<1> DEFINE all == most \o eof
<1>7. /\ all \in Seq(Unsent) /\ Len(all) = 6
      /\ all[1] = most[1] /\ all[2] = most[2] /\ all[3] = most[3]
      /\ all[4] = most[4] /\ all[5] = most[5] /\ all[6] = eof[1]
    <2>1. /\ 6 = Len(most) + Len(eof) /\ 6 = Len(most) + 1 /\ 1 \in 1..Len(eof)
          /\ 1 \in 1..Len(most) /\ 2 \in 1..Len(most) /\ 3 \in 1..Len(most)
          /\ 4 \in 1..Len(most) /\ 5 \in 1..Len(most)
        BY <1>2, <1>6
    <2>2. all \in Seq(Unsent) /\ Len(all) = 6
        BY <1>2, <1>6, <2>1, Joined
    <2>3. all[1] = most[1] /\ all[2] = most[2] /\ all[3] = most[3] /\ all[4] = most[4] /\ all[5] = most[5]
        BY <1>2, <1>6, <2>1, Front
    <2>4. all[6] = eof[1]
        <3>1. most \in Seq(Unsent) /\ eof \in Seq(Unsent) /\ 1 \in 1..Len(eof) /\ 6 = Len(most) + 1
            BY <1>2, <1>6, <2>1
        <3> QED
            BY <3>1, Back
    <2> QED
        BY <2>2, <2>3, <2>4
<1>8. ResultSet(1, 2) = all
    BY <1>3 DEF most, head, begin
<1> HIDE DEF all
<1> QED
    BY <1>2, <1>4, <1>5, <1>6, <1>7, <1>8

\* The reply to COM_STMT_PREPARE with n placeholders.
Prepared(n) ==
    <<Packet("prepared", n)>> \o [i \in 1..n |-> Packet("column", 0)]
        \o (IF n > 0 THEN <<Packet("eof", 0)>> ELSE << >>)

\* How long that reply is, and what it starts with.
LEMMA PreparedReply ==
    ASSUME NEW n \in Nat
    PROVE  /\ Prepared(n) \in Seq(Unsent) /\ Len(Prepared(n)) = IF n = 0 THEN 1 ELSE n + 2
           /\ Prepared(n)[1].kind = "prepared" /\ Prepared(n)[1].n = n
<1>1. /\ Packet("prepared", n) \in Unsent /\ Packet("column", 0) \in Unsent /\ Packet("eof", 0) \in Unsent
      /\ Packet("prepared", n).kind = "prepared" /\ Packet("prepared", n).n = n
    BY Packets DEF Kind
<1> DEFINE first == <<Packet("prepared", n)>>
           columns == [i \in 1..n |-> Packet("column", 0)]
           end == IF n > 0 THEN <<Packet("eof", 0)>> ELSE << >>
<1>2. first \in Seq(Unsent) /\ Len(first) = 1 /\ first[1] = Packet("prepared", n)
    BY <1>1, Single
<1>3. columns \in Seq(Unsent) /\ Len(columns) = n
    BY <1>1
<1>4. end \in Seq(Unsent) /\ Len(end) = IF n = 0 THEN 0 ELSE 1
    BY <1>1
<1>5. Prepared(n) = (first \o columns) \o end
    BY DEF Prepared
<1> HIDE DEF first, columns, end
<1> DEFINE front == first \o columns
<1>6. front \in Seq(Unsent) /\ Len(front) = n + 1 /\ front[1] = first[1]
    <2>1. n + 1 = Len(first) + Len(columns) /\ 1 \in 1..Len(first)
        BY <1>2, <1>3
    <2> QED
        BY <1>2, <1>3, <2>1, Joined, Front
<1> HIDE DEF front
<1> DEFINE size == IF n = 0 THEN 1 ELSE n + 2
<1>7. size = Len(front) + Len(end) /\ 1 \in 1..Len(front)
    BY <1>4, <1>6
<1> HIDE DEF size
<1>8. front \o end \in Seq(Unsent) /\ Len(front \o end) = size /\ (front \o end)[1] = front[1]
    BY <1>4, <1>6, <1>7, Joined, Front
<1> QED
    BY <1>1, <1>2, <1>5, <1>6, <1>8 DEF front, size

\* What is a reply to what.
LEMMA KindsOfReply ==
    ASSUME NEW p, NEW k, [i \in 1..Len(p) |-> p[i].kind] = <<k>>
    PROVE  /\ k = "handshake" => IsReply(p, "handshake")
           /\ k \in {"ok", "error", "switch"} => IsReply(p, "login")
           /\ k = "ok" => IsReply(p, "ping")
           /\ k = "text" => IsReply(p, "statistics")
           /\ k = "eof" => IsReply(p, "field list")
           /\ k = "error" => IsReply(p, "unknown")
           /\ k \in {"ok", "error"} => IsReply(p, "query") /\ IsReply(p, "execute")
<1>1. k = "handshake" => IsReply(p, "handshake")
    BY DEF IsReply
<1>2. k \in {"ok", "error", "switch"} => IsReply(p, "login")
    BY DEF IsReply
<1>3. k = "ok" => IsReply(p, "ping")
    BY DEF IsReply
<1>4. k = "text" => IsReply(p, "statistics")
    BY DEF IsReply
<1>5. k = "eof" => IsReply(p, "field list")
    BY DEF IsReply
<1>6. k = "error" => IsReply(p, "unknown")
    BY DEF IsReply
<1>7. k \in {"ok", "error"} => IsReply(p, "query")
    BY DEF IsReply
<1>8. k \in {"ok", "error"} => IsReply(p, "execute")
    BY DEF IsReply
<1> QED
    BY <1>1, <1>2, <1>3, <1>4, <1>5, <1>6, <1>7, <1>8

\* A result set answers COM_QUERY and COM_STMT_EXECUTE.
LEMMA RowsReply ==
    ASSUME NEW p, IsResultSet(p)
    PROVE  IsReply(p, "query") /\ IsReply(p, "execute")
<1>1. IsReply(p, "query")
    BY DEF IsReply
<1>2. IsReply(p, "execute")
    BY DEF IsReply
<1> QED
    BY <1>1, <1>2

\* Every reply the server writes is one the client expects.
LEMMA Replies ==
    ASSUME NEW from \in Nat
    PROVE  /\ IsReply(Numbered(<<Packet("handshake", 0)>>, from), "handshake")
           /\ IsReply(Numbered(<<Packet("switch", 0)>>, from), "login")
           /\ IsReply(Numbered(OK, from), "login") /\ IsReply(Numbered(OK, from), "ping")
           /\ IsReply(Numbered(OK, from), "query") /\ IsReply(Numbered(OK, from), "execute")
           /\ IsReply(Numbered(Error, from), "login") /\ IsReply(Numbered(Error, from), "unknown")
           /\ IsReply(Numbered(Error, from), "query") /\ IsReply(Numbered(Error, from), "execute")
           /\ IsReply(Numbered(<<Packet("text", 0)>>, from), "statistics")
           /\ IsReply(Numbered(<<Packet("eof", 0)>>, from), "field list")
           /\ IsReply(Numbered(ResultSet(1, 2), from), "query")
           /\ IsReply(Numbered(ResultSet(1, 2), from), "execute")
           /\ \A n \in Nat : IsReply(Numbered(Prepared(n), from), "prepare")
<1>1. ASSUME NEW k \in Kind
      PROVE  [i \in 1..Len(Numbered(<<Packet(k, 0)>>, from)) |->
                Numbered(<<Packet(k, 0)>>, from)[i].kind] = <<k>>
    BY OnePacket
<1>2. /\ IsReply(Numbered(<<Packet("handshake", 0)>>, from), "handshake")
      /\ IsReply(Numbered(<<Packet("switch", 0)>>, from), "login")
      /\ IsReply(Numbered(<<Packet("text", 0)>>, from), "statistics")
      /\ IsReply(Numbered(<<Packet("eof", 0)>>, from), "field list")
    BY <1>1, KindsOfReply DEF Kind
<1>3. /\ IsReply(Numbered(OK, from), "login") /\ IsReply(Numbered(OK, from), "ping")
      /\ IsReply(Numbered(OK, from), "query") /\ IsReply(Numbered(OK, from), "execute")
    BY <1>1, KindsOfReply DEF Kind, OK
<1>4. /\ IsReply(Numbered(Error, from), "login") /\ IsReply(Numbered(Error, from), "unknown")
      /\ IsReply(Numbered(Error, from), "query") /\ IsReply(Numbered(Error, from), "execute")
    BY <1>1, KindsOfReply DEF Kind, Error
<1>5. IsReply(Numbered(ResultSet(1, 2), from), "query") /\ IsReply(Numbered(ResultSet(1, 2), from), "execute")
    <2> DEFINE p == Numbered(ResultSet(1, 2), from)
    <2>1. /\ Len(p) = 6 /\ \A i \in 1..6 : p[i].kind = ResultSet(1, 2)[i].kind /\ p[i].n = ResultSet(1, 2)[i].n
        BY NumberedReply, TwoRows
    <2>2. /\ Packet("header", 1).kind = "header" /\ Packet("header", 1).n = 1
          /\ Packet("column", 0).kind = "column" /\ Packet("eof", 0).kind = "eof" /\ Packet("row", 0).kind = "row"
        BY DEF Packet
    <2> HIDE DEF p
    <2>3. /\ p[1].kind = "header" /\ p[1].n = 1 /\ p[2].kind = "column"
          /\ p[3].kind = "eof" /\ p[4].kind = "row" /\ p[5].kind = "row" /\ p[6].kind = "eof"
        BY <2>1, <2>2, TwoRows
    <2>4. IsResultSet(p)
        BY <2>1, <2>3 DEF IsResultSet
    <2> QED
        BY <2>4, RowsReply DEF p
<1>6. ASSUME NEW n \in Nat
      PROVE  IsReply(Numbered(Prepared(n), from), "prepare")
    <2> DEFINE p == Numbered(Prepared(n), from)
    <2>1. Len(p) = (IF n = 0 THEN 1 ELSE n + 2) /\ p[1].kind = "prepared" /\ p[1].n = n
        <3>1. /\ Prepared(n) \in Seq(Unsent) /\ Len(Prepared(n)) = (IF n = 0 THEN 1 ELSE n + 2)
              /\ Prepared(n)[1].kind = "prepared" /\ Prepared(n)[1].n = n /\ 1 \in 1..Len(Prepared(n))
            BY PreparedReply
        <3> QED
            BY <3>1, NumberedReply
    <2> HIDE DEF p
    <2> QED
        BY <2>1 DEF IsReply, p
<1> QED
    BY <1>2, <1>3, <1>4, <1>5, <1>6

----------------------------------------------------------------------------
(* Steps, in parts.                                                         *)

\* The numbers of a reply are those the client expects.
LEMMA NumbersFit ==
    ASSUME NEW packets \in Seq(Unsent), NEW from \in Nat, NEW start, start = from % ByteMod
    PROVE  \A i \in 1..Len(Numbered(packets, from)) :
              Numbered(packets, from)[i].seq = (start + i - 1) % ByteMod
<1> SUFFICES ASSUME NEW i \in 1..Len(packets)
             PROVE  Numbered(packets, from)[i].seq = (start + i - 1) % ByteMod
    BY NumberedReply
<1>1. i - 1 \in Nat /\ from + (i - 1) = from + i - 1 /\ start \in Nat
    BY Modulo
<1>2. start + (i - 1) = start + i - 1
    BY <1>1
<1>3. (start + (i - 1)) % ByteMod = (from + (i - 1)) % ByteMod
    BY <1>1, ModuloAdds
<1>4. Numbered(packets, from)[i].seq = (from + i - 1) % ByteMod
    BY NumberedReply
<1> QED
    BY <1>1, <1>2, <1>3, <1>4

\* A reply written to an empty wire, if the socket is open, is all there is on it.
LEMMA Written ==
    ASSUME ServerType, NEW c \in Conn, NEW packets \in Seq(Unsent), NEW from \in Nat,
           Write(c, packets, from), sock[c] = "open" => wire[c] = << >>
    PROVE  /\ wire' \in [Conn -> Seq(PacketSent)]
           /\ wire'[c] = IF sock[c] = "open" THEN Numbered(packets, from) ELSE wire[c]
           /\ \A d \in Conn : d # c => wire'[d] = wire[d]
<1>1. /\ Numbered(packets, from) \in Seq(PacketSent) /\ wire \in [Conn -> Seq(PacketSent)]
      /\ << >> \o Numbered(packets, from) = Numbered(packets, from)
    BY NumberedReply, ConcatEmptySeq DEF ServerType
<1>2. wire' = [wire EXCEPT ![c] = IF sock[c] = "open" THEN Numbered(packets, from) ELSE wire[c]]
    BY <1>1 DEF Write
<1> QED
    BY <1>1, <1>2

\* A new reply is in step.
LEMMA NewReplyInSync ==
    ASSUME NEW c \in Conn, NEW packets \in Seq(Unsent), NEW from \in Nat,
           wire'[c] = Numbered(packets, from), IsReply(Numbered(packets, from), awaits'[c]),
           cseq'[c] = from % ByteMod
    PROVE  SyncOf(c)'
    BY NumbersFit DEF SyncOf

\* A step that does not concern a connection.
Same(d) ==
    /\ phase'[d] = phase[d] /\ sock'[d] = sock[d] /\ login'[d] = login[d]
    /\ wire'[d] = wire[d] /\ awaits'[d] = awaits[d] /\ cseq'[d] = cseq[d]
    /\ d \in clients' <=> d \in clients
    /\ d \in columnless' <=> d \in columnless
    /\ hand' = d <=> hand = d
    /\ \/ cred' = cred /\ seen'[d] = seen[d]
       \/ seen'[d] = IF d \in LoggingIn THEN seen[d] \cup {cred'} ELSE seen[d]

\* What a connection has seen may grow.
LEMMA SeenGrows ==
    ASSUME NEW c \in Conn, AuthInv(c), phase'[c] = phase[c], login'[c] = login[c],
           \/ cred' = cred /\ seen'[c] = seen[c]
           \/ seen'[c] = IF c \in LoggingIn THEN seen[c] \cup {cred'} ELSE seen[c]
    PROVE  AuthInv(c)'
<1>1. (c \in LoggingIn)' <=> c \in LoggingIn
    BY DEF LoggingIn
<1>2. seen[c] \subseteq seen'[c]
    OBVIOUS
<1>3. c \in LoggingIn => cred' \in seen'[c] /\ IsFiniteSet(seen'[c])
    BY FS_AddElement DEF AuthInv
<1>4. /\ SawEnabled(c) => SawEnabled(c)'
      /\ SawDisabled(c) => SawDisabled(c)'
      /\ SawUser(c) => SawUser(c)'
      /\ SawPassword(c) => SawPassword(c)'
    BY <1>2 DEF SawEnabled, SawDisabled, SawUser, SawPassword
<1> QED
    BY <1>1, <1>3, <1>4 DEF AuthInv

\* Such a step keeps the invariant of that connection.
LEMMA SameKeeps ==
    ASSUME NEW d \in Conn, ConnInv(d), Same(d)
    PROVE  ConnInv(d)'
<1>1. TableInv(d)'
    BY DEF ConnInv, Same, TableInv
<1>2. AuthInv(d)'
    BY SeenGrows DEF ConnInv, Same
<1>3. WireInv(d)'
    BY DEF ConnInv, Same, WireInv, authSeq
<1>4. SyncOf(d)'
    BY DEF ConnInv, Same, SyncOf
<1> QED
    BY <1>1, <1>2, <1>3, <1>4 DEF ConnInv

----------------------------------------------------------------------------
(* The goroutine of a connection.                                           *)

\* The goroutine goes on without a reply.
LEMMA PhaseKeeps ==
    ASSUME ServerInv, NEW c \in Conn, Unwritten,
           phase' = [phase EXCEPT ![c] = phase'[c]], phase'[c] \in Phase \ {"none", "left"},
           phase[c] \notin {"none", "left"}, AuthInv(c)', WireInv(c)'
    PROVE  ServerInv'
<1>1. UNCHANGED <<clients, hand, sock, login, stmts, counter, wire, awaits, cseq, mine, cred, seen, columnless>>
    BY DEF Unwritten, serverVars, clientVars, credVars
<1>2. ServerType' /\ StmtInv'
    BY <1>1 DEF ServerInv, ServerType, StmtInv
<1>3. ASSUME NEW d \in Conn, d # c PROVE ConnInv(d)'
    BY <1>1, <1>3, SameKeeps DEF Same, ServerInv, ServerType
<1>4. TableInv(c)' /\ SyncOf(c)'
    BY <1>1 DEF ServerInv, ServerType, ConnInv, TableInv, SyncOf
<1> QED
    BY <1>2, <1>3, <1>4 DEF ServerInv, ConnInv

\* What a connection that logs in has seen includes the credentials in force.
LEMMA SeesCred ==
    ASSUME ServerInv, NEW c \in Conn, c \in LoggingIn
    PROVE  /\ cred \in seen[c] /\ IsFiniteSet(seen[c])
           /\ cred.enabled = TRUE => SawEnabled(c)
           /\ cred.enabled # TRUE => cred.enabled = FALSE /\ SawDisabled(c)
           /\ cred.username \in {"", login[c].user} => SawUser(c)
           /\ cred.password = NoPassword \/ verifyPassword(login[c].password, cred.password) => SawPassword(c)
<1>1. cred \in seen[c] /\ IsFiniteSet(seen[c]) /\ cred.enabled \in BOOLEAN
    BY DEF ServerInv, ServerType, ConnInv, AuthInv, Cred
<1> QED
    BY <1>1 DEF SawEnabled, SawDisabled, SawUser, SawPassword

\* The tests of handleAuth.
LEMMA TestsKeep ==
    ASSUME ServerInv, NEW c \in Conn,
           \/ AuthRequired(c) \/ AuthEnabled(c) \/ AuthUser(c) \/ AuthToken(c)
           \/ SwitchedEnabled(c) \/ SwitchedUser(c) \/ SwitchedToken(c)
    PROVE  ServerInv'
<1>1. /\ Unwritten /\ UNCHANGED <<sock, login, wire, awaits, cseq, cred, seen>>
      /\ phase \in [Conn -> Phase] /\ ConnInv(c) /\ cred.enabled \in BOOLEAN
    BY DEF AuthRequired, AuthEnabled, AuthUser, AuthToken, SwitchedEnabled, SwitchedUser, SwitchedToken,
           Unwritten, clientVars, credVars, ServerInv, ServerType, Cred
<1>2. /\ phase' = [phase EXCEPT ![c] = phase'[c]]
      /\ \/ phase[c] = "required" /\ RequireAuth /\ ~cred.enabled /\ phase'[c] = "refuse"
         \/ phase[c] = "required" /\ (RequireAuth => cred.enabled) /\ phase'[c] = "enabled"
         \/ phase[c] = "enabled" /\ cred.enabled /\ phase'[c] = "user"
         \/ phase[c] = "enabled" /\ ~cred.enabled /\ phase'[c] = "admit"
         \/ phase[c] = "user" /\ phase'[c] = "refuse"
         \/ /\ phase[c] = "user" /\ cred.username \in {"", login[c].user}
            /\ phase'[c] \in {"token", "switch"}
         \/ /\ phase[c] = "token" /\ phase'[c] = "admit"
            /\ cred.password = NoPassword \/ verifyPassword(login[c].password, cred.password)
         \/ phase[c] = "token" /\ phase'[c] = "switch"
         \/ phase[c] = "switched" /\ cred.enabled /\ phase'[c] = "switchedUser"
         \/ phase[c] = "switched" /\ ~cred.enabled /\ phase'[c] = "admit"
         \/ phase[c] = "switchedUser" /\ phase'[c] \in {"switchedToken", "refuse"}
         \/ /\ phase[c] = "switchedToken" /\ phase'[c] = "admit"
            /\ cred.password = NoPassword \/ verifyPassword(login[c].password, cred.password)
         \/ phase[c] = "switchedToken" /\ phase'[c] = "refuse"
    BY <1>1 DEF AuthRequired, AuthEnabled, AuthUser, AuthToken, SwitchedEnabled, SwitchedUser, SwitchedToken, Goes
<1>3. phase[c] \in Testing \ {"switch", "admit"} /\ phase'[c] \in Testing \cup {"refuse"}
    BY <1>2 DEF Testing
<1>4. c \in LoggingIn
    BY <1>3 DEF LoggingIn, Testing
<1>5. AuthInv(c)'
    <2>1. /\ SawEnabled(c)' = SawEnabled(c) /\ SawDisabled(c)' = SawDisabled(c)
          /\ SawUser(c)' = SawUser(c) /\ SawPassword(c)' = SawPassword(c)
        BY <1>1 DEF SawEnabled, SawDisabled, SawUser, SawPassword
    <2>2. cred' \in seen'[c] /\ IsFiniteSet(seen'[c])
        BY <1>1, <1>4, SeesCred
    <2> QED
        BY <1>1, <1>2, <1>4, <2>1, <2>2, SeesCred DEF ConnInv, AuthInv
<1>6. WireInv(c)'
    <2>1. authSeq(c)' = authSeq(c)
        BY <1>1 DEF authSeq
    <2>2. phase'[c] \in {"required", "enabled", "user", "token", "switch", "switchWait"}
            => phase[c] \in {"required", "enabled", "user", "token", "switch", "switchWait"}
        BY <1>2
    <2>3. phase'[c] \notin {"none", "greet", "login", "switchWait"}
        BY <1>3 DEF Testing
    <2> QED
        BY <1>1, <1>3, <2>1, <2>2, <2>3 DEF ConnInv, WireInv
<1> QED
    BY <1>1, <1>2, <1>3, <1>5, <1>6, PhaseKeeps DEF Testing, Phase

\* A read fails.
LEMMA ReadFailsKeeps ==
    ASSUME ServerInv, NEW c \in Conn, ReadFails(c)
    PROVE  ServerInv'
<1>1. /\ Unwritten /\ UNCHANGED <<sock, login, wire, awaits, cseq, cred, seen>>
      /\ phase \in [Conn -> Phase] /\ ConnInv(c)
    BY DEF ReadFails, Unwritten, clientVars, credVars, ServerInv, ServerType
<1>2. /\ phase' = [phase EXCEPT ![c] = phase'[c]] /\ sock[c] = "closed"
      /\ \/ phase[c] = "switchWait" /\ phase'[c] = "refuse"
         \/ phase[c] \in {"login", "command"} /\ phase'[c] = "leaving"
    BY <1>1 DEF ReadFails
<1>3. AuthInv(c)'
    BY <1>1, <1>2 DEF ConnInv, AuthInv, LoggingIn
<1>4. WireInv(c)'
    <2>1. authSeq(c)' = authSeq(c)
        BY <1>1 DEF authSeq
    <2> QED
        BY <1>1, <1>2, <2>1 DEF ConnInv, WireInv, Testing
<1> QED
    BY <1>1, <1>2, <1>3, <1>4, PhaseKeeps DEF Phase

\* The goroutine goes on with a reply.
LEMMA ReplyKeeps ==
    ASSUME ServerInv, NEW c \in Conn, ServerType', StmtInv',
           UNCHANGED <<clients, hand, sock, cred, columnless>>,
           \A d \in Conn : d # c =>
               /\ phase'[d] = phase[d] /\ login'[d] = login[d] /\ wire'[d] = wire[d]
               /\ awaits'[d] = awaits[d] /\ cseq'[d] = cseq[d] /\ seen'[d] = seen[d],
           phase[c] \notin {"none", "left"}, phase'[c] \notin {"none", "left"},
           awaits'[c] # None, AuthInv(c)', WireInv(c)', SyncOf(c)'
    PROVE  ServerInv'
<1>1. ASSUME NEW d \in Conn, d # c PROVE ConnInv(d)'
    BY <1>1, SameKeeps DEF Same, ServerInv
<1>2. TableInv(c)'
    BY DEF ServerInv, ConnInv, TableInv
<1> QED
    BY <1>1, <1>2 DEF ServerInv, ConnInv

\* sendHandshake.
LEMMA HandshakeKeeps ==
    ASSUME ServerInv, NEW c \in Conn, sendHandshake(c)
    PROVE  ServerInv'
<1>1. /\ ServerType /\ ConnInv(c) /\ phase[c] = "greet"
      /\ UNCHANGED <<clients, hand, sock, login, stmts, counter, awaits, cseq, mine, cred, seen, columnless>>
      /\ phase' = [phase EXCEPT ![c] = IF sock[c] = "open" THEN "login" ELSE "leaving"]
      /\ Write(c, <<Packet("handshake", 0)>>, 0)
    BY DEF sendHandshake, Goes, serverVars, credVars, ServerInv
<1>2. <<Packet("handshake", 0)>> \in Seq(Unsent) /\ 0 \in Nat
    BY OnePacket DEF Kind
<1>3. wire[c] = << >> /\ awaits[c] \in {"handshake", "gone"} /\ awaits[c] # None
    BY <1>1 DEF ConnInv, WireInv, None
<1>4. /\ wire' \in [Conn -> Seq(PacketSent)]
      /\ wire'[c] = IF sock[c] = "open" THEN Numbered(<<Packet("handshake", 0)>>, 0) ELSE << >>
      /\ \A d \in Conn : d # c => wire'[d] = wire[d]
    BY <1>1, <1>2, <1>3, Written
<1>5. /\ phase'[c] = (IF sock[c] = "open" THEN "login" ELSE "leaving") /\ phase' \in [Conn -> Phase]
      /\ \A d \in Conn : d # c => phase'[d] = phase[d]
    BY <1>1 DEF ServerType, Phase
<1>6. ServerType' /\ StmtInv'
    BY <1>1, <1>4, <1>5 DEF ServerInv, ServerType, StmtInv
<1>7. AuthInv(c)'
    BY <1>1, <1>5 DEF ConnInv, AuthInv, LoggingIn
<1>8. WireInv(c)'
    BY <1>1, <1>3, <1>5 DEF ConnInv, WireInv, Testing
<1>9. SyncOf(c)'
    <2>1. CASE sock[c] = "open" /\ awaits[c] = "handshake"
        <3>1. cseq'[c] = 0 % ByteMod
            BY <1>1, <2>1, ByteModPositive DEF ConnInv, WireInv
        <3> QED
            BY <1>1, <1>2, <1>4, <2>1, <3>1, Replies, NewReplyInSync
    <2>2. CASE ~(sock[c] = "open" /\ awaits[c] = "handshake")
        BY <1>1, <1>3, <1>4, <2>2 DEF SyncOf
    <2> QED
        BY <2>1, <2>2
<1> QED
    BY <1>1, <1>3, <1>4, <1>5, <1>6, <1>7, <1>8, <1>9, ReplyKeeps

\* sendAuthSwitchRequest.
LEMMA SwitchKeeps ==
    ASSUME ServerInv, NEW c \in Conn, sendAuthSwitchRequest(c)
    PROVE  ServerInv'
<1>1. /\ ServerType /\ ConnInv(c) /\ phase[c] = "switch"
      /\ UNCHANGED <<clients, hand, sock, login, stmts, counter, awaits, cseq, mine, cred, seen, columnless>>
      /\ phase' = [phase EXCEPT ![c] = IF sock[c] = "open" THEN "switchWait" ELSE "refuse"]
      /\ Write(c, <<Packet("switch", 0)>>, 2)
    BY DEF sendAuthSwitchRequest, Goes, serverVars, credVars, ServerInv
<1>2. <<Packet("switch", 0)>> \in Seq(Unsent) /\ 2 \in Nat
    BY OnePacket DEF Kind
<1>3. /\ wire[c] = << >> /\ awaits[c] \in {"login", "gone"} /\ awaits[c] # None
      /\ login[c].switched = FALSE /\ authSeq(c) = 2 /\ authSeq(c)' = 2
    BY <1>1 DEF ConnInv, WireInv, Testing, None, authSeq
<1>4. /\ wire' \in [Conn -> Seq(PacketSent)]
      /\ wire'[c] = IF sock[c] = "open" THEN Numbered(<<Packet("switch", 0)>>, 2) ELSE << >>
      /\ \A d \in Conn : d # c => wire'[d] = wire[d]
    BY <1>1, <1>2, <1>3, Written
<1>5. /\ phase'[c] = (IF sock[c] = "open" THEN "switchWait" ELSE "refuse") /\ phase' \in [Conn -> Phase]
      /\ \A d \in Conn : d # c => phase'[d] = phase[d]
    BY <1>1 DEF ServerType, Phase
<1>6. ServerType' /\ StmtInv'
    BY <1>1, <1>4, <1>5 DEF ServerInv, ServerType, StmtInv
<1>7. AuthInv(c)'
    BY <1>1, <1>5 DEF ConnInv, AuthInv, LoggingIn, SawEnabled, SawUser
<1>8. WireInv(c)'
    <2>1. sock[c] = "open" => Head(wire'[c]).kind = "switch"
        <3>1. /\ Len(Numbered(<<Packet("switch", 0)>>, 2)) = 1
              /\ Numbered(<<Packet("switch", 0)>>, 2)[1].kind = "switch"
              /\ Numbered(<<Packet("switch", 0)>>, 2) \in Seq(PacketSent)
            <4> DEFINE s == <<Packet("switch", 0)>>
            <4>1. s \in Seq(Unsent) /\ Len(s) = 1 /\ s[1].kind = "switch"
                BY Packets, Single DEF Kind
            <4> HIDE DEF s
            <4>2. 1 \in 1..Len(s) /\ 2 \in Nat
                BY <4>1
            <4>3. Len(Numbered(s, 2)) = 1 /\ Numbered(s, 2)[1].kind = "switch" /\ Numbered(s, 2) \in Seq(PacketSent)
                BY <4>1, <4>2, NumberedReply
            <4> QED
                BY <4>3 DEF s
        <3> DEFINE p == Numbered(<<Packet("switch", 0)>>, 2)
        <3> HIDE DEF p
        <3>2. Head(p) = p[1]
            BY <3>1 DEF p
        <3> QED
            BY <1>4, <3>1, <3>2 DEF p
    <2>2. awaits[c] = "login" => cseq[c] = 2 % ByteMod
        BY <1>1, <1>3 DEF ConnInv, WireInv, Testing
    <2> QED
        BY <1>1, <1>3, <1>4, <1>5, <2>1, <2>2 DEF WireInv, Testing
<1>9. SyncOf(c)'
    <2>1. CASE sock[c] = "open" /\ awaits[c] = "login"
        <3>1. cseq'[c] = 2 % ByteMod
            BY <1>1, <1>3, <2>1 DEF ConnInv, WireInv, Testing
        <3> QED
            BY <1>1, <1>2, <1>4, <2>1, <3>1, Replies, NewReplyInSync
    <2>2. CASE ~(sock[c] = "open" /\ awaits[c] = "login")
        BY <1>1, <1>3, <1>4, <2>2 DEF SyncOf
    <2> QED
        BY <2>1, <2>2
<1> QED
    BY <1>1, <1>3, <1>4, <1>5, <1>6, <1>7, <1>8, <1>9, ReplyKeeps

\* The reply that ends the login: OK or an error, with the number the client expects
\* whether or not it was asked to switch.
LEMMA LoginEndKeeps ==
    ASSUME ServerInv, NEW c \in Conn, Admit(c) \/ Refuse(c)
    PROVE  ServerInv'
<1> DEFINE reply == IF phase[c] = "admit" THEN OK ELSE Error
<1>1. /\ ServerType /\ ConnInv(c) /\ phase[c] \in {"admit", "refuse"}
      /\ UNCHANGED <<clients, hand, sock, stmts, counter, awaits, cseq, mine, cred, columnless>>
      /\ phase' = [phase EXCEPT ![c] = phase'[c]] /\ phase'[c] \in {"command", "leaving"}
      /\ login' = [login EXCEPT ![c] = NoLogin] /\ seen' = [seen EXCEPT ![c] = {}]
      /\ Write(c, reply, authSeq(c))
    BY DEF Admit, Refuse, LoggedIn, Goes, serverVars, ServerInv, ServerType
<1>2. reply \in Seq(Unsent) /\ authSeq(c) \in Nat
    BY OnePacket DEF Kind, OK, Error, authSeq
<1>3. /\ sock[c] = "open" => wire[c] = << >>
      /\ awaits[c] \in {"login", "gone"} /\ awaits[c] # None
      /\ awaits[c] = "login" => cseq[c] = authSeq(c) % ByteMod
    BY <1>1 DEF ConnInv, WireInv, Testing, None
<1>4. IsReply(Numbered(reply, authSeq(c)), "login")
    BY <1>2, Replies
<1> HIDE DEF reply
<1>5. /\ wire' \in [Conn -> Seq(PacketSent)]
      /\ wire'[c] = IF sock[c] = "open" THEN Numbered(reply, authSeq(c)) ELSE wire[c]
      /\ \A d \in Conn : d # c => wire'[d] = wire[d]
    BY <1>1, <1>2, <1>3, Written
<1>6. /\ phase' \in [Conn -> Phase] /\ \A d \in Conn : d # c => phase'[d] = phase[d]
    BY <1>1 DEF ServerType, Phase
<1>7. ServerType' /\ StmtInv'
    <2>1. NoLogin \in [user : User, password : Password, switched : BOOLEAN]
        BY ServerAssumption DEF NoLogin
    <2>2. login' \in [Conn -> [user : User, password : Password, switched : BOOLEAN]]
        BY <1>1, <2>1 DEF ServerType
    <2> QED
        BY <1>1, <1>5, <1>6, <2>2 DEF ServerInv, ServerType, StmtInv
<1>8. AuthInv(c)'
    BY <1>1 DEF AuthInv, LoggingIn
<1>9. WireInv(c)'
    BY <1>1, <1>3 DEF ConnInv, WireInv, Testing
<1>10. SyncOf(c)'
    <2>1. CASE sock[c] = "open" /\ awaits[c] = "login"
        BY <1>1, <1>2, <1>3, <1>4, <1>5, <2>1, NewReplyInSync
    <2>2. CASE sock[c] # "open" /\ awaits[c] = "login"
        BY <1>1, <1>5, <2>2 DEF ConnInv, SyncOf
    <2>3. CASE awaits[c] = "gone"
        BY <1>1, <2>3 DEF SyncOf
    <2> QED
        BY <1>3, <2>1, <2>2, <2>3
<1>11. \A d \in Conn : d # c => login'[d] = login[d] /\ seen'[d] = seen[d]
    BY <1>1 DEF ServerType
<1> QED
    BY <1>1, <1>3, <1>5, <1>6, <1>7, <1>8, <1>9, <1>10, <1>11, ReplyKeeps

\* A step of one connection leaves the others alone.
LEMMA ActorKeeps ==
    ASSUME ServerInv, NEW c \in Conn, ServerType', StmtInv', ConnInv(c)',
           \A d \in Conn : d # c => Same(d)
    PROVE  ServerInv'
<1>1. ASSUME NEW d \in Conn, d # c PROVE ConnInv(d)'
    BY <1>1, SameKeeps DEF ServerInv
<1> QED
    BY <1>1 DEF ServerInv

\* The end of handleConnection.
LEMMA LeaveKeeps ==
    ASSUME ServerInv, NEW c \in Conn, Leave(c)
    PROVE  ServerInv'
<1>1. /\ ServerType /\ ConnInv(c) /\ phase[c] = "leaving"
      /\ UNCHANGED <<hand, counter, cred>>
    BY DEF Leave, Goes, ServerInv
<1>2. ServerType'
    <2>1. NoLogin \in [user : User, password : Password, switched : BOOLEAN]
        BY ServerAssumption DEF NoLogin
    <2>2. login' \in [Conn -> [user : User, password : Password, switched : BOOLEAN]]
        BY <1>1, <2>1 DEF ServerType, Leave
    <2>3. wire' \in [Conn -> Seq(PacketSent)]
        BY <1>1 DEF ServerType, Leave
    <2>4. phase' \in [Conn -> Phase] /\ awaits' \in [Conn -> Awaited] /\ sock' \in [Conn -> {"new", "pending", "open", "closed"}]
        BY <1>1 DEF ServerType, Leave, Goes, Phase, Awaited
    <2>5. cseq' \in [Conn -> 0..(ByteMod - 1)]
        BY <1>1, ByteModPositive DEF ServerType, Leave
    <2>6. stmts' = [d \in Conn |-> stmts'[d]] /\ mine' = stmts'
        BY <1>1 DEF ServerType, Leave
    <2>7. seen' \in [Conn -> SUBSET Cred] /\ clients' \subseteq Conn /\ columnless' \subseteq Conn
        BY <1>1 DEF ServerType, Leave
    <2> QED
        BY <1>1, <2>2, <2>3, <2>4, <2>5, <2>6, <2>7 DEF ServerType
<1>3. StmtInv'
    <2>1. DOMAIN stmts'[c] = {}
        BY <1>1 DEF ServerType, Leave
    <2>2. \A d \in Conn : d # c => stmts'[d] = stmts[d]
        BY <1>1 DEF ServerType, Leave
    <2> QED
        BY <1>1, <2>1, <2>2 DEF ServerInv, StmtInv
<1>4. /\ phase'[c] = "left" /\ sock'[c] = "closed" /\ wire'[c] = << >> /\ awaits'[c] = "gone"
      /\ c \notin clients' /\ hand' # c
    BY <1>1 DEF ServerType, Leave, Goes, ConnInv, TableInv
<1>5. ConnInv(c)'
    <2>1. TableInv(c)'
        BY <1>4 DEF TableInv, None
    <2>2. AuthInv(c)'
        BY <1>4 DEF AuthInv, LoggingIn
    <2>3. WireInv(c)'
        BY <1>4 DEF WireInv, Testing
    <2>4. SyncOf(c)'
        BY <1>4 DEF SyncOf
    <2> QED
        BY <2>1, <2>2, <2>3, <2>4 DEF ConnInv
<1>6. ASSUME NEW d \in Conn, d # c PROVE Same(d)
    BY <1>1, <1>6 DEF Same, Leave, Goes, ServerType
<1> QED
    BY <1>2, <1>3, <1>5, <1>6, ActorKeeps

----------------------------------------------------------------------------
(* The accept loop and Stop.                                                *)

\* A client connects.
LEMMA DialKeeps ==
    ASSUME ServerInv, NEW c \in Conn, Dial(c)
    PROVE  ServerInv'
<1>1. /\ ServerType /\ ConnInv(c) /\ sock[c] = "new"
      /\ UNCHANGED <<clients, hand, phase, login, stmts, counter, wire, cseq, mine, cred, seen, columnless>>
      /\ sock' = [sock EXCEPT ![c] = "pending"] /\ awaits' = [awaits EXCEPT ![c] = "handshake"]
    BY DEF Dial, ServerInv, serverVars, credVars
<1>2. ServerType' /\ StmtInv'
    BY <1>1 DEF ServerInv, ServerType, StmtInv, Awaited
<1>3. phase[c] = "none" /\ hand # c
    BY <1>1 DEF ConnInv, TableInv
<1>4. sock'[c] = "pending" /\ awaits'[c] = "handshake"
    BY <1>1 DEF ServerType
<1>5. ConnInv(c)'
    <2>1. TableInv(c)'
        BY <1>1, <1>3, <1>4 DEF ConnInv, TableInv, None
    <2>2. AuthInv(c)'
        BY <1>1, <1>3 DEF AuthInv, LoggingIn
    <2>3. cseq[c] = 0
        BY <1>1, <1>3 DEF ConnInv, WireInv
    <2>4. WireInv(c)'
        BY <1>1, <1>3, <1>4, <2>3 DEF ConnInv, WireInv, Testing
    <2>5. SyncOf(c)'
        BY <1>1, <1>3 DEF ConnInv, WireInv, SyncOf
    <2> QED
        BY <2>1, <2>2, <2>4, <2>5 DEF ConnInv
<1>6. ASSUME NEW d \in Conn, d # c PROVE Same(d)
    BY <1>1, <1>6 DEF Same, ServerType
<1> QED
    BY <1>2, <1>5, <1>6, ActorKeeps

\* A connection is accepted.
LEMMA AcceptKeeps ==
    ASSUME ServerInv, NEW c \in Conn, Accept(c)
    PROVE  ServerInv'
<1>1. /\ ServerType /\ ConnInv(c) /\ sock[c] = "pending" /\ hand = None /\ hand' = c
      /\ UNCHANGED <<clients, phase, login, stmts, counter, wire, awaits, cseq, mine, cred, seen, columnless>>
      /\ sock' = [sock EXCEPT ![c] = "open"]
    BY DEF Accept, ServerInv, clientVars, credVars
<1>2. ServerType' /\ StmtInv'
    BY <1>1 DEF ServerInv, ServerType, StmtInv
<1>3. phase[c] = "none" /\ sock'[c] = "open" /\ awaits[c] # None
    BY <1>1 DEF ConnInv, TableInv, ServerType
<1>4. ConnInv(c)'
    <2>1. TableInv(c)'
        BY <1>1, <1>3 DEF ConnInv, TableInv
    <2>2. AuthInv(c)'
        BY <1>1, <1>3 DEF AuthInv, LoggingIn
    <2>3. WireInv(c)'
        BY <1>1, <1>3 DEF ConnInv, WireInv, Testing
    <2>4. SyncOf(c)'
        BY <1>1, <1>3 DEF ConnInv, WireInv, SyncOf
    <2> QED
        BY <2>1, <2>2, <2>3, <2>4 DEF ConnInv
<1>5. ASSUME NEW d \in Conn, d # c PROVE Same(d)
    BY <1>1, <1>5, ServerAssumption DEF Same, ServerType, None
<1> QED
    BY <1>2, <1>4, <1>5, ActorKeeps

\* The connection accepted is registered.
LEMMA RegisterKeeps ==
    ASSUME ServerInv, Register
    PROVE  ServerInv'
<1>1. /\ ServerType /\ hand \in Conn /\ hand' = None /\ clients' = clients \cup {hand}
      /\ phase' = [phase EXCEPT ![hand] = "greet"] /\ seen' = [seen EXCEPT ![hand] = {cred}]
      /\ UNCHANGED <<sock, login, stmts, counter, wire, awaits, cseq, mine, cred, columnless>>
    BY DEF Register, ServerInv, ServerType, clientVars
<1>2. ServerType' /\ StmtInv'
    BY <1>1 DEF ServerInv, ServerType, StmtInv, Phase
<1>3. ConnInv(hand) /\ phase[hand] = "none" /\ sock[hand] \in {"open", "closed"} /\ hand # None
    BY <1>1, ServerAssumption DEF ServerInv, ConnInv, TableInv, None
<1>4. phase'[hand] = "greet" /\ seen'[hand] = {cred}
    BY <1>1 DEF ServerType
<1>5. \A d \in Conn : d # hand => Same(d)
    BY <1>1, <1>3, ServerAssumption DEF Same, ServerType, None
<1>6. \A d \in Conn : d # None
    BY ServerAssumption DEF None
<1>7. PICK e \in Conn : e = hand
    BY <1>1
<1>8. /\ e \in clients' /\ hand' # e /\ phase'[e] = "greet" /\ seen'[e] = {cred} /\ ConnInv(e)
      /\ phase[e] = "none" /\ sock[e] \in {"open", "closed"}
    BY <1>1, <1>3, <1>4, <1>6, <1>7
<1>9. awaits[e] \in {"handshake", "gone"} /\ wire[e] = << >>
    BY <1>8 DEF ConnInv, WireInv, TableInv
<1>10. ConnInv(e)'
    <2>1. TableInv(e)'
        BY <1>1, <1>8 DEF ConnInv, TableInv
    <2>2. AuthInv(e)'
        BY <1>1, <1>8, FS_Singleton DEF AuthInv
    <2>3. WireInv(e)'
        BY <1>1, <1>8, <1>9 DEF ConnInv, WireInv, Testing
    <2>4. SyncOf(e)'
        BY <1>1, <1>9 DEF SyncOf
    <2> QED
        BY <2>1, <2>2, <2>3, <2>4 DEF ConnInv
<1> QED
    BY <1>2, <1>5, <1>7, <1>10, ActorKeeps

\* Steps that only close sockets.
LEMMA SocketsKeep ==
    ASSUME ServerInv,
           UNCHANGED <<clients, hand, phase, login, stmts, counter, wire, awaits, cseq, mine,
                       cred, seen, columnless>>,
           sock' \in [Conn -> {"new", "pending", "open", "closed"}],
           \A d \in Conn : sock'[d] = sock[d] \/ (sock[d] \in {"pending", "open"} /\ sock'[d] = "closed")
    PROVE  ServerInv'
<1>1. ServerType' /\ StmtInv'
    BY DEF ServerInv, ServerType, StmtInv
<1>2. ASSUME NEW d \in Conn PROVE ConnInv(d)'
    <2>1. ConnInv(d)
        BY DEF ServerInv
    <2>2. TableInv(d)'
        BY <2>1 DEF ConnInv, TableInv
    <2>3. AuthInv(d)'
        BY <2>1, SeenGrows DEF ConnInv
    <2>4. WireInv(d)'
        BY <2>1 DEF ConnInv, WireInv, authSeq
    <2>5. SyncOf(d)'
        BY <2>1 DEF ConnInv, SyncOf
    <2> QED
        BY <2>2, <2>3, <2>4, <2>5 DEF ConnInv
<1> QED
    BY <1>1, <1>2 DEF ServerInv

\* Stop, and the end of the accept loop.
LEMMA StopKeeps ==
    ASSUME ServerInv, Stop \/ AcceptFails
    PROVE  ServerInv'
<1>1. UNCHANGED <<clients, hand, phase, login, stmts, counter, wire, awaits, cseq, mine, cred, seen, columnless>>
    BY DEF Stop, StopFlag, StopSweep, StopListener, AcceptFails, connVars, clientVars, credVars
<1>2. sock \in [Conn -> {"new", "pending", "open", "closed"}]
    BY DEF ServerInv, ServerType
<1>3. CASE sock' = sock
    BY <1>1, <1>2, <1>3, SocketsKeep
<1>4. CASE sock' = [d \in Conn |-> IF d \in clients /\ sock[d] = "open" THEN "closed" ELSE sock[d]]
    <2>1. /\ sock' \in [Conn -> {"new", "pending", "open", "closed"}]
          /\ \A d \in Conn : sock'[d] = sock[d] \/ (sock[d] \in {"pending", "open"} /\ sock'[d] = "closed")
        BY <1>2, <1>4
    <2> QED
        BY <1>1, <2>1, SocketsKeep
<1>5. CASE sock' = [d \in Conn |-> IF sock[d] = "pending" THEN "closed" ELSE sock[d]]
    <2>1. /\ sock' \in [Conn -> {"new", "pending", "open", "closed"}]
          /\ \A d \in Conn : sock'[d] = sock[d] \/ (sock[d] \in {"pending", "open"} /\ sock'[d] = "closed")
        BY <1>2, <1>5
    <2> QED
        BY <1>1, <2>1, SocketsKeep
<1> QED
    BY <1>3, <1>4, <1>5 DEF Stop, StopFlag, StopSweep, StopListener, AcceptFails, connVars

----------------------------------------------------------------------------
(* The command loop.                                                        *)

\* A command comes when the client has its last reply.
LEMMA SendsGives ==
    ASSUME ServerInv, NEW c \in Conn, NEW command \in Awaited, Sends(c, command)
    PROVE  /\ ServerType /\ ConnInv(c)
           /\ phase[c] = "command" /\ sock[c] = "open" /\ wire[c] = << >>
           /\ UNCHANGED <<clients, hand, sock, login>>
           /\ awaits' \in [Conn -> Awaited] /\ awaits'[c] = command
           /\ cseq' \in [Conn -> 0..(ByteMod - 1)]
           /\ cseq'[c] = (IF command \in {"ready", "gone"} THEN 0 ELSE 1 % ByteMod)
           /\ \A d \in Conn : d # c => awaits'[d] = awaits[d] /\ cseq'[d] = cseq[d]
<1>1. ServerType /\ ConnInv(c)
    BY DEF ServerInv
<1>2. 0 \in 0..(ByteMod - 1) /\ 1 % ByteMod \in 0..(ByteMod - 1)
    BY ByteModPositive, Modulo
<1> DEFINE start == IF command \in {"ready", "gone"} THEN 0 ELSE 1 % ByteMod
<1>3. start \in 0..(ByteMod - 1)
    BY <1>2
<1>4. cseq' = [cseq EXCEPT ![c] = start] /\ awaits' = [awaits EXCEPT ![c] = command]
    BY DEF Sends
<1> HIDE DEF start
<1>5. /\ cseq' \in [Conn -> 0..(ByteMod - 1)] /\ cseq'[c] = start
      /\ \A d \in Conn : d # c => cseq'[d] = cseq[d]
    BY <1>1, <1>3, <1>4 DEF ServerType
<1>6. /\ awaits' \in [Conn -> Awaited] /\ awaits'[c] = command
      /\ \A d \in Conn : d # c => awaits'[d] = awaits[d]
    BY <1>1, <1>4 DEF ServerType
<1> QED
    BY <1>1, <1>5, <1>6 DEF Sends, serverVars, start

\* The invariant of a connection in the command loop.
LEMMA InCommand ==
    ASSUME NEW c \in Conn, ConnInv(c), UNCHANGED <<clients, hand, sock>>,
           phase[c] = "command", phase'[c] \in {"command", "leaving"}, sock[c] = "open",
           awaits'[c] \in Awaited \ {None, "handshake", "login"}, SyncOf(c)'
    PROVE  ConnInv(c)'
<1>1. TableInv(c)'
    BY DEF ConnInv, TableInv
<1>2. AuthInv(c)'
    BY DEF AuthInv, LoggingIn
<1>3. WireInv(c)'
    BY DEF WireInv, Testing
<1> QED
    BY <1>1, <1>2, <1>3 DEF ConnInv

\* A command with a reply that fits it, whatever it does to statements and credentials.
LEMMA CommandKeeps ==
    ASSUME ServerInv, NEW c \in Conn,
           NEW command \in Awaited \ {None, "handshake", "login", "ready", "gone"}, Sends(c, command),
           NEW packets \in Seq(Unsent), Write(c, packets, 1),
           IsReply(Numbered(packets, 1), command) \/ c \in columnless',
           phase' = phase, counter' \in Nat, stmts' = [d \in Conn |-> stmts'[d]], mine' = stmts', StmtInv',
           columnless' \subseteq Conn, \A d \in Conn : d # c => (d \in columnless' <=> d \in columnless),
           cred' \in Cred, seen' \in [Conn -> SUBSET Cred],
           \A d \in Conn : \/ cred' = cred /\ seen'[d] = seen[d]
                           \/ seen'[d] = IF d \in LoggingIn THEN seen[d] \cup {cred'} ELSE seen[d]
    PROVE  ServerInv'
<1>1. /\ ServerType /\ ConnInv(c)
      /\ phase[c] = "command" /\ sock[c] = "open" /\ wire[c] = << >>
      /\ UNCHANGED <<clients, hand, sock, login>>
      /\ awaits' \in [Conn -> Awaited] /\ awaits'[c] = command
      /\ cseq' \in [Conn -> 0..(ByteMod - 1)] /\ cseq'[c] = 1 % ByteMod
      /\ \A d \in Conn : d # c => awaits'[d] = awaits[d] /\ cseq'[d] = cseq[d]
    BY SendsGives
<1>2. 1 \in Nat
    OBVIOUS
<1>3. /\ wire' \in [Conn -> Seq(PacketSent)] /\ wire'[c] = Numbered(packets, 1)
      /\ \A d \in Conn : d # c => wire'[d] = wire[d]
    BY <1>1, <1>2, Written
<1>4. SyncOf(c)'
    <2>1. CASE c \in columnless'
        BY <2>1 DEF SyncOf
    <2>2. CASE IsReply(Numbered(packets, 1), command)
        BY <1>1, <1>2, <1>3, <2>2, NewReplyInSync
    <2> QED
        BY <2>1, <2>2
<1>5. ConnInv(c)'
    BY <1>1, <1>4, InCommand
<1>6. ServerType'
    BY <1>1, <1>3 DEF ServerType
<1>7. ASSUME NEW d \in Conn, d # c PROVE Same(d)
    BY <1>1, <1>3, <1>7 DEF Same
<1> QED
    BY <1>5, <1>6, <1>7, ActorKeeps

\* Commands that change neither statements nor credentials.
LEMMA PlainCommandKeeps ==
    ASSUME ServerInv, NEW c \in Conn,
           NEW command \in Awaited \ {None, "handshake", "login", "ready", "gone"}, Sends(c, command),
           NEW packets \in Seq(Unsent), Write(c, packets, 1), IsReply(Numbered(packets, 1), command),
           UNCHANGED <<phase, stmts, counter, mine, cred, seen, columnless>>
    PROVE  ServerInv'
<1>1. ServerType /\ StmtInv
    BY DEF ServerInv
<1>2. /\ counter' \in Nat /\ stmts' = [d \in Conn |-> stmts'[d]] /\ mine' = stmts'
      /\ columnless' \subseteq Conn /\ cred' \in Cred /\ seen' \in [Conn -> SUBSET Cred]
    BY <1>1 DEF ServerType
<1>3. StmtInv'
    BY <1>1 DEF StmtInv
<1> QED
    BY <1>2, <1>3, CommandKeeps

\* The replies of one packet, and those of a query.
LEMMA ShortReplies ==
    /\ OK \in Seq(Unsent) /\ Error \in Seq(Unsent)
    /\ <<Packet("text", 0)>> \in Seq(Unsent) /\ <<Packet("eof", 0)>> \in Seq(Unsent)
<1>1. 0 \in Nat
    OBVIOUS
<1> QED
    BY <1>1, OnePacket DEF Kind, OK, Error

\* What answers a statement of the engine fits COM_QUERY and COM_STMT_EXECUTE.
LEMMA QueryReplies ==
    ASSUME NEW s \in Statements
    PROVE  /\ QueryReply(s) \in Seq(Unsent)
           /\ IsReply(Numbered(QueryReply(s), 1), "query") /\ IsReply(Numbered(QueryReply(s), 1), "execute")
<1>1. QueryReply(s) \in {ResultSet(1, 2), OK, Error}
    BY DEF Statements, QueryReply
<1>2. 1 \in Nat
    OBVIOUS
<1> QED
    BY <1>1, <1>2, ShortReplies, TwoRows, Replies

\* COM_PING and the other commands of one packet.
LEMMA SimpleKeeps ==
    ASSUME ServerInv, NEW c \in Conn, SimpleCommand(c)
    PROVE  ServerInv'
<1>1. UNCHANGED <<phase, stmts, counter, mine, cred, seen, columnless>>
    BY DEF SimpleCommand, credVars
<1>2. \/ Sends(c, "ping") /\ Write(c, OK, 1)
      \/ Sends(c, "statistics") /\ Write(c, <<Packet("text", 0)>>, 1)
      \/ Sends(c, "field list") /\ Write(c, <<Packet("eof", 0)>>, 1)
      \/ Sends(c, "unknown") /\ Write(c, Error, 1)
    <2>1. PICK r \in {<<"ping", OK>>, <<"statistics", <<Packet("text", 0)>>>>,
                      <<"field list", <<Packet("eof", 0)>>>>, <<"unknown", Error>>} :
            Sends(c, r[1]) /\ Write(c, r[2], 1)
        BY DEF SimpleCommand
    <2>2. \/ r[1] = "ping" /\ r[2] = OK
          \/ r[1] = "statistics" /\ r[2] = <<Packet("text", 0)>>
          \/ r[1] = "field list" /\ r[2] = <<Packet("eof", 0)>>
          \/ r[1] = "unknown" /\ r[2] = Error
        <3>1. \/ r = <<"ping", OK>> \/ r = <<"statistics", <<Packet("text", 0)>>>>
              \/ r = <<"field list", <<Packet("eof", 0)>>>> \/ r = <<"unknown", Error>>
            BY Zenon
        <3>2. CASE r = <<"ping", OK>>
            BY <3>2
        <3>3. CASE r = <<"statistics", <<Packet("text", 0)>>>>
            BY <3>3
        <3>4. CASE r = <<"field list", <<Packet("eof", 0)>>>>
            BY <3>4
        <3>5. CASE r = <<"unknown", Error>>
            BY <3>5
        <3> QED
            BY <3>1, <3>2, <3>3, <3>4, <3>5
    <2> QED
        BY <2>1, <2>2, Zenon
<1>3. {"ping", "statistics", "field list", "unknown"}
        \subseteq Awaited \ {None, "handshake", "login", "ready", "gone"}
    BY DEF Awaited, None
<1>4. /\ IsReply(Numbered(OK, 1), "ping") /\ IsReply(Numbered(Error, 1), "unknown")
      /\ IsReply(Numbered(<<Packet("text", 0)>>, 1), "statistics")
      /\ IsReply(Numbered(<<Packet("eof", 0)>>, 1), "field list")
    BY Replies
<1>5. CASE Sends(c, "ping") /\ Write(c, OK, 1)
    BY <1>1, <1>3, <1>4, <1>5, ShortReplies, PlainCommandKeeps
<1>6. CASE Sends(c, "statistics") /\ Write(c, <<Packet("text", 0)>>, 1)
    BY <1>1, <1>3, <1>4, <1>6, ShortReplies, PlainCommandKeeps
<1>7. CASE Sends(c, "field list") /\ Write(c, <<Packet("eof", 0)>>, 1)
    BY <1>1, <1>3, <1>4, <1>7, ShortReplies, PlainCommandKeeps
<1>8. CASE Sends(c, "unknown") /\ Write(c, Error, 1)
    BY <1>1, <1>3, <1>4, <1>8, ShortReplies, PlainCommandKeeps
<1> QED
    BY <1>2, <1>5, <1>6, <1>7, <1>8

\* COM_QUERY, a change of the credentials by SET included.
LEMMA QueryKeeps ==
    ASSUME ServerInv, NEW c \in Conn, handleQuery(c)
    PROVE  ServerInv'
<1>1. Sends(c, "query") /\ UNCHANGED <<phase, stmts, counter, mine, columnless>> /\ ServerType /\ StmtInv
    BY DEF handleQuery, ServerInv
<1>2. "query" \in Awaited \ {None, "handshake", "login", "ready", "gone"}
    BY DEF Awaited, None
<1>3. ASSUME NEW s \in Statements, Write(c, QueryReply(s), 1), UNCHANGED credVars
      PROVE  ServerInv'
    <2>1. UNCHANGED <<cred, seen>>
        BY <1>3 DEF credVars
    <2> QED
        BY <1>1, <1>2, <1>3, <2>1, QueryReplies, PlainCommandKeeps
<1>4. ASSUME NEW s \in SetStatements, Write(c, OK, 1),
             SetCred(IF s.set = "user" THEN SetCredentials(s.to, "") ELSE SetCredentials(cred.username, s.to))
      PROVE  ServerInv'
    <2> DEFINE k == IF s.set = "user" THEN SetCredentials(s.to, "") ELSE SetCredentials(cred.username, s.to)
    <2>1. k \in Cred
        <3>1. (s.set = "user" /\ s.to \in User) \/ (s.set = "password" /\ s.to \in Password)
            <4>1. CASE s \in {[set |-> "user", to |-> u] : u \in User}
                <5>1. PICK u \in User : s = [set |-> "user", to |-> u]
                    BY <4>1
                <5> QED
                    BY <5>1
            <4>2. CASE s \in {[set |-> "password", to |-> p] : p \in Password}
                <5>1. PICK p \in Password : s = [set |-> "password", to |-> p]
                    BY <4>2
                <5> QED
                    BY <5>1
            <4> QED
                BY <1>4, <4>1, <4>2 DEF SetStatements
        <3>2. cred.username \in User /\ "" \in Password
            BY <1>1, ServerAssumption DEF ServerType, Cred
        <3>3. \A u \in User, p \in Password : SetCredentials(u, p) \in Cred
            BY DEF SetCredentials, Cred
        <3> QED
            BY <3>1, <3>2, <3>3
    <2>2. /\ cred' = k
          /\ seen' = [d \in Conn |-> IF d \in LoggingIn THEN seen[d] \cup {k} ELSE seen[d]]
        BY <1>4 DEF SetCred
    <2> HIDE DEF k
    <2>3. cred' \in Cred /\ seen' \in [Conn -> SUBSET Cred]
        BY <1>1, <2>1, <2>2 DEF ServerType
    <2>4. \A d \in Conn : seen'[d] = IF d \in LoggingIn THEN seen[d] \cup {cred'} ELSE seen[d]
        BY <2>2
    <2>5. /\ counter' \in Nat /\ stmts' = [d \in Conn |-> stmts'[d]] /\ mine' = stmts'
          /\ columnless' \subseteq Conn
        BY <1>1 DEF ServerType
    <2>6. StmtInv'
        BY <1>1 DEF StmtInv
    <2>7. IsReply(Numbered(OK, 1), "query")
        BY Replies
    <2> QED
        BY <1>1, <1>2, <1>4, <2>3, <2>4, <2>5, <2>6, <2>7, ShortReplies, CommandKeeps
<1> QED
    BY <1>3, <1>4 DEF handleQuery

\* COM_STMT_PREPARE: the id is a new one on every connection.
LEMMA PrepareKeeps ==
    ASSUME ServerInv, NEW c \in Conn, handleStmtPrepare(c)
    PROVE  ServerInv'
<1>1. /\ Sends(c, "prepare") /\ counter' = counter + 1 /\ UNCHANGED <<phase, cred, seen, columnless>>
      /\ ServerType /\ StmtInv
    BY DEF handleStmtPrepare, credVars, ServerInv
<1>2. PICK n \in Param :
         /\ stmts' = [stmts EXCEPT ![c] = [i \in DOMAIN @ \cup {counter'} |-> IF i = counter' THEN n ELSE @[i]]]
         /\ mine' = [mine EXCEPT ![c] = [i \in DOMAIN @ \cup {counter'} |-> IF i = counter' THEN n ELSE @[i]]]
         /\ Write(c, Prepared(n), 1)
    BY DEF handleStmtPrepare, Prepared
<1>3. n \in Nat /\ Prepared(n) \in Seq(Unsent) /\ IsReply(Numbered(Prepared(n), 1), "prepare")
    <2>1. n \in Nat /\ 1 \in Nat
        BY ServerAssumption
    <2> QED
        BY <2>1, PreparedReply, Replies
<1>4. "prepare" \in Awaited \ {None, "handshake", "login", "ready", "gone"}
    BY DEF Awaited, None
<1> DEFINE added == [i \in DOMAIN stmts[c] \cup {counter'} |-> IF i = counter' THEN n ELSE stmts[c][i]]
<1>5. DOMAIN added = {counter'} \cup DOMAIN stmts[c]
    OBVIOUS
<1>6. /\ stmts' = [stmts EXCEPT ![c] = added] /\ stmts = [d \in Conn |-> stmts[d]]
      /\ counter \in Nat /\ counter' \in Nat /\ mine' = stmts'
    BY <1>1, <1>2 DEF ServerType
<1> HIDE DEF added
<1>7. /\ stmts' = [d \in Conn |-> stmts'[d]] /\ stmts'[c] = added
      /\ \A d \in Conn : d # c => stmts'[d] = stmts[d]
    BY <1>6
<1>8. StmtInv'
    <2>1. ASSUME NEW d \in Conn, NEW i \in DOMAIN stmts'[d] PROVE i \in Nat /\ i <= counter'
        BY <1>1, <1>5, <1>6, <1>7, <2>1 DEF StmtInv
    <2>2. ASSUME NEW d \in Conn, NEW e \in Conn, d # e PROVE DOMAIN stmts'[d] \cap DOMAIN stmts'[e] = {}
        <3>1. \A f \in Conn : counter' \notin DOMAIN stmts[f]
            BY <1>1, <1>6 DEF StmtInv
        <3>2. DOMAIN stmts[d] \cap DOMAIN stmts[e] = {}
            BY <1>1, <2>2 DEF StmtInv
        <3>3. /\ DOMAIN stmts'[d] = (IF d = c THEN {counter'} \cup DOMAIN stmts[d] ELSE DOMAIN stmts[d])
              /\ DOMAIN stmts'[e] = (IF e = c THEN {counter'} \cup DOMAIN stmts[e] ELSE DOMAIN stmts[e])
            BY <1>5, <1>7
        <3> QED
            BY <2>2, <3>1, <3>2, <3>3
    <2> QED
        BY <2>1, <2>2 DEF StmtInv
<1>9. columnless' \subseteq Conn /\ cred' \in Cred /\ seen' \in [Conn -> SUBSET Cred]
    BY <1>1 DEF ServerType
<1> QED
    BY <1>1, <1>2, <1>3, <1>4, <1>6, <1>7, <1>8, <1>9, CommandKeeps

\* COM_STMT_EXECUTE, of a statement there is or is not, with or without columns.
LEMMA ExecuteKeeps ==
    ASSUME ServerInv, NEW c \in Conn, handleStmtExecute(c)
    PROVE  ServerInv'
<1>1. /\ Sends(c, "execute") /\ UNCHANGED <<phase, stmts, counter, mine, cred, seen>>
      /\ ServerType /\ StmtInv
    BY DEF handleStmtExecute, credVars, ServerInv
<1>2. "execute" \in Awaited \ {None, "handshake", "login", "ready", "gone"}
    BY DEF Awaited, None
<1>3. CASE Write(c, Error, 1) /\ UNCHANGED columnless
    <2>1. IsReply(Numbered(Error, 1), "execute")
        BY Replies
    <2> QED
        BY <1>1, <1>2, <1>3, <2>1, ShortReplies, PlainCommandKeeps
<1>4. ASSUME NEW s \in Statements, Write(c, QueryReply(s), 1), UNCHANGED columnless
      PROVE  ServerInv'
    BY <1>1, <1>2, <1>4, QueryReplies, PlainCommandKeeps
<1>5. CASE Write(c, <<Packet("header", 0), Packet("eof", 0)>>, 1) /\ columnless' = columnless \cup {c}
    <2> DEFINE packets == <<Packet("header", 0), Packet("eof", 0)>>
    <2>1. packets \in Seq(Unsent)
        <3>1. Packet("header", 0) \in Unsent /\ Packet("eof", 0) \in Unsent
            BY Packets DEF Kind
        <3> QED
            BY <3>1
    <2>2. Write(c, packets, 1)
        BY <1>5
    <2> HIDE DEF packets
    <2>3. /\ counter' \in Nat /\ stmts' = [d \in Conn |-> stmts'[d]] /\ mine' = stmts'
          /\ columnless' \subseteq Conn /\ cred' \in Cred /\ seen' \in [Conn -> SUBSET Cred]
          /\ c \in columnless' /\ \A d \in Conn : d # c => (d \in columnless' <=> d \in columnless)
        BY <1>1, <1>5 DEF ServerType
    <2>4. StmtInv'
        BY <1>1 DEF StmtInv
    <2> QED
        BY <1>1, <1>2, <2>1, <2>2, <2>3, <2>4, CommandKeeps
<1> QED
    BY <1>3, <1>4, <1>5 DEF handleStmtExecute

\* COM_STMT_CLOSE, which is not answered.
LEMMA CloseKeeps ==
    ASSUME ServerInv, NEW c \in Conn, handleStmtClose(c)
    PROVE  ServerInv'
<1>1. /\ Sends(c, "ready") /\ UNCHANGED <<phase, counter, wire, cred, seen, columnless>>
      /\ ServerType /\ StmtInv /\ "ready" \in Awaited
    BY DEF handleStmtClose, credVars, ServerInv, Awaited
<1>2. PICK id \in DOMAIN mine[c] :
         /\ stmts' = [stmts EXCEPT ![c] = [i \in DOMAIN @ \ {id} |-> @[i]]]
         /\ mine' = [mine EXCEPT ![c] = [i \in DOMAIN @ \ {id} |-> @[i]]]
    BY DEF handleStmtClose
<1> DEFINE rest == [i \in DOMAIN stmts[c] \ {id} |-> stmts[c][i]]
<1>3. stmts' = [stmts EXCEPT ![c] = rest] /\ mine' = stmts' /\ stmts = [d \in Conn |-> stmts[d]]
    BY <1>1, <1>2 DEF ServerType
<1>4. DOMAIN rest \subseteq DOMAIN stmts[c]
    OBVIOUS
<1> HIDE DEF rest
<1>5. /\ stmts' = [d \in Conn |-> stmts'[d]] /\ stmts'[c] = rest
      /\ \A d \in Conn : d # c => stmts'[d] = stmts[d]
    BY <1>3
<1>6. StmtInv'
    <2>1. \A d \in Conn : DOMAIN stmts'[d] \subseteq DOMAIN stmts[d]
        BY <1>4, <1>5
    <2> QED
        BY <1>1, <2>1 DEF StmtInv
<1>7. /\ ConnInv(c) /\ phase[c] = "command" /\ sock[c] = "open" /\ wire[c] = << >>
      /\ UNCHANGED <<clients, hand, sock, login>>
      /\ awaits' \in [Conn -> Awaited] /\ awaits'[c] = "ready"
      /\ cseq' \in [Conn -> 0..(ByteMod - 1)]
      /\ \A d \in Conn : d # c => awaits'[d] = awaits[d] /\ cseq'[d] = cseq[d]
    BY <1>1, SendsGives
<1>8. ServerType'
    BY <1>1, <1>3, <1>5, <1>7 DEF ServerType
<1>9. SyncOf(c)'
    BY <1>1, <1>7 DEF SyncOf
<1>10. ConnInv(c)'
    BY <1>1, <1>7, <1>9, InCommand DEF Awaited, None
<1>11. ASSUME NEW d \in Conn, d # c PROVE Same(d)
    BY <1>1, <1>7, <1>11 DEF Same
<1> QED
    BY <1>6, <1>8, <1>10, <1>11, ActorKeeps

\* COM_QUIT.
LEMMA QuitKeeps ==
    ASSUME ServerInv, NEW c \in Conn, Quit(c)
    PROVE  ServerInv'
<1>1. /\ Sends(c, "gone") /\ UNCHANGED <<stmts, counter, mine, wire, cred, seen, columnless>>
      /\ phase' = [phase EXCEPT ![c] = "leaving"]
      /\ ServerType /\ StmtInv /\ "gone" \in Awaited
    BY DEF Quit, credVars, ServerInv, Awaited
<1>2. /\ ConnInv(c) /\ phase[c] = "command" /\ sock[c] = "open" /\ wire[c] = << >>
      /\ UNCHANGED <<clients, hand, sock, login>>
      /\ awaits' \in [Conn -> Awaited] /\ awaits'[c] = "gone"
      /\ cseq' \in [Conn -> 0..(ByteMod - 1)]
      /\ \A d \in Conn : d # c => awaits'[d] = awaits[d] /\ cseq'[d] = cseq[d]
    BY <1>1, SendsGives
<1>3. /\ phase' \in [Conn -> Phase] /\ phase'[c] = "leaving"
      /\ \A d \in Conn : d # c => phase'[d] = phase[d]
    BY <1>1 DEF ServerType, Phase
<1>4. ServerType' /\ StmtInv'
    BY <1>1, <1>2, <1>3 DEF ServerType, StmtInv
<1>5. SyncOf(c)'
    BY <1>1, <1>2 DEF SyncOf
<1>6. ConnInv(c)'
    BY <1>1, <1>2, <1>3, <1>5, InCommand DEF Awaited, None
<1>7. ASSUME NEW d \in Conn, d # c PROVE Same(d)
    BY <1>1, <1>2, <1>3, <1>7 DEF Same
<1> QED
    BY <1>4, <1>6, <1>7, ActorKeeps

----------------------------------------------------------------------------
(* Clients.                                                                 *)

\* The answer to the handshake.
LEMMA ClientLoginKeeps ==
    ASSUME ServerInv, NEW c \in Conn, ClientLogin(c)
    PROVE  ServerInv'
<1>1. /\ ServerType /\ ConnInv(c) /\ phase[c] = "login"
      /\ UNCHANGED <<clients, hand, sock, stmts, counter, mine, cred, seen, columnless>>
      /\ wire' = [wire EXCEPT ![c] = << >>] /\ awaits' = [awaits EXCEPT ![c] = "login"]
      /\ cseq' = [cseq EXCEPT ![c] = 2 % ByteMod] /\ phase' = [phase EXCEPT ![c] = "required"]
    BY DEF ClientLogin, Reads, ServerInv, serverVars, credVars
<1>2. PICK l \in Login : login' = [login EXCEPT ![c] = [user |-> l[1], password |-> l[2], switched |-> FALSE]]
    BY DEF ClientLogin
<1>3. /\ login' \in [Conn -> [user : User, password : Password, switched : BOOLEAN]]
      /\ login'[c].switched = FALSE /\ \A d \in Conn : d # c => login'[d] = login[d]
    <2> DEFINE new == [user |-> l[1], password |-> l[2], switched |-> FALSE]
    <2>1. new \in [user : User, password : Password, switched : BOOLEAN] /\ new.switched = FALSE
        BY ServerAssumption
    <2>2. login' = [login EXCEPT ![c] = new]
        BY <1>2
    <2> HIDE DEF new
    <2> QED
        BY <1>1, <2>1, <2>2 DEF ServerType
<1>4. /\ phase' \in [Conn -> Phase] /\ phase'[c] = "required" /\ \A d \in Conn : d # c => phase'[d] = phase[d]
      /\ awaits' \in [Conn -> Awaited] /\ awaits'[c] = "login" /\ \A d \in Conn : d # c => awaits'[d] = awaits[d]
    BY <1>1 DEF ServerType, Phase, Testing, Awaited
<1>5. wire' \in [Conn -> Seq(PacketSent)] /\ wire'[c] = << >> /\ \A d \in Conn : d # c => wire'[d] = wire[d]
    BY <1>1 DEF ServerType
<1>6. cseq' \in [Conn -> 0..(ByteMod - 1)] /\ cseq'[c] = 2 % ByteMod /\ \A d \in Conn : d # c => cseq'[d] = cseq[d]
    <2> DEFINE start == 2 % ByteMod
    <2>1. start \in 0..(ByteMod - 1)
        BY Modulo
    <2>2. cseq' = [cseq EXCEPT ![c] = start]
        BY <1>1
    <2> HIDE DEF start
    <2>3. cseq' \in [Conn -> 0..(ByteMod - 1)] /\ cseq'[c] = start /\ \A d \in Conn : d # c => cseq'[d] = cseq[d]
        BY <1>1, <2>1, <2>2 DEF ServerType
    <2> QED
        BY <2>3 DEF start
<1>7. ServerType' /\ StmtInv'
    BY <1>1, <1>3, <1>4, <1>5, <1>6 DEF ServerInv, ServerType, StmtInv
<1>8. ConnInv(c)'
    <2>1. TableInv(c)'
        BY <1>1, <1>4 DEF ConnInv, TableInv, None
    <2>2. AuthInv(c)'
        BY <1>1, <1>4 DEF ConnInv, AuthInv, LoggingIn
    <2>3. authSeq(c)' = 2
        BY <1>3 DEF authSeq
    <2>4. WireInv(c)'
        BY <1>3, <1>4, <1>5, <1>6, <2>3 DEF WireInv, Testing
    <2>5. SyncOf(c)'
        BY <1>5 DEF SyncOf
    <2> QED
        BY <2>1, <2>2, <2>4, <2>5 DEF ConnInv
<1>9. ASSUME NEW d \in Conn, d # c PROVE Same(d)
    BY <1>1, <1>3, <1>4, <1>5, <1>6, <1>9 DEF Same
<1> QED
    BY <1>7, <1>8, <1>9, ActorKeeps

\* The answer to the request to switch.
LEMMA ClientSwitchKeeps ==
    ASSUME ServerInv, NEW c \in Conn, ClientSwitch(c)
    PROVE  ServerInv'
<1>1. /\ ServerType /\ ConnInv(c) /\ phase[c] = "switchWait" /\ awaits[c] = "login"
      /\ UNCHANGED <<clients, hand, sock, stmts, counter, awaits, mine, cred, seen, columnless>>
      /\ wire' = [wire EXCEPT ![c] = << >>] /\ login' = [login EXCEPT ![c].switched = TRUE]
      /\ cseq' = [cseq EXCEPT ![c] = 4 % ByteMod] /\ phase' = [phase EXCEPT ![c] = "switched"]
    BY DEF ClientSwitch, Reads, ServerInv, serverVars, credVars
<1>2. /\ login' \in [Conn -> [user : User, password : Password, switched : BOOLEAN]]
      /\ login'[c].switched = TRUE /\ login'[c].user = login[c].user /\ login'[c].password = login[c].password
      /\ \A d \in Conn : d # c => login'[d] = login[d]
    BY <1>1 DEF ServerType
<1>3. phase' \in [Conn -> Phase] /\ phase'[c] = "switched" /\ \A d \in Conn : d # c => phase'[d] = phase[d]
    BY <1>1 DEF ServerType, Phase, Testing
<1>4. wire' \in [Conn -> Seq(PacketSent)] /\ wire'[c] = << >> /\ \A d \in Conn : d # c => wire'[d] = wire[d]
    BY <1>1 DEF ServerType
<1>5. cseq' \in [Conn -> 0..(ByteMod - 1)] /\ cseq'[c] = 4 % ByteMod /\ \A d \in Conn : d # c => cseq'[d] = cseq[d]
    <2> DEFINE start == 4 % ByteMod
    <2>1. start \in 0..(ByteMod - 1)
        BY Modulo
    <2>2. cseq' = [cseq EXCEPT ![c] = start]
        BY <1>1
    <2> HIDE DEF start
    <2>3. cseq' \in [Conn -> 0..(ByteMod - 1)] /\ cseq'[c] = start /\ \A d \in Conn : d # c => cseq'[d] = cseq[d]
        BY <1>1, <2>1, <2>2 DEF ServerType
    <2> QED
        BY <2>3 DEF start
<1>6. ServerType' /\ StmtInv'
    BY <1>1, <1>2, <1>3, <1>4, <1>5 DEF ServerInv, ServerType, StmtInv
<1>7. ConnInv(c)'
    <2>1. TableInv(c)'
        BY <1>1, <1>3 DEF ConnInv, TableInv
    <2>2. SawEnabled(c)' = SawEnabled(c) /\ SawUser(c)' = SawUser(c)
        BY <1>1, <1>2 DEF SawEnabled, SawUser
    <2>3. AuthInv(c)'
        BY <1>1, <1>3, <2>2 DEF ConnInv, AuthInv, LoggingIn
    <2>4. authSeq(c)' = 4
        BY <1>2 DEF authSeq
    <2>5. WireInv(c)'
        BY <1>1, <1>3, <1>4, <1>5, <2>4 DEF WireInv, Testing
    <2>6. SyncOf(c)'
        BY <1>4 DEF SyncOf
    <2> QED
        BY <2>1, <2>3, <2>5, <2>6 DEF ConnInv
<1>8. ASSUME NEW d \in Conn, d # c PROVE Same(d)
    BY <1>1, <1>2, <1>3, <1>4, <1>5, <1>8 DEF Same
<1> QED
    BY <1>6, <1>7, <1>8, ActorKeeps

\* A reply is read.
LEMMA ClientReplyKeeps ==
    ASSUME ServerInv, NEW c \in Conn, ClientReply(c)
    PROVE  ServerInv'
<1>1. /\ ServerType /\ ConnInv(c)
      /\ UNCHANGED <<clients, hand, phase, sock, login, stmts, counter, mine, cred, seen, columnless>>
      /\ wire[c] # << >> /\ Head(wire[c]).kind # "switch" /\ awaits[c] \notin {None, "handshake", "ready", "gone"}
      /\ wire' = [wire EXCEPT ![c] = << >>] /\ cseq' = [cseq EXCEPT ![c] = 0]
      /\ \E a \in {"gone", "ready"} : awaits' = [awaits EXCEPT ![c] = a]
    BY DEF ClientReply, ServerInv, serverVars, connVars, credVars
<1>2. wire' \in [Conn -> Seq(PacketSent)] /\ wire'[c] = << >> /\ \A d \in Conn : d # c => wire'[d] = wire[d]
    BY <1>1 DEF ServerType
<1>3. /\ awaits' \in [Conn -> Awaited] /\ awaits'[c] \in {"gone", "ready"}
      /\ \A d \in Conn : d # c => awaits'[d] = awaits[d]
    BY <1>1 DEF ServerType, Awaited
<1>4. cseq' \in [Conn -> 0..(ByteMod - 1)] /\ \A d \in Conn : d # c => cseq'[d] = cseq[d]
    BY <1>1, ByteModPositive DEF ServerType
<1>5. ServerType' /\ StmtInv'
    BY <1>1, <1>2, <1>3, <1>4 DEF ServerInv, ServerType, StmtInv
<1>6. phase[c] \in {"command", "leaving", "left"}
    <2>1. phase[c] \in Phase
        BY <1>1 DEF ServerType
    <2> QED
        BY <1>1, <2>1 DEF ConnInv, WireInv, Phase
<1>7. ConnInv(c)'
    <2>1. TableInv(c)'
        BY <1>1, <1>3 DEF ConnInv, TableInv, None
    <2>2. AuthInv(c)'
        BY <1>1, <1>6 DEF AuthInv, LoggingIn
    <2>3. WireInv(c)'
        BY <1>1, <1>3, <1>6 DEF WireInv, Testing
    <2>4. SyncOf(c)'
        BY <1>2 DEF SyncOf
    <2> QED
        BY <2>1, <2>2, <2>3, <2>4 DEF ConnInv
<1>8. ASSUME NEW d \in Conn, d # c PROVE Same(d)
    BY <1>1, <1>2, <1>3, <1>4, <1>8 DEF Same
<1> QED
    BY <1>5, <1>7, <1>8, ActorKeeps

\* A client disappears, at any phase.
LEMMA DisconnectKeeps ==
    ASSUME ServerInv, NEW c \in Conn, Disconnect(c)
    PROVE  ServerInv'
<1>1. /\ ServerType /\ ConnInv(c) /\ sock[c] = "open"
      /\ UNCHANGED <<clients, hand, phase, login, stmts, counter, mine, cred, seen, columnless>>
      /\ wire' = [wire EXCEPT ![c] = << >>] /\ cseq' = [cseq EXCEPT ![c] = 0]
      /\ awaits' = [awaits EXCEPT ![c] = "gone"] /\ sock' = [sock EXCEPT ![c] = "closed"]
    BY DEF Disconnect, ServerInv, serverVars, credVars
<1>2. wire' \in [Conn -> Seq(PacketSent)] /\ wire'[c] = << >> /\ \A d \in Conn : d # c => wire'[d] = wire[d]
    BY <1>1 DEF ServerType
<1>3. /\ awaits' \in [Conn -> Awaited] /\ awaits'[c] = "gone" /\ \A d \in Conn : d # c => awaits'[d] = awaits[d]
      /\ sock' \in [Conn -> {"new", "pending", "open", "closed"}] /\ sock'[c] = "closed"
      /\ \A d \in Conn : d # c => sock'[d] = sock[d]
    BY <1>1 DEF ServerType, Awaited
<1>4. cseq' \in [Conn -> 0..(ByteMod - 1)] /\ cseq'[c] = 0 /\ \A d \in Conn : d # c => cseq'[d] = cseq[d]
    BY <1>1, ByteModPositive DEF ServerType
<1>5. ServerType' /\ StmtInv'
    BY <1>1, <1>2, <1>3, <1>4 DEF ServerInv, ServerType, StmtInv
<1>6. ConnInv(c)'
    <2>1. TableInv(c)'
        BY <1>1, <1>3 DEF ConnInv, TableInv, None
    <2>2. AuthInv(c)'
        BY <1>1, SeenGrows DEF ConnInv
    <2>3. WireInv(c)'
        BY <1>1, <1>2, <1>3, <1>4 DEF ConnInv, WireInv
    <2>4. SyncOf(c)'
        BY <1>2 DEF SyncOf
    <2> QED
        BY <2>1, <2>2, <2>3, <2>4 DEF ConnInv
<1>7. ASSUME NEW d \in Conn, d # c PROVE Same(d)
    BY <1>1, <1>2, <1>3, <1>4, <1>7 DEF Same
<1> QED
    BY <1>5, <1>6, <1>7, ActorKeeps

----------------------------------------------------------------------------
(* The theorems.                                                            *)

\* Every step of the server, of a client or of Stop keeps the invariant.
LEMMA NextKeeps ==
    ASSUME ServerInv, Next
    PROVE  ServerInv'
<1>1. ASSUME NEW c \in Conn, Accept(c) \/ Server(c) \/ Commands(c) \/ Client(c) PROVE ServerInv'
    <2>1. CASE Accept(c)
        BY <2>1, AcceptKeeps
    <2>2. CASE Server(c)
        BY <2>2, HandshakeKeeps, TestsKeep, SwitchKeeps, LoginEndKeeps, ReadFailsKeeps, LeaveKeeps DEF Server
    <2>3. CASE Commands(c)
        BY <2>3, SimpleKeeps, QueryKeeps, PrepareKeeps, ExecuteKeeps, CloseKeeps, QuitKeeps DEF Commands
    <2>4. CASE Client(c)
        BY <2>4, DialKeeps, ClientLoginKeeps, ClientSwitchKeeps, ClientReplyKeeps, DisconnectKeeps DEF Client
    <2> QED
        BY <1>1, <2>1, <2>2, <2>3, <2>4
<1> QED
    BY <1>1, RegisterKeeps, StopKeeps DEF Next

\* Every behaviour of the server keeps the invariant, from its start with the credentials
\* of the configuration.
THEOREM ServerInvariant == Spec => []ServerInv
<1>1. Init => ServerInv
    <2> SUFFICES ASSUME Init PROVE ServerInv
        OBVIOUS
    <2>1. cred \in Cred
        <3>1. PICK l \in Login : cred = SetCredentials(l[1], l[2])
            BY DEF Init
        <3>2. l[1] \in User /\ l[2] \in Password
            BY ServerAssumption
        <3> QED
            BY <3>1, <3>2 DEF SetCredentials, Cred
    <2>2. ServerType
        <3>1. login \in [Conn -> [user : User, password : Password, switched : BOOLEAN]]
            BY ServerAssumption DEF Init, NoLogin
        <3>2. cseq \in [Conn -> 0..(ByteMod - 1)]
            <4>1. cseq = [c \in Conn |-> 0]
                BY DEF Init
            <4>2. 0 \in 0..(ByteMod - 1)
                BY ByteModPositive
            <4> QED
                BY <4>1, <4>2
        <3>3. wire \in [Conn -> Seq(PacketSent)]
            <4>1. wire = [c \in Conn |-> << >>]
                BY DEF Init
            <4> QED
                BY <4>1
        <3>4. phase \in [Conn -> Phase] /\ awaits \in [Conn -> Awaited] /\ sock \in [Conn -> {"new", "pending", "open", "closed"}]
            BY DEF Init, Phase, Awaited
        <3>5. stmts = [c \in Conn |-> stmts[c]] /\ mine = stmts
            BY DEF Init
        <3>6. seen \in [Conn -> SUBSET Cred] /\ clients \subseteq Conn /\ columnless \subseteq Conn
              /\ hand \in Conn \cup {None} /\ counter \in Nat
            BY DEF Init
        <3> QED
            BY <2>1, <3>1, <3>2, <3>3, <3>4, <3>5, <3>6 DEF ServerType
    <2>3. StmtInv
        <3>1. stmts = [c \in Conn |-> << >>]
            BY DEF Init
        <3>2. \A c \in Conn : DOMAIN stmts[c] = {}
            BY <3>1
        <3> QED
            BY <3>2 DEF StmtInv
    <2>4. ASSUME NEW c \in Conn PROVE ConnInv(c)
        <3>1. /\ phase[c] = "none" /\ sock[c] = "new" /\ wire[c] = << >> /\ awaits[c] = None /\ cseq[c] = 0
              /\ hand # c /\ clients = {}
            BY ServerAssumption DEF Init, None
        <3>2. TableInv(c)
            BY <3>1 DEF TableInv
        <3>3. AuthInv(c)
            BY <3>1 DEF AuthInv, LoggingIn
        <3>4. WireInv(c)
            BY <3>1 DEF WireInv, Testing
        <3>5. SyncOf(c)
            BY <3>1 DEF SyncOf
        <3> QED
            BY <3>2, <3>3, <3>4, <3>5 DEF ConnInv
    <2> QED
        BY <2>2, <2>3, <2>4 DEF ServerInv
<1>2. ServerInv /\ [Next]_vars => ServerInv'
    <2> SUFFICES ASSUME ServerInv, [Next]_vars PROVE ServerInv'
        OBVIOUS
    <2>1. CASE Next
        BY <2>1, NextKeeps
    <2>2. CASE UNCHANGED vars
        <3>1. UNCHANGED <<clients, hand, phase, sock, login, stmts, counter, wire, awaits, cseq, mine,
                          cred, seen, columnless>>
            BY <2>2 DEF vars, serverVars, connVars, clientVars, credVars
        <3>2. sock \in [Conn -> {"new", "pending", "open", "closed"}]
            BY DEF ServerInv, ServerType
        <3> QED
            BY <3>1, <3>2, SocketsKeep
    <2> QED
        BY <2>1, <2>2
<1> QED
    BY <1>1, <1>2, PTL DEF Spec

\* handleAuth admits nobody who has not passed each test against credentials that were in
\* force while the connection logged in, whatever SET statements the other connections
\* run meanwhile; and if the credentials did not change, only who knows them.
THEOREM Legitimate == Spec => []AdmittedLegitimately
<1>1. ServerInv => AdmittedLegitimately
    <2> SUFFICES ASSUME ServerInv, NEW c \in Conn, phase[c] = "admit"
                 PROVE  /\ Cardinality(seen[c]) = 1 =>
                             \A k \in seen[c] : Admits(k, login[c].user, login[c].password)
                        /\ RequireAuth => \E k \in seen[c] : k.enabled
                        /\ \/ \E k \in seen[c] : ~k.enabled
                           \/ /\ \E k \in seen[c] : k.username \in {"", login[c].user}
                              /\ \E k \in seen[c] : k.password \in {NoPassword, login[c].password}
        BY DEF AdmittedLegitimately
    <2>1. /\ RequireAuth => SawEnabled(c)
          /\ SawDisabled(c) \/ (SawEnabled(c) /\ SawUser(c) /\ SawPassword(c))
        BY DEF ServerInv, ConnInv, AuthInv
    <2>2. ASSUME Cardinality(seen[c]) = 1, NEW k \in seen[c]
          PROVE  Admits(k, login[c].user, login[c].password)
        <3>1. IsFiniteSet(seen[c])
            BY DEF ServerInv, ConnInv, AuthInv, LoggingIn
        <3>2. \A j \in seen[c] : j = k
            BY <2>2, <3>1, FS_Singleton
        <3>3. /\ SawEnabled(c) => k.enabled = TRUE
              /\ SawDisabled(c) => k.enabled = FALSE
              /\ SawUser(c) => k.username \in {"", login[c].user}
              /\ SawPassword(c) => k.password = NoPassword \/ verifyPassword(login[c].password, k.password)
            BY <3>2 DEF SawEnabled, SawDisabled, SawUser, SawPassword
        <3> QED
            BY <2>1, <3>3, ServerAssumption DEF Admits
    <2>3. RequireAuth => \E k \in seen[c] : k.enabled
        BY <2>1 DEF SawEnabled
    <2>4. \/ \E k \in seen[c] : ~k.enabled
          \/ /\ \E k \in seen[c] : k.username \in {"", login[c].user}
             /\ \E k \in seen[c] : k.password \in {NoPassword, login[c].password}
        BY <2>1 DEF SawDisabled, SawUser, SawPassword, verifyPassword
    <2> QED
        BY <2>2, <2>3, <2>4
<1> QED
    BY <1>1, ServerInvariant, PTL

\* Server and client agree on where they are: one whole reply to what the client waits for,
\* numbered as it expects whatever the length of the reply, and the same prepared
\* statements, whose ids no two connections share.
THEOREM InStep == Spec => []ClientsInStep
<1>1. ServerInv => ClientsInStep
    <2> SUFFICES ASSUME ServerInv PROVE ClientsInStep
        OBVIOUS
    <2>1. ServerType /\ StmtInv /\ \A c \in Conn : TableInv(c) /\ SyncOf(c)
        BY DEF ServerInv, ConnInv
    <2>2. TypeOK
        <3>1. \A c \in Conn : \A i \in 1..Len(wire[c]) : wire[c][i].seq \in 0..(ByteMod - 1)
            <4> SUFFICES ASSUME NEW c \in Conn, NEW i \in 1..Len(wire[c])
                         PROVE  wire[c][i].seq \in 0..(ByteMod - 1)
                OBVIOUS
            <4>1. wire[c] \in Seq(PacketSent)
                BY <2>1 DEF ServerType
            <4>2. wire[c][i] \in PacketSent
                BY <4>1
            <4> QED
                BY <4>2 DEF PacketSent
        <3>2. \A c \in Conn : (c \in clients) <=> (phase[c] \notin {"none", "left"})
            BY <2>1 DEF TableInv
        <3> QED
            BY <2>1, <3>1, <3>2 DEF TypeOK, ServerType
    <2>3. InSync
        BY <2>1 DEF InSync, SyncOf
    <2>4. StatementsAgree
        BY <2>1 DEF StatementsAgree, ServerType, StmtInv
    <2> QED
        BY <2>2, <2>3, <2>4 DEF ClientsInStep
<1> QED
    BY <1>1, ServerInvariant, PTL
=============================================================================
