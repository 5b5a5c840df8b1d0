------------------------------ MODULE Session -------------------------------
(***************************************************************************)
(* One connection between the JavaScript client (nteedb-client-js          *)
(* src/index.js) and a server (nteedb-server handleConn, dispatch, proto,  *)
(* auth): commands are pipelined, answers carry no number and are matched  *)
(* to commands by their order alone, and a put is a command line followed  *)
(* by data blocks that only a handler which gets that far reads.           *)
(*                                                                         *)
(* A command is its kind; what it does to the store is in other modules,   *)
(* here only whether the store's operation was called.  The network is     *)
(* external: an ordered stream in each direction that may break.           *)
(***************************************************************************)
EXTENDS Naturals, Sequences, FiniteSets

CONSTANTS MaxCalls,       \* bound: calls on the client
          AuthRequired    \* the server has a password or an auth file

ASSUME SessionAssumption == MaxCalls \in Nat /\ AuthRequired \in BOOLEAN

Calls == 1 .. MaxCalls

(* auth with an administrator's, a user's or no valid credentials; data:   *)
(* any other command on one line; big: a put over MaxValue; long: a line   *)
(* over MaxLine; split and splitx: a put or putex, and a putx, whose key   *)
(* has a character that assertToken's \s does not match and strings.Fields *)
(* takes for a space, so that the server sees a word more.                 *)
Split == {"split", "splitx"}
Framed == {"put", "putx", "big"} \cup Split
Commands == {"hello", "authAdmin", "authUser", "authBad", "data", "admin",
             "long", "quit"} \cup Framed
Blocks(k) == IF k \in {"putx", "splitx"} THEN 2 ELSE IF k \in Framed THEN 1 ELSE 0

VARIABLES sent,       \* the kinds of the calls made, in order
          pending,    \* #pending: the calls that wait for an answer
          result,     \* how a call's promise settled
          got,        \* history: the command whose answer settled a call
          socket,     \* the client's end: open, destroyed or closed (#closed)
          c2s, s2c,   \* the two streams
          conn,       \* the server's end is open
          out,        \* the handler's answer that is not flushed yet
          last,       \* the handler returns after the flush
          role,       \* connState
          ran         \* history: <<call, role>> of the operations called

client == <<sent, pending, result, got, socket>>
server == <<conn, out, last, role, ran>>
svars == <<client, server, c2s, s2c>>

Roles == {"none", "user", "admin"}
Line(id) == [id |-> id, block |-> FALSE]
Block(id) == [id |-> id, block |-> TRUE]
Reply(id, ok) == [id |-> id, ok |-> ok]
Replies == [id: Calls \cup {0}, ok: BOOLEAN]

SessionTypeOK ==
    /\ sent \in Seq(Commands) /\ Len(sent) <= MaxCalls
    /\ pending \in Seq(Calls)
    /\ result \in [Calls -> {"none", "resolved", "rejected", "lost"}]
    /\ got \in [Calls -> Calls \cup {0}]
    /\ socket \in {"open", "destroyed", "closed"}
    /\ c2s \in Seq([id: Calls, block: BOOLEAN])
    /\ s2c \in Seq(Replies) /\ out \in Seq(Replies)
    /\ conn \in BOOLEAN /\ last \in BOOLEAN /\ role \in Roles
    /\ ran \subseteq Calls \X Roles
    /\ \A c \in Calls : result[c] = "none" /\ c <= Len(sent)
                            <=> \E i \in DOMAIN pending : pending[i] = c

SessionInit ==
    /\ sent = <<>> /\ pending = <<>> /\ socket = "open"
    /\ result = [c \in Calls |-> "none"] /\ got = [c \in Calls |-> 0]
    /\ c2s = <<>> /\ s2c = <<>> /\ out = <<>>
    /\ conn = TRUE /\ last = FALSE /\ ran = {}
    /\ role = IF AuthRequired THEN "none" ELSE "admin"

-----------------------------------------------------------------------------
(* The client.                                                             *)
Frame(id, k) == <<Line(id)>> \o [i \in 1 .. Blocks(k) |-> Block(id)]

(* #send: the frame is written in one piece and the slot registered.  On a *)
(* closed client the promise is rejected at once.                          *)
Send(k) ==
    LET id == Len(sent) + 1 IN
    /\ id <= MaxCalls
    /\ sent' = Append(sent, k)
    /\ IF socket = "closed"
       THEN result' = [result EXCEPT ![id] = "lost"] /\ UNCHANGED <<pending, c2s>>
       ELSE /\ pending' = Append(pending, id)
            /\ c2s' = IF socket = "open" /\ conn THEN c2s \o Frame(id, k) ELSE c2s
            /\ UNCHANGED result
    /\ UNCHANGED <<got, socket, s2c, server>>

(* Mutant: an error does not take its command off the queue.               *)
OnDataKeepsErr ==
    /\ socket = "open" /\ s2c # <<>>
    /\ s2c' = Tail(s2c)
    /\ IF pending = <<>>
       THEN socket' = "destroyed" /\ UNCHANGED <<pending, result, got>>
       ELSE LET c == Head(pending) r == Head(s2c) IN
            /\ pending' = IF r.ok THEN Tail(pending) ELSE pending
            /\ result' = [result EXCEPT ![c] = IF r.ok THEN "resolved" ELSE "rejected"]
            /\ got' = [got EXCEPT ![c] = r.id]
            /\ UNCHANGED socket
    /\ UNCHANGED <<sent, c2s, server>>

(* #onData: an answer settles the oldest command that waits; one that      *)
(* nobody waits for is a desync and destroys the socket.                   *)
OnData ==
    /\ socket = "open" /\ s2c # <<>>
    /\ s2c' = Tail(s2c)
    /\ IF pending = <<>>
       THEN socket' = "destroyed" /\ UNCHANGED <<pending, result, got>>
       ELSE LET c == Head(pending) r == Head(s2c) IN
            /\ pending' = Tail(pending)
            /\ result' = [result EXCEPT ![c] = IF r.ok THEN "resolved" ELSE "rejected"]
            /\ got' = [got EXCEPT ![c] = r.id]
            /\ UNCHANGED socket
    /\ UNCHANGED <<sent, c2s, server>>

(* quit() destroys the socket when the server's close does not come in     *)
(* time.                                                                   *)
QuitTimeout ==
    /\ socket = "open" /\ \E c \in DOMAIN sent : sent[c] = "quit"
    /\ socket' = "destroyed"
    /\ UNCHANGED <<sent, pending, result, got, c2s, s2c, server>>

(* Mutant: the close event rejects the oldest command only.                *)
OnCloseFirst ==
    /\ socket = "destroyed" \/ (socket = "open" /\ ~conn /\ s2c = <<>>)
    /\ socket' = "closed" /\ pending' = IF pending = <<>> THEN <<>> ELSE Tail(pending)
    /\ result' = [c \in Calls |-> IF pending # <<>> /\ c = Head(pending) THEN "lost" ELSE result[c]]
    /\ s2c' = <<>>
    /\ UNCHANGED <<sent, got, c2s, server>>

(* The close event, after a destroy or once the server's end is closed and *)
(* what it sent is read: every command that waits is rejected.             *)
OnClose ==
    /\ socket = "destroyed" \/ (socket = "open" /\ ~conn /\ s2c = <<>>)
    /\ socket' = "closed" /\ pending' = <<>>
    /\ result' = [c \in Calls |-> IF \E i \in DOMAIN pending : pending[i] = c
                                  THEN "lost" ELSE result[c]]
    /\ s2c' = <<>>
    /\ UNCHANGED <<sent, got, c2s, server>>

-----------------------------------------------------------------------------
(* The server's handler of the connection.                                 *)
Idle == conn /\ out = <<>> /\ ~last /\ c2s # <<>>
Cmd == Head(c2s).id
Kind == sent[Cmd]
AtLine == Idle /\ ~Head(c2s).block

Answer(ok, skip, quit, calls) ==
    /\ out' = <<Reply(Cmd, ok)>> /\ last' = quit
    /\ ran' = ran \cup calls
    /\ c2s' = SubSeq(c2s, 2 + skip, Len(c2s))
    /\ UNCHANGED <<conn, s2c, client>>

(* Before authentication: hello, auth and quit.                            *)
SessionCommand ==
    /\ AtLine
    /\ \/ Kind = "hello" /\ Answer(TRUE, 0, FALSE, {}) /\ UNCHANGED role
       \/ Kind = "quit" /\ Answer(TRUE, 0, TRUE, {}) /\ UNCHANGED role

(* check: without auth configured every credential is accepted as an       *)
(* administrator's; a refused one leaves the connection as it was.         *)
AuthCommand ==
    /\ AtLine
    /\ \/ /\ Kind = "authBad" /\ AuthRequired
          /\ Answer(FALSE, 0, FALSE, {}) /\ UNCHANGED role
       \/ /\ Kind \in {"authAdmin", "authUser", "authBad"} /\ (Kind = "authBad" => ~AuthRequired)
          /\ Answer(TRUE, 0, FALSE, {})
          /\ role' = IF Kind = "authUser" /\ AuthRequired THEN "user" ELSE "admin"

(* requireAuth: refused at the line, the blocks of a put not read.         *)
Refused ==
    /\ AtLine /\ role = "none" /\ Kind \in Framed \cup {"data", "admin"}
    /\ Answer(FALSE, 0, FALSE, {}) /\ UNCHANGED role

(* A command of one line: carried out, or failed in its arguments or in    *)
(* the store.                                                              *)
DataCommand ==
    /\ AtLine /\ role # "none" /\ Kind = "data"
    /\ \/ Answer(TRUE, 0, FALSE, {<<Cmd, role>>})
       \/ Answer(FALSE, 0, FALSE, {})
    /\ UNCHANGED role

(* Mutant: a put that fails in its TTL does not read its blocks.           *)
PutCommandEarly ==
    /\ AtLine /\ role # "none" /\ Kind \in {"put", "putx"}
    /\ \/ Answer(TRUE, Blocks(Kind), FALSE, {<<Cmd, role>>})
       \/ Answer(FALSE, 0, FALSE, {})
    /\ UNCHANGED role

(* put, putex and putx: the blocks are read first; a bad TTL, bad index    *)
(* values and an error of the store are reported after them.               *)
PutCommand ==
    /\ AtLine /\ role # "none" /\ Kind \in {"put", "putx"}
    /\ \/ Answer(TRUE, Blocks(Kind), FALSE, {<<Cmd, role>>})
       \/ Answer(FALSE, Blocks(Kind), FALSE, {})
    /\ UNCHANGED role

(* A put with a word too many leaves its blocks unread: put takes the rest *)
(* of the line for the value, putex and putx report their usage.  When the *)
(* words of a putx pass for its lengths, they are the wrong ones, and      *)
(* readData fails.                                                         *)
SplitPut ==
    /\ AtLine /\ role # "none" /\ Kind \in Split
    /\ \/ Kind = "split" /\ Answer(TRUE, 0, FALSE, {<<Cmd, role>>})
       \/ Answer(FALSE, 0, FALSE, {})
       \/ Kind = "splitx" /\ Answer(FALSE, 0, TRUE, {})
    /\ UNCHANGED role

(* readLine refuses the line, whoever sent it, or readData the size: the   *)
(* error is reported and the handler ends.                                 *)
FatalCommand ==
    /\ AtLine /\ (Kind = "long" \/ (role # "none" /\ Kind = "big"))
    /\ Answer(FALSE, 0, TRUE, {}) /\ UNCHANGED role

(* Mutant: compact, reindex and relieve ask for authentication only.       *)
AdminCommandAnyone ==
    /\ AtLine /\ role # "none" /\ Kind = "admin"
    /\ \/ Answer(TRUE, 0, FALSE, {<<Cmd, role>>})
       \/ Answer(FALSE, 0, FALSE, {})
    /\ UNCHANGED role

(* compact, reindex and relieve.                                           *)
AdminCommand ==
    /\ AtLine /\ role # "none" /\ Kind = "admin"
    /\ \/ role = "admin" /\ Answer(TRUE, 0, FALSE, {<<Cmd, role>>})
       \/ Answer(FALSE, 0, FALSE, {})
    /\ UNCHANGED role

(* A block no handler has read is the next line: skipped when it is blank, *)
(* otherwise answered as a command that is refused or unknown, the last    *)
(* one when it is over MaxLine.  Values of several lines, or that spell a  *)
(* command, are not among those modelled.                                  *)
StrayLine ==
    /\ Idle /\ Head(c2s).block
    /\ c2s' = Tail(c2s)
    /\ \/ UNCHANGED <<out, last>>
       \/ out' = <<Reply(0, FALSE)>> /\ last' \in BOOLEAN
    /\ UNCHANGED <<conn, role, ran, s2c, client>>

(* The flush after each command; a handler that is done closes.            *)
Flush ==
    /\ conn /\ out # <<>>
    /\ s2c' = IF socket = "open" THEN s2c \o out ELSE s2c
    /\ out' = <<>> /\ conn' = ~last
    /\ c2s' = IF last THEN <<>> ELSE c2s
    /\ UNCHANGED <<last, role, ran, client>>

(* The idle timeout, the server's Close, an error of the network or the    *)
(* client's destroy: what is under way is lost, answers from any point on. *)
Disconnect ==
    /\ conn
    /\ conn' = FALSE /\ out' = <<>> /\ c2s' = <<>>
    /\ \E n \in 0 .. Len(s2c) : s2c' = SubSeq(s2c, 1, n)
    /\ UNCHANGED <<last, role, ran, client>>

Handler == SessionCommand \/ AuthCommand \/ Refused \/ DataCommand \/ PutCommand
           \/ SplitPut \/ FatalCommand \/ AdminCommand \/ StrayLine

SessionNext ==
    \/ \E k \in Commands : Send(k)
    \/ OnData \/ QuitTimeout \/ OnClose
    \/ Handler \/ Flush \/ Disconnect

SessionSpec == SessionInit /\ [][SessionNext]_svars

(* The operations of the store return (Gate, CallsReturn), so a handler    *)
(* goes on; node delivers the data and the close of a socket.              *)
SessionFairSpec ==
    SessionSpec /\ WF_svars(Handler) /\ WF_svars(Flush) /\ WF_svars(OnData) /\ WF_svars(OnClose)

-----------------------------------------------------------------------------
(* The valid auth commands sent before call c, and whether every put up to *)
(* c was sent after one of them and with a key of one word, so that no     *)
(* data block is left unread.                                              *)
GrantedBefore(c) == {a \in DOMAIN sent : a < c /\ sent[a] \in {"authAdmin", "authUser"}}
InStep(c) ==
    \A d \in 1 .. c : sent[d] \in Framed =>
        sent[d] \notin Split /\ (AuthRequired => GrantedBefore(d) # {})

(* An answer settles the promise of the command it answers, however many   *)
(* commands are in flight and however they fail (#onData: answers are      *)
(* matched by order; NteeServerError: "The connection remains usable").    *)
(* It is so as long as no put was sent ahead of a valid auth or with a key *)
(* that the server splits: dispatch leaves the data block of such a put    *)
(* unread, and the answers of what follows can slip by one.                *)
RepliesMatch ==
    \A c \in DOMAIN sent :
        InStep(c) /\ result[c] \in {"resolved", "rejected"} => got[c] = c

(* The same without the exception, which is what assertToken is there for: *)
(* it rejects a token of several words "before it silently corrupts the    *)
(* command line" (protocol.js).  It rejects fewer tokens than the server   *)
(* splits, and the statement does not hold, with or without auth.          *)
RepliesExact ==
    \A c \in DOMAIN sent : result[c] \in {"resolved", "rejected"} => got[c] = c

(* A promise that resolves means the operation was carried out (in step,   *)
(* as above), and what is carried out has the rights that the auth         *)
(* commands sent before it have earned, also when the client did not wait  *)
(* for their answers (requireAuth, requireAdmin).                          *)
RanAsGranted ==
    /\ \A c \in DOMAIN sent :
         InStep(c) /\ result[c] = "resolved" /\ sent[c] \in {"data", "admin", "put", "putx"} =>
             \E r \in Roles : <<c, r>> \in ran
    /\ AuthRequired =>
         \A p \in ran :
             /\ GrantedBefore(p[1]) # {}
             /\ sent[p[1]] = "admin" =>
                  \E a \in GrantedBefore(p[1]) :
                      sent[a] = "authAdmin" /\ \A b \in GrantedBefore(p[1]) : b <= a

(* Every call of the client settles, whatever is lost: by an answer, or by *)
(* the close event that follows when none can come.                        *)
CallsSettle == \A c \in Calls : c <= Len(sent) ~> result[c] # "none"

=============================================================================
