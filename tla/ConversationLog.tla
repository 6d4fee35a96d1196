--------------------------- MODULE ConversationLog ---------------------------
(***************************************************************************)
(* What the message store promises to everything built on it: every        *)
(* conversation is one append-only log, and a message a client sent under  *)
(* an id of its own is in at most one log, at most once.  Pages of history *)
(* are prefixes and suffixes of this log, unread counts are differences of *)
(* two of its positions, and a reconnecting client asks for "everything    *)
(* after position n" and expects to be told all of it.                     *)
(*                                                                         *)
(* MessageLog, the transactions that write the tables, implements it.      *)
(***************************************************************************)
EXTENDS Naturals, Sequences

CONSTANTS
  Convs,    \* conversations
  Authors,  \* people who send messages
  MsgIds,   \* the ids clients give to their messages
  NoAuthor, \* the author of a system message
  NoMsgId   \* the id of a system message

VARIABLE log  \* the messages of each conversation, in order

(* One message: who wrote it, and under which client id.                   *)
Entries ==
  [author : Authors, id : MsgIds] \cup [author : {NoAuthor}, id : {NoMsgId}]

(* A sent message, in some log already.  System messages carry no id, so   *)
(* any number of them may be written.                                      *)
IsLogged(e) ==
  /\ e.author # NoAuthor
  /\ \E c \in Convs : \E i \in 1..Len(log[c]) : log[c][i] = e

Init == log = [c \in Convs |-> <<>>]

AppendEntry(c, e) ==
  /\ ~IsLogged(e)
  /\ log' = [log EXCEPT ![c] = Append(log[c], e)]

Next == \E c \in Convs, e \in Entries : AppendEntry(c, e)

Spec == Init /\ [][Next]_log
=============================================================================
