----------------------------- MODULE ControlWire -----------------------------
(***************************************************************************)
(* sa-control and the daemon: what a command line means to parse_opt, the  *)
(* packets sa_control_send_to_daemon makes of it, and how control_listen   *)
(* (main.c) receives and obeys them, one client after the other.  A packet *)
(* is one message of CONTROL_BUF_SIZE bytes on a stream socket.  The other *)
(* thread of the daemon is the subject of AlarmDaemon, the game behind the *)
(* option -r the subject of Game2048.                                      *)
(***************************************************************************)
EXTENDS Integers, Sequences

CONSTANTS Clients,        \* the invocations of sa-control
          CommandLines,   \* their possible arguments: options, each with the word after it
          Atoi,           \* what atoi makes of a word
          MaxHour, MaxMin,
          ClientFiles,    \* the words sa-control can open as files
          DaemonFiles,    \* the words the daemon can open, in its own directory
          Garbage,        \* what the uninitialised fname of sa-control holds
          NoWord,         \* an option with no word after it
          Interrupts      \* may the user interrupt a client?

ASSUME WireAssumption ==
  /\ MaxHour \in Nat /\ MaxMin \in Nat /\ Interrupts \in BOOLEAN
  /\ Garbage \notin DaemonFiles /\ NoWord \notin DOMAIN Atoi

VARIABLES line,      \* line[c]: the command line of c
          pc,        \* pc[c]: "parse", "connect", "send", "sent", "exited"
          sent,      \* sent[c]: how many of its packets are sent
          inbox,     \* inbox[c]: packets sent and not received
          backlog,   \* clients that are connected and not accepted, in order
          serving,   \* clients accepted so far; the last one is being served
          daemon,    \* "accept", "recv", "ended"
          tm,        \* <<tm_hour, tm_min>>
          act_flag, fname,
          obeyed     \* history: obeyed[c], the packets of c that were obeyed

vars == <<line, pc, sent, inbox, backlog, serving, daemon, tm, act_flag, fname, obeyed>>
client == <<line, pc, sent>>
settings == <<tm, act_flag, fname>>
-----------------------------------------------------------------------------
(* Parsing: argp takes all the options first, then the words in order.     *)

Has(l, o) == \E i \in DOMAIN l : l[i].opt = o
Takes(l, o) == IF Has(l, o) THEN 1 ELSE 0
Words(l) == LET HasWord(item) == item.word /= NoWord IN SelectSeq(l, HasWord)
Word(l, i) == Words(l)[i].word

\* The first word is the hour if -h was given, the next one the minute if -m
\* was, whatever option they stand behind; all others are files.
Count(l) == LET asked == Takes(l, "h") + Takes(l, "m")
            IN  IF Len(Words(l)) < asked THEN Len(Words(l)) ELSE asked
Hour(l) == Atoi[Word(l, 1)]
Minute(l) == Atoi[Word(l, 2)]
Files(l) == {Word(l, i) : i \in (Count(l) + 1)..Len(Words(l))}
FileName(l) == IF Files(l) = {} THEN Garbage ELSE Word(l, Len(Words(l)))

\* argp_usage: the program ends.
Rejected(l) ==
  \/ Count(l) = 1
  \/ Count(l) = 2 /\ (Hour(l) \notin 0..MaxHour \/ Minute(l) \notin 0..MaxMin)
  \/ Files(l) /= {} /\ (~Has(l, "f") \/ ~(Files(l) \subseteq ClientFiles))

\* The default is to activate; of -a and -d the last one counts.
Activates(l) ==
  LET flags == {i \in DOMAIN l : l[i].opt \in {"a", "d"}}
  IN  flags = {} \/ \E i \in flags : l[i].opt = "a" /\ \A j \in flags : j <= i

Packet(cmd, arg) == [cmd |-> cmd, arg |-> arg]
When(condition, packet) == IF condition THEN <<packet>> ELSE <<>>

\* Bug: the activation comes before the time.
BugPackets(l) ==
  When(Has(l, "k"), Packet("kill", 0))
  \o <<Packet(IF Activates(l) THEN "activate" ELSE "deactivate", 0)>>
  \o When(Count(l) = 2, Packet("time", <<Hour(l), Minute(l)>>))
  \o When(Has(l, "r"), Packet("disarm", 0))
  \o When(Has(l, "f"), Packet("file", FileName(l)))
  \o <<Packet("eof", 0)>>
Packets(l) ==
  When(Has(l, "k"), Packet("kill", 0))
  \o When(Count(l) = 2, Packet("time", <<Hour(l), Minute(l)>>))
  \o <<Packet(IF Activates(l) THEN "activate" ELSE "deactivate", 0)>>
  \o When(Has(l, "r"), Packet("disarm", 0))
  \o When(Has(l, "f"), Packet("file", FileName(l)))
  \o <<Packet("eof", 0)>>
-----------------------------------------------------------------------------
Init ==
  /\ line \in [Clients -> CommandLines]
  /\ pc = [c \in Clients |-> "parse"]
  /\ sent = [c \in Clients |-> 0]
  /\ inbox = [c \in Clients |-> <<>>]
  /\ backlog = <<>> /\ serving = <<>>
  /\ daemon = "accept"
  /\ tm = <<0, 0>> /\ act_flag = FALSE /\ fname = Garbage
  /\ obeyed = [c \in Clients |-> <<>>]

Parse(c) ==
  /\ pc[c] = "parse"
  /\ pc' = [pc EXCEPT ![c] = IF Rejected(line[c]) THEN "exited" ELSE "connect"]
  /\ UNCHANGED <<line, sent, inbox, backlog, serving, daemon, settings, obeyed>>

\* connect succeeds while the daemon listens, accepted or not.
Connect(c) ==
  /\ pc[c] = "connect"
  /\ IF daemon /= "ended"
     THEN /\ pc' = [pc EXCEPT ![c] = "send"]
          /\ backlog' = Append(backlog, c)
     ELSE /\ pc' = [pc EXCEPT ![c] = "exited"]
          /\ UNCHANGED backlog
  /\ UNCHANGED <<line, sent, inbox, serving, daemon, settings, obeyed>>

\* One send; with the daemon gone SIGPIPE ends the program.
Send(c) ==
  /\ pc[c] = "send"
  /\ IF daemon /= "ended"
     THEN /\ inbox' = [inbox EXCEPT ![c] = Append(@, Packets(line[c])[sent[c] + 1])]
          /\ sent' = [sent EXCEPT ![c] = @ + 1]
          /\ pc' = [pc EXCEPT ![c] = IF sent'[c] = Len(Packets(line[c])) THEN "sent" ELSE @]
     ELSE /\ pc' = [pc EXCEPT ![c] = "exited"]
          /\ UNCHANGED <<inbox, sent>>
  /\ UNCHANGED <<line, backlog, serving, daemon, settings, obeyed>>

Interrupt(c) ==
  /\ Interrupts
  /\ pc[c] \in {"connect", "send"}
  /\ pc' = [pc EXCEPT ![c] = "exited"]
  /\ UNCHANGED <<line, sent, inbox, backlog, serving, daemon, settings, obeyed>>

\* Bug: a new connection is accepted before the packets of the last one end.
BugAccept ==
  /\ daemon /= "ended" /\ backlog /= <<>>
  /\ serving' = Append(serving, Head(backlog))
  /\ backlog' = Tail(backlog)
  /\ daemon' = "recv"
  /\ UNCHANGED <<client, inbox, settings, obeyed>>
Accept ==
  /\ daemon = "accept" /\ backlog /= <<>>
  /\ serving' = Append(serving, Head(backlog))
  /\ backlog' = Tail(backlog)
  /\ daemon' = "recv"
  /\ UNCHANGED <<client, inbox, settings, obeyed>>

Served == serving[Len(serving)]
Received == Head(inbox[Served])

\* The daemon takes a packet and obeys it under the mutex.
Obey(cmds) ==
  /\ daemon = "recv" /\ inbox[Served] /= <<>>
  /\ Received.cmd \in cmds
  /\ inbox' = [inbox EXCEPT ![Served] = Tail(@)]
  /\ obeyed' = [obeyed EXCEPT ![Served] = Append(@, Received)]
  /\ UNCHANGED <<client, backlog, serving>>

\* Bug: midnight and the last minute of an hour are refused.
BugTimeIsValid == Received.arg[1] \in 1..MaxHour /\ Received.arg[2] \in 0..(MaxMin - 1)
TimeIsValid == Received.arg[1] \in 0..MaxHour /\ Received.arg[2] \in 0..MaxMin

SetTime ==
  /\ Obey({"time"})
  /\ TimeIsValid
  /\ tm' = Received.arg
  /\ UNCHANGED <<daemon, act_flag, fname>>

SetActive ==
  /\ Obey({"activate", "deactivate"})
  /\ act_flag' = (Received.cmd = "activate")
  /\ UNCHANGED <<daemon, tm, fname>>

SetFile ==
  /\ Obey({"file"})
  /\ Received.arg \in DaemonFiles
  /\ fname' = Received.arg
  /\ UNCHANGED <<daemon, tm, act_flag>>

\* The wake-up it sends to main_loop is in AlarmDaemon.
Disarm ==
  /\ Obey({"disarm"})
  /\ UNCHANGED <<daemon, settings>>

\* Bug: the connection is kept and its end waited for.
BugEndOfPackets ==
  /\ Obey({"eof"})
  /\ UNCHANGED <<daemon, settings>>
EndOfPackets ==
  /\ Obey({"eof"})
  /\ daemon' = "accept"
  /\ UNCHANGED settings

\* Any error, and the kill command, end the thread, and with it the daemon.
DecodeFails ==
  /\ daemon = "recv" /\ inbox[Served] /= <<>>
  /\ \/ Received.cmd = "kill"
     \/ Received.cmd = "time" /\ ~TimeIsValid
     \/ Received.cmd = "file" /\ Received.arg \notin DaemonFiles
  /\ daemon' = "ended"
  /\ UNCHANGED <<client, inbox, backlog, serving, settings, obeyed>>

\* recv returns 0: the client ended before its last packet.
Hangup ==
  /\ daemon = "recv" /\ inbox[Served] = <<>> /\ pc[Served] = "exited"
  /\ daemon' = "ended"
  /\ UNCHANGED <<client, inbox, backlog, serving, settings, obeyed>>

ClientRuns(c) == Parse(c) \/ Connect(c) \/ Send(c)
DaemonRuns == \/ Accept \/ SetTime \/ SetActive \/ SetFile \/ Disarm
              \/ EndOfPackets \/ DecodeFails \/ Hangup

Next == \/ \E c \in Clients : Parse(c) \/ Connect(c) \/ Send(c) \/ Interrupt(c)
        \/ Accept \/ SetTime \/ SetActive \/ SetFile \/ Disarm
        \/ EndOfPackets \/ DecodeFails \/ Hangup

\* Both programs run.
Spec == /\ Init /\ [][Next]_vars
        /\ WF_vars(DaemonRuns) /\ \A c \in Clients : WF_vars(ClientRuns(c))
-----------------------------------------------------------------------------
TypeOK ==
  /\ line \in [Clients -> CommandLines]
  /\ pc \in [Clients -> {"parse", "connect", "send", "sent", "exited"}]
  /\ daemon \in {"accept", "recv", "ended"}
  /\ tm \in (0..MaxHour) \X (0..MaxMin)
  /\ act_flag \in BOOLEAN
  /\ fname \in DaemonFiles \cup {Garbage}
  /\ \A c \in Clients : sent[c] \in 0..Len(Packets(line[c]))

Whole(c) == obeyed[c] = Packets(line[c])
IsPrefixOf(s, t) == Len(s) <= Len(t) /\ s = SubSeq(t, 1, Len(s))

\* The clients are obeyed one after the other: of each a prefix of its
\* packets in their order, and all of them before the next client is served
\* (main.c:251-278), whoever connects and sends while another is served.
OneAfterTheOther ==
  /\ \A c \in Clients : IsPrefixOf(obeyed[c], Packets(line[c]))
  /\ \A i \in 1..(Len(serving) - 1) : Whole(serving[i])
  /\ \A c \in Clients : obeyed[c] /= <<>> => \E i \in DOMAIN serving : serving[i] = c

\* A client that sets the time and activates the alarm never activates it
\* with the time of somebody else (sa-control.c:156-175 sends the time first).
ActivatedWithOwnTime ==
  [][\A c \in Clients :
       /\ obeyed'[c] /= obeyed[c] /\ act_flag'
       /\ Count(line[c]) = 2 /\ obeyed'[c][Len(obeyed'[c])].cmd = "activate"
       => tm = <<Hour(line[c]), Minute(line[c])>>]_vars

\* The daemon ends only if it is told to, if a client ends early, or if it
\* cannot open a file: whatever hour and minute sa-control lets through
\* (sa-control.c:76 and 85), the daemon accepts (main.c:113 and 118).
EndsForAReason ==
  daemon = "ended" => \E c \in Clients :
    /\ serving /= <<>> /\ c = Served
    /\ \/ Has(line[c], "k")
       \/ pc[c] = "exited"
       \/ Has(line[c], "f") /\ FileName(line[c]) \notin DaemonFiles

\* Everything a client has sent is obeyed, unless the daemon ends.
SentIsObeyed == \A c \in Clients : pc[c] = "sent" ~> Whole(c) \/ daemon = "ended"

\* Hour and minute are those given with -h and -m (sa-control.c:25-26).
ObeysCommandLine ==
  \A c \in Clients : Whole(c) /\ Count(line[c]) = 2 =>
    \A i \in DOMAIN line[c] :
      /\ line[c][i].opt = "h" => Hour(line[c]) = Atoi[line[c][i].word]
      /\ line[c][i].opt = "m" => Minute(line[c]) = Atoi[line[c][i].word]

\* The alarm is activated by -a, "Activate the alarm" (sa-control.c:27).
ActivatedOnlyIfAsked ==
  [][~act_flag /\ act_flag' => Has(line[Served], "a")]_vars

\* A file name that sa-control accepts for -f is set (sa-control.c:30), not
\* the end of the daemon.
FileIsSet ==
  \A c \in Clients : pc[c] = "sent" /\ Has(line[c], "f") /\ ~Has(line[c], "k") => daemon /= "ended"
=============================================================================
