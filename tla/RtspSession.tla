----------------------------- MODULE RtspSession -----------------------------
(***************************************************************************)
(* The AirPlay sessions of one RtspServer (src/RtspServer.cpp): the read   *)
(* thread of each connection runs the handler of each request; SETUP opens *)
(* UDP sockets, tells the server's Sonos to play the stream and starts an  *)
(* audio thread; when the connection fails RtspServerConnection::Close()   *)
(* tells the Sonos to stop and ~RtspServerConnection() ends the audio      *)
(* thread.                                                                 *)
(*                                                                         *)
(* The server runs throughout.  The list and its mutex are those of        *)
(* NetworkServer, with its gap: the read thread is at work before          *)
(* _pReadThread is stored and the connection is listed.  The transmit      *)
(* threads are left out; of NetworkServerConnection it is taken over that  *)
(* Close() may hang in its join of one, with the list mutex held.          *)
(***************************************************************************)
EXTENDS Naturals

CONSTANTS
    Conns,       \* bound: connections ever accepted by this RtspServer
    Nobody,      \* no connection
    MaxSetups    \* bound: SETUP requests per connection

ASSUME NobodyAssumption == Nobody \notin Conns
ASSUME SetupsAssumption == MaxSetups \in Nat

VARIABLES
    entry,        \* how far the listening thread has got with a connection
    readPc,       \* where the read thread of a connection is
    hasContent,   \* _networkRequest.pContent # nullptr
    announced,    \* an ANNOUNCE has set _alacConfig and the keys
    setups,       \* SETUP requests so far: the number of the current sockets
    latest,       \* _pAudioThread: number of its SETUP, 0 for nullptr
    stop,         \* _stopAudioThread
    audio,        \* where the audio thread of each SETUP is
    sonos,        \* the Sonos of this server: "stopped" or "playing"
    lost,         \* history: a command to the Sonos failed
    rude,         \* history: connections whose sender broke the protocol
    crash         \* the connection whose threads brought the process down

vars == <<entry, readPc, hasContent, announced, setups, latest, stop, audio, sonos,
          lost, rude, crash>>

Setups == 1 .. MaxSetups
ReadStates == {"none", "request", "uri", "play", "thread", "remove",
               "stopSonos", "close", "stuck", "join", "gone", "left", "null"}
AudioStates == {"none", "init", "check", "write", "misfit", "exited"}
Entries == {"none", "started", "stored", "listed"}

\* _connectionListMutex is held, by a read thread inside RemoveConnection().
ListLocked == \E c \in Conns : readPc[c] \in {"stopSonos", "close", "stuck", "join"}

Init ==
    /\ entry = [c \in Conns |-> "none"]
    /\ readPc = [c \in Conns |-> "none"]
    /\ hasContent = [c \in Conns |-> FALSE]
    /\ announced = [c \in Conns |-> FALSE]
    /\ setups = [c \in Conns |-> 0]
    /\ latest = [c \in Conns |-> 0]
    /\ stop = [c \in Conns |-> FALSE]
    /\ audio = [c \in Conns |-> [g \in Setups |-> "none"]]
    /\ sonos = "stopped"
    /\ lost = FALSE
    /\ rude = {}
    /\ crash = Nobody

Running == crash = Nobody

\* Undefined behaviour in a thread of c that takes the process down.
Die(c) ==
    /\ Running
    /\ crash' = c
    /\ UNCHANGED <<entry, readPc, hasContent, announced, setups, latest, stop, audio,
                   sonos, lost, rude>>

\* The read thread of c goes from one place to another.
ReadMoves(c, from, to) ==
    /\ Running
    /\ readPc[c] = from
    /\ readPc' = [readPc EXCEPT ![c] = to]
    /\ UNCHANGED <<entry, crash>>

\* A command to the Sonos is carried out, or fails, because the Sonos is not
\* listed or does not answer; nobody looks at the result.
Command(state) ==
    \/ sonos' = state /\ UNCHANGED lost
    \/ lost' = TRUE /\ UNCHANGED sonos

\* SonosInterface's SetAvTransportUri(), Play() and Stop()
SonosSetUri == Command(sonos)
SonosPlay == Command("playing")
SonosStop == Command("stopped")
-----------------------------------------------------------------------------
(* ListeningThread(), which builds one connection at a time *)

ListenMoves(c, from, to) ==
    /\ Running
    /\ entry[c] = from
    /\ entry' = [entry EXCEPT ![c] = to]
    /\ UNCHANGED <<hasContent, announced, setups, latest, stop, audio, sonos, lost, rude,
                   crash>>

\* accept(); Initialise() starts the read thread, which serves at once ...
Accept(c) ==
    /\ \A d \in Conns : entry[d] \in {"none", "listed"}
    /\ readPc[c] = "none"
    /\ ListenMoves(c, "none", "started")
    /\ readPc' = [readPc EXCEPT ![c] = "request"]

\* ... then stores _pReadThread ...
StoreThread(c) == ListenMoves(c, "started", "stored") /\ UNCHANGED readPc

\* ... and push_back() needs the list mutex.
PushBack(c) == ~ListLocked /\ ListenMoves(c, "stored", "listed") /\ UNCHANGED readPc

ListeningThread(c) == StoreThread(c) \/ PushBack(c)
-----------------------------------------------------------------------------
(* Requests other than SETUP.  OPTIONS, RECORD, FLUSH, GET_PARAMETER and       *)
(* TEARDOWN are only answered and change nothing here.                         *)

\* HandleAnnounce() of a request with a body; pContent stays set after it.
Announce(c) ==
    /\ ReadMoves(c, "request", "request")
    /\ hasContent' = [hasContent EXCEPT ![c] = TRUE]
    /\ announced' = [announced EXCEPT ![c] = TRUE]
    /\ UNCHANGED <<setups, latest, stop, audio, sonos, lost, rude>>

\* HandleSetParameter() of a request with a body: volume and metadata go
\* elsewhere, the connection keeps the content.
SetParameter(c) ==
    /\ ReadMoves(c, "request", "request")
    /\ hasContent' = [hasContent EXCEPT ![c] = TRUE]
    /\ UNCHANGED <<announced, setups, latest, stop, audio, sonos, lost, rude>>

\* Either of them without a body: a std::string is made from pContent, which
\* holds an earlier body or is null.
NoBody(c) ==
    /\ ReadMoves(c, "request", IF hasContent[c] THEN "request" ELSE "null")
    /\ rude' = rude \cup {c}
    /\ UNCHANGED <<hasContent, announced, setups, latest, stop, audio, sonos, lost>>

NullContent(c) == readPc[c] = "null" /\ Die(c)

\* A header with a line that lacks a part: ParseHeader() throws, nobody catches.
BadHeader(c) ==
    /\ Running
    /\ readPc[c] = "request"
    /\ rude' = rude \cup {c}
    /\ crash' = c
    /\ UNCHANGED <<entry, readPc, hasContent, announced, setups, latest, stop, audio,
                   sonos, lost>>
-----------------------------------------------------------------------------
(* HandleSetup() *)

\* Three new sockets replace the ones there are.  If one could not be bound
\* there is no answer; else the response goes out.
Setup(c) ==
    /\ setups[c] < MaxSetups
    /\ \E to \in {"request", "uri"} : ReadMoves(c, "request", to)
    /\ setups' = [setups EXCEPT ![c] = @ + 1]
    /\ rude' = IF announced[c] /\ latest[c] = 0 THEN rude ELSE rude \cup {c}
    /\ UNCHANGED <<hasContent, announced, latest, stop, audio, sonos, lost>>

\* Whether the URI arrives does not matter to what follows.
SetUri(c) ==
    /\ ReadMoves(c, "uri", "play")
    /\ SonosSetUri
    /\ UNCHANGED <<hasContent, announced, setups, latest, stop, audio, rude>>

Play(c) ==
    /\ ReadMoves(c, "play", "thread")
    /\ SonosPlay
    /\ UNCHANGED <<hasContent, announced, setups, latest, stop, audio, rude>>

\* Mutations of StartAudio: the SETUP after this one is recorded; none is.
StartAudioNext(c) ==
    /\ ReadMoves(c, "thread", "request")
    /\ latest' = [latest EXCEPT ![c] = setups[c] + 1]
    /\ audio' = [audio EXCEPT ![c][setups[c]] = "init"]
    /\ UNCHANGED <<hasContent, announced, setups, stop, sonos, lost, rude>>

StartAudioUnrecorded(c) ==
    /\ ReadMoves(c, "thread", "request")
    /\ audio' = [audio EXCEPT ![c][setups[c]] = "init"]
    /\ UNCHANGED <<hasContent, announced, setups, latest, stop, sonos, lost, rude>>

\* _pAudioThread = new std::thread: the one of an earlier SETUP is forgotten.
StartAudio(c) ==
    /\ ReadMoves(c, "thread", "request")
    /\ latest' = [latest EXCEPT ![c] = setups[c]]
    /\ audio' = [audio EXCEPT ![c][setups[c]] = "init"]
    /\ UNCHANGED <<hasContent, announced, setups, stop, sonos, lost, rude>>
-----------------------------------------------------------------------------
(* AudioThread(), started by the g-th SETUP of c *)

AudioMoves(c, g, from, to) ==
    /\ Running
    /\ readPc[c] # "gone"
    /\ audio[c][g] = from
    /\ audio' = [audio EXCEPT ![c][g] = to]
    /\ UNCHANGED <<entry, readPc, hasContent, announced, setups, latest, stop, sonos,
                   lost, rude, crash>>

\* _transcoder.Init(&_alacConfig)
AudioInit(c, g) == AudioMoves(c, g, "init", "check")

\* while (!_stopAudioThread), and the sockets, which do not block: no packet
\* changes nothing, or there is one.
AudioExits(c, g) == stop[c] /\ AudioMoves(c, g, "check", "exited")
AudioRead(c, g) == ~stop[c] /\ AudioMoves(c, g, "check", "write")

\* DecryptAudio(), _transcoder.Write()
AudioWrite(c, g) == AudioMoves(c, g, "write", "check")

\* A datagram, from anybody, shorter than the header that Write() is told to skip
\* or longer than its input buffer: memcpy() by a negative length, or past the end.
AudioMisfit(c, g) == ~stop[c] /\ AudioMoves(c, g, "check", "misfit")

\* That is fatal, or what it wrote over is not missed.
Overrun(c) == readPc[c] # "gone" /\ (\E g \in Setups : audio[c][g] = "misfit") /\ Die(c)

AudioSurvives(c, g) == AudioMoves(c, g, "misfit", "check")

\* Init() before an ANNOUNCE computes buffer sizes from an unset _alacConfig ...
UnsetConfig(c) == (\E g \in Setups : audio[c][g] = "init") /\ ~announced[c] /\ Die(c)

\* ... and two audio threads of one connection may use its transcoder at once.
TranscoderRace(c) ==
    /\ \E g, h \in Setups :
         g # h /\ {audio[c][g], audio[c][h]} \subseteq {"init", "write", "misfit"}
    /\ Die(c)

Alive(c, g) == audio[c][g] \notin {"none", "exited"}

\* An audio thread of a deleted connection reads freed memory: that is fatal,
\* or it finds _stopAudioThread still true there.
StrayUse(c) == readPc[c] = "gone" /\ (\E g \in Setups : Alive(c, g)) /\ Die(c)

StrayExits(c, g) ==
    /\ Running
    /\ readPc[c] = "gone"
    /\ Alive(c, g)
    /\ audio' = [audio EXCEPT ![c][g] = "exited"]
    /\ UNCHANGED <<entry, readPc, hasContent, announced, setups, latest, stop, sonos,
                   lost, rude, crash>>

Datagram(c, g) == AudioRead(c, g) \/ AudioMisfit(c, g)

AudioThread(c, g) ==
    \/ AudioInit(c, g)
    \/ AudioExits(c, g)
    \/ AudioWrite(c, g)
    \/ AudioSurvives(c, g)
-----------------------------------------------------------------------------
(* The connection fails: RemoveConnection() *)

\* recv() fails: _pReadThread->detach(), RemoveConnection() ...
RecvFails(c) ==
    /\ entry[c] # "started"
    /\ ReadMoves(c, "request", "remove")
    /\ UNCHANGED <<hasContent, announced, setups, latest, stop, audio, sonos, lost, rude>>

\* ... detach() through a _pReadThread that is not stored yet.
DetachNull(c) == entry[c] = "started" /\ readPc[c] = "request" /\ Die(c)

LockList(c) ==
    /\ ~ListLocked
    /\ entry[c] = "listed"
    /\ ReadMoves(c, "remove", "stopSonos")
    /\ UNCHANGED <<hasContent, announced, setups, latest, stop, audio, sonos, lost, rude>>

\* It is not in the list yet: the read thread ends, the connection stays.
RemoveNotFound(c) ==
    /\ ~ListLocked
    /\ entry[c] # "listed"
    /\ ReadMoves(c, "remove", "left")
    /\ UNCHANGED <<hasContent, announced, setups, latest, stop, audio, sonos, lost, rude>>

\* A mutation of StopSonos: not while there are other connections.
StopIfAlone(c) ==
    /\ ReadMoves(c, "stopSonos", "close")
    /\ IF \A d \in Conns \ {c} : readPc[d] \in {"none", "gone"}
       THEN SonosStop ELSE UNCHANGED <<sonos, lost>>
    /\ UNCHANGED <<hasContent, announced, setups, latest, stop, audio, rude>>

\* RtspServerConnection::Close(): SonosInterface::Stop(), whether or not this
\* connection ever set up a session.
StopSonos(c) ==
    /\ ReadMoves(c, "stopSonos", "close")
    /\ SonosStop
    /\ UNCHANGED <<hasContent, announced, setups, latest, stop, audio, rude>>

\* A mutation of Close: _stopAudioThread is left alone.
CloseUnflagged(c) ==
    /\ ReadMoves(c, "close", "join")
    /\ UNCHANGED <<hasContent, announced, setups, latest, stop, audio, sonos, lost, rude>>

\* NetworkServerConnection::Close(), then ~RtspServerConnection() begins.
Close(c) ==
    /\ ReadMoves(c, "close", "join")
    /\ stop' = [stop EXCEPT ![c] = TRUE]
    /\ UNCHANGED <<hasContent, announced, setups, latest, audio, sonos, lost, rude>>

\* The transmit thread missed the notification: Close() hangs, with the list
\* mutex held, until that thread wakes for no reason, which is not owed.
CloseHangs(c) ==
    /\ ReadMoves(c, "close", "stuck")
    /\ UNCHANGED <<hasContent, announced, setups, latest, stop, audio, sonos, lost, rude>>

Woken(c) ==
    /\ ReadMoves(c, "stuck", "join")
    /\ stop' = [stop EXCEPT ![c] = TRUE]
    /\ UNCHANGED <<hasContent, announced, setups, latest, audio, sonos, lost, rude>>

\* A mutation of JoinAudio: detach() for join().
DetachAudio(c) ==
    /\ ReadMoves(c, "join", "gone")
    /\ UNCHANGED <<hasContent, announced, setups, latest, stop, audio, sonos, lost, rude>>

\* if (_pAudioThread) join(); the sockets and the connection are deleted.
JoinAudio(c) ==
    /\ latest[c] # 0 => audio[c][latest[c]] = "exited"
    /\ ReadMoves(c, "join", "gone")
    /\ UNCHANGED <<hasContent, announced, setups, latest, stop, audio, sonos, lost, rude>>

\* A handler or a removal that has begun goes on.
ReadThread(c) ==
    \/ SetUri(c)
    \/ Play(c)
    \/ StartAudio(c)
    \/ LockList(c)
    \/ RemoveNotFound(c)
    \/ StopSonos(c)
    \/ Close(c)
    \/ JoinAudio(c)

Next == \E c \in Conns :
    \/ Accept(c)
    \/ ListeningThread(c)
    \/ Announce(c)
    \/ SetParameter(c)
    \/ NoBody(c)
    \/ NullContent(c)
    \/ BadHeader(c)
    \/ Setup(c)
    \/ RecvFails(c)
    \/ DetachNull(c)
    \/ ReadThread(c)
    \/ CloseHangs(c)
    \/ Woken(c)
    \/ UnsetConfig(c)
    \/ TranscoderRace(c)
    \/ Overrun(c)
    \/ StrayUse(c)
    \/ \E g \in Setups : AudioThread(c, g) \/ Datagram(c, g) \/ StrayExits(c, g)

Spec == Init /\ [][Next]_vars

\* Every thread that can run does; connections, requests, datagrams and failures
\* are not owed, nor is a spurious wakeup; undefined behaviour need not be fatal.
Fairness == \A c \in Conns :
    /\ WF_vars(ListeningThread(c))
    /\ WF_vars(ReadThread(c))
    /\ \A g \in Setups : WF_vars(AudioThread(c, g))

FairSpec == Spec /\ Fairness
-----------------------------------------------------------------------------
(* Properties *)

TypeOK ==
    /\ entry \in [Conns -> Entries]
    /\ readPc \in [Conns -> ReadStates]
    /\ hasContent \in [Conns -> BOOLEAN]
    /\ announced \in [Conns -> BOOLEAN]
    /\ setups \in [Conns -> 0 .. MaxSetups]
    /\ latest \in [Conns -> 0 .. MaxSetups]
    /\ stop \in [Conns -> BOOLEAN]
    /\ audio \in [Conns -> [Setups -> AudioStates]]
    /\ sonos \in {"stopped", "playing"}
    /\ lost \in BOOLEAN
    /\ rude \subseteq Conns
    /\ crash \in Conns \cup {Nobody}

\* A deleted connection has no audio thread, unless its sender sent a second
\* SETUP; and the thread of the last SETUP has ended in any case.
GoneIsQuiet == \A c \in Conns : readPc[c] = "gone" =>
    /\ latest[c] # 0 => ~Alive(c, latest[c])
    /\ c \notin rude => \A g \in Setups : ~Alive(c, g)

\* The process is brought down by a connection whose sender broke the protocol
\* (no body, a line ParseHeader() throws on, no ANNOUNCE, two SETUPs), or else in
\* two ways only, whatever other senders do and whenever a connection is lost: a
\* datagram that does not fit reached the audio thread of the one session of a
\* connection that is still there; or the connection was lost before Initialise()
\* had stored its read thread.
CrashHasCause == crash \notin rude \cup {Nobody} =>
    \/ /\ latest[crash] # 0 /\ audio[crash][latest[crash]] = "misfit"
       /\ readPc[crash] # "gone"
    \/ entry[crash] = "started" /\ readPc[crash] = "request"

\* c has told the Sonos to play and has not been closed.
Session(c) ==
    /\ latest[c] # 0 \/ readPc[c] = "thread"
    /\ readPc[c] \notin {"close", "stuck", "join", "gone"}

\* If its commands arrive, the Sonos plays only while some connection's session
\* is on: the last one to go leaves it stopped.
SonosStopsWithLast == sonos = "playing" /\ ~lost => \E c \in Conns : Session(c)

\* A lost connection that the list has is taken down: its audio thread is joined
\* and the list mutex is free for the next, unless a Close() hangs.
LostIsTakenDown == \A c \in Conns :
    (readPc[c] = "remove" /\ entry[c] = "listed") ~>
        (readPc[c] = "gone" \/ crash # Nobody \/ \E d \in Conns : readPc[d] = "stuck")

\* "stop the Sonos playing if we've lost the AirPlay connection": as long as a
\* session's own connection is there, the Sonos is not stopped.
SessionKeepsPlaying == ~lost => \A c \in Conns : Session(c) => sonos = "playing"
==============================================================================
