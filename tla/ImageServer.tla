------------------------------ MODULE ImageServer -------------------------------
(***************************************************************************)
(* The network image server (VrApi/ImageServer.cpp, ImageServer.h): a      *)
(* thread takes requests for an image from a TCP client, hands them to     *)
(* TimeWarp in one LocklessUpdater and gets the pixels in another, with a  *)
(* condition to wake it.  The VR thread creates the server, calls          *)
(* EnterWarpSwap and LeaveWarpSwap in every WarpSwap, and deletes it.      *)
(* WarpThread composes these steps into the life of a TimeWarp object.     *)
(*                                                                         *)
(* A wait here looks at nothing when it returns, and pthread_cond_wait may *)
(* return without a signal (EarlyAnswer; EarlyWakeup of WarpThread for the *)
(* VR thread).  StartStopMutex is taken by the VR thread alone and         *)
(* ResponseMutex by the server alone, so neither excludes anything.        *)
(* Discovery by UDP changes no state.                                      *)
(***************************************************************************)
EXTENDS Integers

CONSTANTS
  Resolutions,   \* of the images a client may ask for
  RequestBound   \* requests per server

ASSUME ServerAssumption ==
  /\ Resolutions \subseteq Nat \ {0}
  /\ RequestBound \in Nat

VARIABLES
  vr,          \* where the VR thread is
  server,      \* where the server thread is, "none" when there is none
  connected,   \* TcpClientSocket
  stopByte,    \* is there data on shutdownSockets[0]?
  request,     \* Request
  response,    \* Response; its Data, when there is any, is the mapped PBO
  captured,    \* SequenceCaptured
  resolution,  \* CurrentResolution
  pixels,      \* the request whose image is in PixelBufferObject
  mapped,      \* PboMappedAddress
  countdown,   \* CountdownToSend
  early        \* history: has this server gone on from WaitForResponse unsignalled?

exchange == <<request, response>>
buffers == <<captured, resolution, pixels, mapped, countdown>>
serverVars == <<server, connected, stopByte, exchange, buffers, early>>

NoRequest == [sequence |-> 0, resolution |-> 0]
NoResponse == [sequence |-> 0, resolution |-> 0]
BadResponse == [sequence |-> -1, resolution |-> -1]

ServerInit ==
  /\ server = "none" /\ connected = FALSE /\ stopByte = FALSE
  /\ request = NoRequest /\ response = NoResponse
  /\ captured = 0 /\ resolution = 0 /\ pixels = 0 /\ mapped = FALSE /\ countdown = 0
  /\ early = FALSE

-----------------------------------------------------------------------------
(* The VR thread creates the server. *)

\* ImageServer(): a new object, and the thread that will signal its start.
NewServer ==
  /\ vr = "newServer"
  /\ vr' = "serverCreated"
  /\ server' = "start"
  /\ connected' = FALSE /\ stopByte' = FALSE
  /\ request' = NoRequest /\ response' = NoResponse
  /\ captured' = 0 /\ resolution' = 0 /\ pixels' = 0 /\ mapped' = FALSE /\ countdown' = 0
  /\ early' = FALSE

WaitForStart ==
  /\ vr = "serverCreated"
  /\ vr' = "startWait"
  /\ UNCHANGED serverVars

-----------------------------------------------------------------------------
(* The server thread. *)

\* pthread_cond_signal( &StartStopCondition ): one condition for the start and
\* for the end.  It is lost on a VR thread that has yet to reach its wait.
SignalVrThread ==
  vr' = CASE vr = "startWait" -> "serverReady"
          [] vr = "endWait" -> "serverEnded"
          [] OTHER -> vr

ServerStarts ==
  /\ server = "start"
  /\ server' = "poll"
  /\ SignalVrThread
  /\ UNCHANGED <<connected, stopByte, exchange, buffers, early>>

\* poll() returns; what it saw decides what comes next.
Poll ==
  /\ server = "poll"
  /\ \/ /\ stopByte
        /\ server' = "cleanup"
     \/ /\ ~ stopByte
        /\ server' = IF connected THEN "readable" ELSE "acceptable"
  /\ UNCHANGED <<vr, connected, stopByte, exchange, buffers, early>>

Accept ==
  /\ server = "acceptable"
  /\ connected' = TRUE
  /\ server' = "poll"
  /\ UNCHANGED <<vr, stopByte, exchange, buffers, early>>

\* The client has closed, or asked for no valid resolution.
HangUp ==
  /\ server = "readable"
  /\ connected' = FALSE
  /\ server' = "poll"
  /\ UNCHANGED <<vr, stopByte, exchange, buffers, early>>

\* "TimeWarp will notice this on the next frame and start a capture."
Ask(r) ==
  /\ server = "readable" /\ request.sequence < RequestBound
  /\ request' = [sequence |-> request.sequence + 1, resolution |-> r]
  /\ server' = "asked"
  /\ UNCHANGED <<vr, connected, stopByte, response, buffers, early>>

\* "Block until we hear from TimeWarp"
WaitForResponse ==
  /\ server = "asked"
  /\ server' = "responseWait"
  /\ UNCHANGED <<vr, connected, stopByte, exchange, buffers, early>>

\* pthread_cond_wait returns though nothing was signalled.
EarlyAnswer ==
  /\ server = "responseWait"
  /\ server' = "woken"
  /\ early' = TRUE
  /\ UNCHANGED <<vr, connected, stopByte, exchange, buffers>>

Exits(r) == r.sequence = -1

\* The response read after the wait: the order to stop, not what was asked
\* for, or an image to send.
ReadResponse ==
  /\ server = "woken"
  /\ server' = IF Exits(response) THEN "cleanup"
               ELSE IF response.resolution # request.resolution THEN "poll"
               ELSE "sending"
  /\ connected' = (connected /\ (Exits(response) \/ response.resolution = request.resolution))
  /\ UNCHANGED <<vr, stopByte, exchange, buffers, early>>

\* write() has copied the pixels, all or, with the client gone, not all.
Sent ==
  /\ server = "sending"
  /\ server' = "poll"
  /\ connected' \in BOOLEAN
  /\ UNCHANGED <<vr, stopByte, exchange, buffers, early>>

\* The sockets are closed; "signal that we are done".
ServerEnds ==
  /\ server = "cleanup"
  /\ server' = "none"
  /\ connected' = FALSE
  /\ SignalVrThread
  /\ UNCHANGED <<stopByte, exchange, buffers, early>>

ServerThread ==
  \/ ServerStarts \/ Poll \/ Accept \/ HangUp
  \/ \E r \in Resolutions : Ask(r)
  \/ WaitForResponse \/ ReadResponse \/ Sent \/ ServerEnds

-----------------------------------------------------------------------------
(* Calls of the VR thread. *)

\* pthread_cond_signal( &ResponseCondition ).
SignalServer == server' = IF server = "responseWait" THEN "woken" ELSE server

WrongNewRequest == request.sequence # 0

NewRequest == request.sequence > captured

\* EnterWarpSwap: the previous image is unmapped or, with another resolution,
\* its buffers freed, and the eye buffer is drawn and read back into the PBO.
EnterWarpSwap ==
  IF NewRequest
  THEN /\ captured' = request.sequence
       /\ resolution' = request.resolution
       /\ pixels' = request.sequence
       /\ mapped' = FALSE
       /\ countdown' = 2
  ELSE UNCHANGED buffers

WrongReadbackDone == countdown <= 1

\* "we are only guaranteed the readback has completed on the second following
\* frame"
ReadbackDone == countdown = 1

CountedDown == IF countdown = 0 THEN 0 ELSE countdown - 1

\* LeaveWarpSwap up to Response.SetState.
LeaveWarpSwap ==
  /\ countdown' = CountedDown
  /\ IF ReadbackDone
     THEN /\ mapped' = TRUE
          /\ response' = [sequence |-> request.sequence, resolution |-> resolution]
     ELSE UNCHANGED <<mapped, response>>
  /\ UNCHANGED <<request, captured, resolution, pixels>>

\* ~ImageServer: the byte on the socket, then the bad response, then a signal
\* "in case it was waiting on TimeWarp to signal completion".  Before the server
\* has made its sockets ShutdownSocket is 0 and the byte goes astray.
WriteStopByte ==
  /\ vr = "deleteServer"
  /\ vr' = "byteWritten"
  /\ stopByte' = (server # "start")
  /\ UNCHANGED <<server, connected, exchange, buffers, early>>

SetBadResponse ==
  /\ vr = "byteWritten"
  /\ vr' = "badResponse"
  /\ response' = BadResponse
  /\ UNCHANGED <<server, connected, stopByte, request, buffers, early>>

SignalStop ==
  /\ vr = "badResponse"
  /\ vr' = "stopSignalled"
  /\ SignalServer
  /\ UNCHANGED <<connected, stopByte, exchange, buffers, early>>

\* The destructor waits for the thread; it frees the buffers afterwards.
WaitForEnd ==
  /\ vr = "stopSignalled"
  /\ vr' = "endWait"
  /\ UNCHANGED serverVars

\* FreeBuffers and the end of the object.
ServerFreed ==
  /\ stopByte' = FALSE
  /\ request' = NoRequest /\ response' = NoResponse
  /\ captured' = 0 /\ resolution' = 0 /\ pixels' = 0 /\ mapped' = FALSE /\ countdown' = 0
  /\ UNCHANGED <<server, connected, early>>

VrThreadInServer ==
  \/ NewServer \/ WaitForStart
  \/ WriteStopByte \/ SetBadResponse \/ SignalStop \/ WaitForEnd

-----------------------------------------------------------------------------
(* Properties. *)

ServerTypeOK ==
  /\ server \in {"none", "start", "poll", "acceptable", "readable", "asked",
                 "responseWait", "woken", "sending", "cleanup"}
  /\ connected \in BOOLEAN /\ stopByte \in BOOLEAN
  /\ request \in [sequence : 0..RequestBound, resolution : Resolutions \cup {0}]
  /\ response \in [sequence : -1..RequestBound, resolution : Resolutions \cup {-1, 0}]
  /\ captured \in 0..RequestBound /\ resolution \in Resolutions \cup {0}
  /\ pixels \in 0..RequestBound /\ mapped \in BOOLEAN
  /\ countdown \in 0..2 /\ early \in BOOLEAN

\* While the server copies an image to its client the pixels stay mapped, and
\* they are of the request the client made, in the resolution it asked for:
\* "The data only remains valid until the next request is set"
\* (ImageServer.h:70; the PBO belongs to the VR thread, which takes no lock to
\* unmap, overwrite or free it) and "Block until we hear from TimeWarp"
\* (ImageServer.cpp:385).
SendsWhatWasAsked ==
  server = "sending" =>
    /\ mapped
    /\ pixels = request.sequence /\ resolution = request.resolution

\* The exchange itself is right: as long as every response wait of a server
\* ended with a signal, however early or late and whatever it was sent for, the
\* server sends what was asked for from pixels that stay mapped.
SignalledSendIsRight == ~ early => SendsWhatWasAsked

\* TimeWarp has answered, and its signal found the server on the way to its wait.
AnswerMissed ==
  server = "responseWait" /\ captured = request.sequence /\ countdown = 0 /\ vr # "answered"

=============================================================================
