---------------------------- MODULE MCRetrieval ----------------------------
(***************************************************************************)
(* The socket wrapper, the FTP and HTTP retrievers and the parts of the    *)
(* RTSP library, for one run of TLC: the initial state decides which of    *)
(* them the behaviour is about.                                            *)
(***************************************************************************)
EXTENDS KSocket, FtpRetriever, HttpRetriever, AsmRules, RealHeader, RtspSession

VARIABLE subject

all == <<svars, fvars, htvars, avars, rvars, rtspvars, subject>>

\* The parts the behaviour is not about stay in one initial state.
MCInit ==
    /\ subject \in {"socket", "ftp", "http", "rules", "real", "rtsp"}
    /\ SocketInit /\ FtpInit /\ HttpInit /\ AsmInit /\ RealStart /\ RtspStart
    /\ subject # "socket" => \A n \in Stream : size <= n
    /\ subject # "ftp" => \A b \in Begins : begin <= b
    /\ subject # "http" =>
          response = [status |-> "4xx", head |-> (CHOOSE h \in Heads : TRUE), from |-> 0, says |-> FALSE]
    /\ subject # "rules" => \A b \in Bandwidths : bandwidth <= b

SocketSteps ==
    subject = "socket" /\ SocketNext /\ UNCHANGED <<fvars, htvars, avars, rvars, rtspvars, subject>>
FtpSteps ==
    subject = "ftp" /\ FtpNext /\ UNCHANGED <<svars, htvars, avars, rvars, rtspvars, subject>>
HttpSteps ==
    subject = "http" /\ HttpNext /\ UNCHANGED <<svars, fvars, avars, rvars, rtspvars, subject>>
RulesSteps ==
    subject = "rules" /\ AsmNext /\ UNCHANGED <<svars, fvars, htvars, rvars, rtspvars, subject>>
RealSteps ==
    subject = "real" /\ RealNext /\ UNCHANGED <<svars, fvars, htvars, avars, rtspvars, subject>>
RtspSteps ==
    subject = "rtsp" /\ RtspNext /\ UNCHANGED <<svars, fvars, htvars, avars, rvars, subject>>

MCNext == SocketSteps \/ FtpSteps \/ HttpSteps \/ RulesSteps \/ RealSteps \/ RtspSteps

MCSpec ==
    /\ MCInit /\ [][MCNext]_all
    /\ WF_all(subject = "socket" /\ Step /\ UNCHANGED <<fvars, htvars, avars, rvars, rtspvars, subject>>)
    /\ WF_all(subject = "ftp" /\ FtpClient /\ UNCHANGED <<svars, htvars, avars, rvars, rtspvars, subject>>)

\* Under the fairness of its own component, and only about it.
FtpSessionEnds == subject = "ftp" => SessionEnds

\* No attempt to retrieve waits for ever, in the socket or in the dialogue
\* above it: a thread comes back to test its segment and the retries.
AttemptsEnd == CallsReturn /\ FtpSessionEnds
=============================================================================
