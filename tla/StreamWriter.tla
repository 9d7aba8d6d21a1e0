---------------------------- MODULE StreamWriter ----------------------------
(***************************************************************************)
(* The writer under one request: the StreamWriter that ServeHTTP installs  *)
(* (stream_writer.go) over the net/http response writer, which is external *)
(* and modelled by what the code relies on.  The first final status is the *)
(* one that reaches the client, informational ones commit nothing, and a   *)
(* hijacked connection takes no more HTTP output.                          *)
(*                                                                         *)
(* Statuses are numbers as in the code, 0 standing for "none yet".  A body *)
(* write counts one unit per chunk.                                        *)
(***************************************************************************)
EXTENDS Naturals

VARIABLES
    header,      \* the live header map of the connection's response writer
    wireStatus,  \* final status that net/http sent, 0 before it commits
    wireHeader,  \* header map as it was when wireStatus was sent
    wireBytes,   \* body units net/http accepted
    hijacked,    \* the connection was taken away from net/http
    swWriter,    \* StreamWriter.writer # nil
    swStatus,    \* StreamWriter.status
    swBytes      \* StreamWriter.bytesWritten

wireVars == <<wireStatus, wireHeader, wireBytes, hijacked>>
swVars   == <<swWriter, swStatus, swBytes>>

-----------------------------------------------------------------------------
(* Header maps.  gens holds the tickets of the responses under which an    *)
(* entry was set; type is the Content-Type entry.                          *)

ContentTypes == {"none", "plain", "octets", "json"}
Headers      == [gens : SUBSET Nat, type : ContentTypes]
NoHeader     == [gens |-> {}, type |-> "none"]

\* A status that ends the informational phase and commits the response.
IsFinal(code) == code >= 200

-----------------------------------------------------------------------------
(* net/http's response writer, which refuses both calls once the           *)
(* connection is hijacked.  h is the header map at the time of the call,   *)
(* since several callers clear the map and write in one step.              *)

NetWriteHeader(code, h) ==
    IF IsFinal(code) /\ wireStatus = 0 /\ ~hijacked
    THEN wireStatus' = code /\ wireHeader' = h
    ELSE UNCHANGED <<wireStatus, wireHeader>>

NetWrite(n) ==
    /\ NetWriteHeader(200, header)
    /\ wireBytes' = IF hijacked THEN wireBytes ELSE wireBytes + n

-----------------------------------------------------------------------------
(* StreamWriter's methods.                                                 *)

\* Mutant of WriteHeader: informational and repeated statuses are recorded.
WriteHeaderRecordsAll(code, h) ==
    /\ swStatus' = code
    /\ NetWriteHeader(code, h)
    /\ UNCHANGED <<wireBytes, hijacked, swWriter, swBytes>>

WriteHeader(code, h) ==
    /\ swStatus' = IF IsFinal(code) /\ swStatus = 0 THEN code ELSE swStatus
    /\ NetWriteHeader(code, h)
    /\ UNCHANGED <<wireBytes, hijacked, swWriter, swBytes>>

\* n is the count the underlying Write returned, whether or not it failed.
Write(n) ==
    /\ swStatus' = IF swStatus = 0 THEN 200 ELSE swStatus
    /\ swBytes' = swBytes + n
    /\ NetWrite(n)
    /\ UNCHANGED <<hijacked, swWriter>>

\* A flush commits the response, with an implicit 200, but records nothing:
\* that is harmless only after a status.  On a detached writer it does nothing.
Flush ==
    /\ IF swWriter THEN NetWriteHeader(200, header)
                   ELSE UNCHANGED <<wireStatus, wireHeader>>
    /\ UNCHANGED <<wireBytes, hijacked, swVars>>

\* Mutant of HijackConn: the writer is not dropped.
HijackConnKeepsWriter ==
    /\ swWriter
    /\ hijacked' = TRUE
    /\ UNCHANGED <<wireStatus, wireHeader, wireBytes, swVars>>

\* The successful takeover; a failed one changes nothing.
HijackConn ==
    /\ swWriter
    /\ hijacked' = TRUE
    /\ swWriter' = FALSE
    /\ UNCHANGED <<wireStatus, wireHeader, wireBytes, swStatus, swBytes>>

-----------------------------------------------------------------------------

WriterInit ==
    /\ header = NoHeader
    /\ wireStatus = 0 /\ wireHeader = NoHeader /\ wireBytes = 0
    /\ hijacked = FALSE
    /\ swWriter = TRUE /\ swStatus = 0 /\ swBytes = 0

WriterTypeOK ==
    /\ header \in Headers /\ wireHeader \in Headers
    /\ wireStatus \in Nat /\ wireBytes \in Nat
    /\ swStatus \in Nat /\ swBytes \in Nat
    /\ hijacked \in BOOLEAN /\ swWriter \in BOOLEAN

=============================================================================
