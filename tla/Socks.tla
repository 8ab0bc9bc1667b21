-------------------------------- MODULE Socks --------------------------------
(***************************************************************************)
(* The SOCKS5 handshake of a -D forward (src/ssh/forward/socks.rs), byte   *)
(* by byte, and what bind_dynamic makes of it (src/ssh/forward.rs).       *)
(*                                                                         *)
(* The client has written all it is going to write before it waits; bytes  *)
(* that are missing are the end of its stream.                             *)
(***************************************************************************)
EXTENDS Integers, Sequences, SequencesExt

CONSTANT Utf8(_)     \* String::from_utf8 takes these bytes

Version == 5
AuthNone == 0
AuthUnacceptable == 255
CmdConnect == 1
AddrIpv4 == 1
AddrDomain == 3
AddrIpv6 == 4
Reply == [succeeded |-> 0, hostUnreachable |-> 4, commandNotSupported |-> 7, addressTypeNotSupported |-> 8]

\* A step of the handshake ends it, or goes on with the bytes that are left.
Broken(sent) == [is |-> "broken", sent |-> sent]
Refused(code, left) == [is |-> "refused", code |-> code, left |-> left]
After(bytes, n) == SubSeq(bytes, n + 1, Len(bytes))

Greet(bytes) ==
    IF Len(bytes) < 2 \/ bytes[1] # Version \/ Len(bytes) < 2 + bytes[2] THEN Broken(<<>>)
    ELSE IF ~Contains(SubSeq(bytes, 3, 2 + bytes[2]), AuthNone) THEN Broken(<<Version, AuthUnacceptable>>)
    ELSE [is |-> "greeted", left |-> After(bytes, 2 + bytes[2])]

\* Where the address starts and how long it is, or -1 if its length is missing.
AddressSpan(bytes) ==
    CASE bytes[4] = AddrIpv4   -> [from |-> 5, length |-> 4]
      [] bytes[4] = AddrIpv6   -> [from |-> 5, length |-> 16]
      [] bytes[4] = AddrDomain -> [from |-> 6, length |-> IF Len(bytes) < 5 THEN -1 ELSE bytes[5]]

Request(bytes) ==
    IF Len(bytes) < 4 \/ bytes[1] # Version THEN Broken(<<>>)
    ELSE IF bytes[2] # CmdConnect THEN Refused(Reply.commandNotSupported, After(bytes, 4))
    ELSE IF bytes[4] \notin {AddrIpv4, AddrDomain, AddrIpv6}
         THEN Refused(Reply.addressTypeNotSupported, After(bytes, 4))
    ELSE LET span == AddressSpan(bytes)
             port == span.from + span.length
             host == SubSeq(bytes, span.from, port - 1)
         IN IF \/ span.length < 0 \/ Len(bytes) < port + 1
               \/ bytes[4] = AddrDomain /\ ~Utf8(host)
            THEN Broken(<<>>)
            ELSE [is |-> "asked", type |-> bytes[4], host |-> host,
                  port |-> 256 * bytes[port] + bytes[port + 1], left |-> After(bytes, port + 1)]

Handshake(bytes) == LET greeted == Greet(bytes)
                    IN IF greeted.is = "greeted" THEN Request(greeted.left) ELSE greeted

Answer(code) == <<Version, code, 0, AddrIpv4, 0, 0, 0, 0, 0, 0>>

\* A connection of bind_dynamic: what the client is sent, and what of its bytes
\* the tunnel carries, if there is one.
Serve(bytes, opened) ==
    LET greeted == Greet(bytes)
        asked == Handshake(bytes)
        chosen == IF greeted.is = "greeted" THEN <<Version, AuthNone>> ELSE greeted.sent
        end(sent) == [sent |-> chosen \o sent, tunnel |-> FALSE]
    IN CASE asked.is = "broken"  -> end(<<>>)
         [] asked.is = "refused" -> end(Answer(asked.code))
         [] asked.is = "asked" /\ ~opened -> end(Answer(Reply.hostUnreachable))
         [] asked.is = "asked" /\ opened ->
                [sent |-> chosen \o Answer(Reply.succeeded), tunnel |-> TRUE, carried |-> asked.left]
=============================================================================
