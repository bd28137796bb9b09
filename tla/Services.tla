------------------------------- MODULE Services -------------------------------
(***************************************************************************)
(* services.go: the protocols a service declares for its ports, by port    *)
(* name, and the scheme a request to a port gets.                          *)
(*                                                                         *)
(* As in EndpointSet there is one service.  Its entry, once there, is      *)
(* never removed: delItem expects a secret, and is handed nothing anyway   *)
(* (module Processor).                                                     *)
(***************************************************************************)
CONSTANTS PortNames,   \* portName of the serviceKeys of one service
          NoService    \* no entry for the service

\* Values of appProtocol and of the annotation.
Protocols == {"HTTP", "http", "HTTP2", "http2", "HTTPS", "https", "grpc"}
Schemes == {"http", "http2", "https"}

\* What may be declared: protocols for some of the names.
Declarations == UNION {[names -> Protocols] : names \in SUBSET PortNames}

\* A service is [annotation, ports]: the names the annotation has, as far as its
\* JSON could be decoded, and those of ports with an appProtocol.
Services == [annotation : Declarations, ports : Declarations]

VARIABLE appProtos     \* the service's svcItem

Init == appProtos = NoService

\* The ports override the annotation.
Merge(svc) ==
  [k \in DOMAIN svc.annotation \cup DOMAIN svc.ports |->
    IF k \in DOMAIN svc.ports THEN svc.ports[k] ELSE svc.annotation[k]]

AddItem(svc) == appProtos' = Merge(svc)

\* The object is gone.
DelItem == UNCHANGED appProtos

\* What a protocol means to the transport; "https" is not among those known.
SchemeOf(protocol) ==
  CASE protocol \in {"HTTP", "http"}   -> "http"
    [] protocol \in {"HTTP2", "http2"} -> "http2"
    [] protocol = "HTTPS"              -> "https"
    [] OTHER                           -> "http"

\* getServicePortScheme, under the read lock.
Scheme(protos, k) ==
  IF protos = NoService THEN "http"
  ELSE IF k \in DOMAIN protos THEN SchemeOf(protos[k]) ELSE "http"

TypeOK == appProtos \in Declarations \cup {NoService}
=============================================================================
