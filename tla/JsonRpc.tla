-------------------------------- MODULE JsonRpc --------------------------------
(***************************************************************************)
(* What the server makes of one line of input: protocol/jsonrpc,           *)
(* core/router/dispatcher and the parameter checks of core/handlers.       *)
(*                                                                         *)
(* A line is a record of what these decisions look at.  `text' says how    *)
(* much of the line can be read: "overlong" for the stream reader, JSON,   *)
(* a JSON object.  `params' says whether the parameters are missing, no    *)
(* container, a list, an object, or an object with what the method needs.  *)
(***************************************************************************)

Methods == {"ping", "echo", "shutdown", "chat", "session.attach", "session.detach",
            "permission.respond"}

Lines == [text    : {"overlong", "garbage", "value", "object"},
          version : BOOLEAN,
          method  : Methods \cup {"absent", "invalid", "unknown"},
          params  : {"none", "scalar", "list", "object", "complete"},
          result  : BOOLEAN,
          error   : {"absent", "invalid", "valid"},
          id      : {"absent", "invalid", "valid"}]

(* _parse_request *)
ParseRequest(line) ==
    IF line.method # "invalid" /\ line.params # "scalar" /\ line.id # "invalid"
    THEN "request"
    ELSE "invalid_request"

(* _parse_response *)
ParseResponse(line) ==
    IF /\ line.result # (line.error # "absent")
       /\ line.id # "invalid"
       /\ line.error # "invalid"
    THEN "response"
    ELSE "invalid_request"

(* decode_message and parse_message: the kind of the message, or the error *)
(* it is answered with.                                                    *)
Parse(line) ==
    LET answers == line.result \/ line.error # "absent"
    IN  IF line.text = "garbage" THEN "parse_error"
        ELSE IF line.text = "value" \/ ~line.version THEN "invalid_request"
        ELSE IF line.method # "absent" /\ ~answers THEN ParseRequest(line)
        ELSE IF line.method = "absent" /\ answers THEN ParseResponse(line)
        ELSE "invalid_request"

(* A chat that _start_chat accepts or refuses itself. *)
IsChat(line) == line.method = "chat" /\ line.params = "complete"

(* What the dispatcher and the handlers that change nothing may return: a  *)
(* result, or the error in it.  An exception of a handler becomes an       *)
(* internal error; a permission request may have expired.                  *)
Dispatched(line) ==
    CASE line.method = "unknown"                                   -> {"method_not_found"}
      [] line.method = "echo" /\ line.params # "complete"          -> {"internal_error"}
      [] line.method \in {"chat", "session.attach"}                -> {"invalid_params"}
      [] line.method = "permission.respond"                        ->
            {"invalid_params"} \cup IF line.params = "complete" THEN {"result"} ELSE {}
      [] OTHER                                                     -> {"result"}

=============================================================================
