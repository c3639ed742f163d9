---------------------------- MODULE AdapterRequest ----------------------------
(***************************************************************************)
(* A request of Codex from its translation to the follow-up of a web       *)
(* search: RequestTranslation makes the chat request, an upstream answers  *)
(* with a call, WebSearch executes it if it is one, and its result goes to *)
(* the end of the messages.  Several calls at once, streams and further    *)
(* follow-ups are ResponseTurn's.                                          *)
(***************************************************************************)
EXTENDS RequestTranslation, WebSearch

CONSTANT SearchCalls  \* the web_search calls an upstream may make

ASSUME CallsAssumption == \A call \in SearchCalls :
  call.queries \in Nat /\ IF call.type = "search" THEN call.page = NoPage ELSE call.queries = 0

VARIABLES
  pc,
  returned   \* the tool whose call the client or the search gets

vars == <<translation, search, pc, returned>>

NoTool == Tool("none", <<>>, <<>>)

Init ==
  /\ InitTranslation /\ InitSearch
  /\ pc = "tools" /\ returned = NoTool

Declare ==
  /\ pc = "tools"
  /\ TranslateTools
  /\ pc' = "input" /\ UNCHANGED <<search, returned>>

ReadNext ==
  /\ pc = "input"
  /\ ReadItem
  /\ UNCHANGED <<search, pc, returned>>

Post ==
  /\ pc = "input"
  /\ EndInput
  /\ pc' = "posted" /\ UNCHANGED <<search, returned>>

(* The upstream calls one of the tools it was sent.                        *)
UpstreamCalls ==
  /\ pc = "posted" /\ Here
  /\ \E i \in DOMAIN sent :
       LET tool == MappingForTool(names, sent[i].chat) IN
       /\ returned' = tool
       /\ IF tool.kind = "web_search"
            THEN /\ \E call \in SearchCalls : StartSearch(call)
                 /\ pc' = "searching"
            ELSE pc' = "ended" /\ UNCHANGED search
  /\ UNCHANGED translation

(* It answers without a call, or not at all.                               *)
UpstreamEnds ==
  /\ pc = "posted"
  /\ pc' = "ended" /\ UNCHANGED <<translation, search, returned>>

Search ==
  /\ pc = "searching"
  /\ Searching
  /\ UNCHANGED <<translation, pc, returned>>

LateExcerpt ==
  /\ PageOverdue
  /\ UNCHANGED <<translation, pc, returned>>

ClientGoes ==
  /\ pc \in {"posted", "searching"}
  /\ ClientLeaves
  /\ UNCHANGED <<translation, pc, returned>>

(* An error goes up to the handler; any other outcome is the result of the *)
(* call, with which the upstream is asked again.                           *)
FollowUp ==
  /\ pc = "searching" /\ s.stage = "ended"
  /\ pc' = "ended"
  /\ LET name == HostedName("web_search")
         call == Call(NoID, name)
     IN  messages' = IF s.outcome = "cancelled" THEN messages
                     ELSE messages \o <<[Message("assistant", <<>>) EXCEPT !.calls = <<call>>],
                                        ToolMessage(Place, call.id, name)>>
  /\ UNCHANGED <<request, names, sent, history, pending, images, rendered, search, returned>>

(* Nothing is left to do.                                                  *)
Answered == pc = "ended" /\ UNCHANGED vars

Next ==
  \/ Declare \/ ReadNext \/ Post \/ UpstreamCalls \/ UpstreamEnds
  \/ Search \/ LateExcerpt \/ ClientGoes \/ FollowUp \/ Answered

Spec == Init /\ [][Next]_vars
-----------------------------------------------------------------------------
(* Every variable has its type; a message has calls only if it is an       *)
(* assistant's, and images wait only behind outputs.                       *)
TypeOK ==
  /\ pc \in {"tools", "input", "posted", "searching", "ended"}
  /\ DOMAIN names.byKey = {entry.tool : entry \in ToSet(sent)}
  /\ \A message \in ToSet(Outgoing) :
       /\ message.role \in Roles
       /\ message.calls # <<>> => message.role = "assistant"
  /\ images # <<>> => pending = Nothing
  /\ pc \in {"posted", "searching", "ended"} => pending = Nothing /\ images = <<>> /\ messages # <<>>
  /\ pc = "searching" <=> returned.kind = "web_search" /\ pc # "ended"
  /\ SearchTypeOK
=============================================================================
