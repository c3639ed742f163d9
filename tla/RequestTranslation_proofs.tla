----------------------- MODULE RequestTranslation_proofs -----------------------
(***************************************************************************)
(* The messages a request is translated to, for any history: each has its  *)
(* type, a tool message only ever follows the call it answers, each call   *)
(* names its own tool, and the items are told once and in order.           *)
(***************************************************************************)
EXTENDS AdapterRequest, DataLemmas, SequenceTheorems, TLAPS

Reading == pc \in {"tools", "input"}

(* The tools sent are those that are registered.                           *)
Registered(registry) ==
  /\ IsSequence(registry.sent)
  /\ DOMAIN registry.names.byKey = {entry.tool : entry \in ToSet(registry.sent)}

(* How the entries of a registry came by their names: each has a number    *)
(* among those with its base.                                              *)
CountedBy(registry, num) ==
  LET base(i) == Base(registry.sent[i].tool)
  IN  /\ \A i \in DOMAIN registry.sent :
           /\ num[i] \in 1 .. Used(registry.names, base(i))
           /\ registry.sent[i].chat = NthName(base(i), num[i])
      /\ \A i, j \in DOMAIN registry.sent : i # j /\ base(i) = base(j) => num[i] # num[j]

(* Where names lead to, and which a tool has.                              *)
Leads(registry) ==
  /\ \A i \in DOMAIN registry.sent : registry.sent[i].chat \in DOMAIN registry.names.byChat
  /\ \A chat \in DOMAIN registry.names.byChat : \E i \in DOMAIN registry.sent :
       registry.sent[i].chat = chat /\ registry.names.byChat[chat] = registry.sent[i].tool
  /\ \A tool \in DOMAIN registry.names.byKey : \E i \in DOMAIN registry.sent :
       registry.sent[i].tool = tool /\ registry.names.byKey[tool] = registry.sent[i].chat

Numbers(registry) ==
  /\ \E num : CountedBy(registry, num)
  /\ \A base : Used(registry.names, base) \in 0 .. Len(registry.sent)
  /\ Leads(registry)

(* What was sent stays, and so does what is declared.                      *)
Widens(start, registry) ==
  /\ \A i \in DOMAIN start.sent : i \in DOMAIN registry.sent /\ registry.sent[i] = start.sent[i]
  /\ DOMAIN start.names.byKey \subseteq DOMAIN registry.names.byKey

(* A registry whose tools are those that are known by name.                *)
Recorded(registry) ==
  /\ registry = [names |-> registry.names, sent |-> registry.sent]
  /\ Registered(registry) /\ Numbers(registry)

Ordinary(message) == message.role \in Roles /\ (message.calls # <<>> => message.role = "assistant")

WellTold(told) == IsSequence(told) /\ \A i \in DOMAIN told : Ordinary(told[i])

Typed ==
  /\ request \in Inbound /\ Recorded(Registry) /\ IsSequence(history)
  /\ pending = [reasoning |-> pending.reasoning, text |-> pending.text,
                calls |-> pending.calls, results |-> pending.results]
  /\ IsSequence(pending.calls)
  /\ WellTold(messages) /\ WellTold(pending.results) /\ WellTold(images)
  /\ \A i \in DOMAIN pending.results : pending.results[i].role = "tool" /\ pending.results[i].calls = <<>>
  /\ \A i \in DOMAIN images : images[i].role = "user" /\ images[i].calls = <<>>
  /\ images # <<>> => pending = Nothing

(* Tool messages and the calls they answer.                                *)
Output(message) == message.role = "tool" /\ message.parts[1].as = "output"

Made(calls, id, name) == \E c \in DOMAIN calls : calls[c].id = id /\ calls[c].name = name

MadeBefore(told, m, id, name) ==
  \E n \in DOMAIN told : n < m /\ told[n].role = "assistant" /\ Made(told[n].calls, id, name)

AllAnswered(told) ==
  \A m \in DOMAIN told : Output(told[m]) => MadeBefore(told, m, told[m].id, told[m].name)

Paired ==
  /\ AllAnswered(messages)
  /\ \A r \in DOMAIN pending.results : Made(pending.calls, pending.results[r].id, pending.results[r].name)
  /\ Reading => \A id \in DOMAIN rendered \ {NoID} :
       \/ Made(pending.calls, id, rendered[id])
       \/ MadeBefore(messages, Len(messages) + 1, id, rendered[id])

(* Turns: calls of the history, one after the other, and their outputs.    *)

Calling(told, item) == CallsOf(told, item) # {}

CalledPending(item) == \E c \in DOMAIN pending.calls : pending.calls[c].item = item

Called(item) == Calling(messages, item) \/ CalledPending(item)

Answering(item) == ResultsOf(messages, item) # {}

(* From p to last, only calls.                                             *)
CallRun(p, last) == \A k \in p .. last :
  \/ history[k].kind = "call" /\ Called(k)
  \/ history[k].kind = "web_search"

(* And to q, their outputs.                                                *)
Turn(p, last, q) ==
  /\ CallRun(p, last)
  /\ \A k \in last + 1 .. q : history[k].kind \in {"output", "tool_search_output"} /\ Answering(k)
  /\ \A k \in last + 1 .. q - 1 : history[k].kind = "output" /\ history[k].image =>
       \A l \in k .. q : history[l].kind = "output"

ItemsRead ==
  /\ \A item : Called(item) => item \in DOMAIN history
  /\ \A m \in DOMAIN messages : messages[m].role = "tool" => messages[m].parts[1].item \in DOMAIN history
  /\ \A r \in DOMAIN pending.results :
       LET item == pending.results[r].parts[1].item
       IN  item \in DOMAIN history /\ history[item].kind = "web_search"

ImagesLast == images # <<>> =>
  \E k \in DOMAIN history : /\ history[k].kind = "output" /\ history[k].image
                            /\ \A l \in k .. Len(history) : history[l].kind = "output"

CallsPending == \A p \in DOMAIN history :
  CallRun(p, Len(history)) => CallsOf(messages, p) = {}

OutputsLast == \A p, last \in DOMAIN history :
  p <= last /\ last < Len(history) /\ Turn(p, last, Len(history)) =>
    /\ pending = Nothing
    /\ \A n \in CallsOf(messages, p), m \in DOMAIN messages : n < m => messages[m].role = "tool"

TurnsTogether == \A p, last, q \in DOMAIN history :
  p <= last /\ last < q /\ Turn(p, last, q) =>
    \A n \in CallsOf(messages, p), m \in ResultsOf(messages, q) :
      \A between \in n + 1 .. m - 1 : messages[between].role = "tool"

Turning ==
  /\ TurnsTogether
  /\ Reading => ItemsRead /\ ImagesLast /\ CallsPending /\ OutputsLast

Rest == ~Reading => pending = Nothing /\ images = <<>> /\ messages # <<>>
-----------------------------------------------------------------------------
(* Tools.                                                                  *)

LEMMA WithToolRegistered ==
  ASSUME NEW registry, Registered(registry), NEW tool
  PROVE  Registered(WithTool(registry, tool))
<1> DEFINE new == Entry(registry.names, tool)
           now == WithTool(registry, tool)
<1>1. now.sent = Append(registry.sent, new) /\ new.tool = Named(tool)
  BY DEF WithTool, Entry
<1>2. DOMAIN now.names.byKey = DOMAIN registry.names.byKey \union {Named(tool)}
  BY DEF WithTool, Register, Put
<1> HIDE DEF new, now
<1>3. /\ IsSequence(now.sent) /\ Len(registry.sent) \in Nat
      /\ DOMAIN registry.sent = 1 .. Len(registry.sent)
      /\ DOMAIN now.sent = 1 .. Len(registry.sent) + 1
      /\ now.sent[Len(registry.sent) + 1] = new
      /\ \A i \in 1 .. Len(registry.sent) : now.sent[i] = registry.sent[i]
  BY <1>1, AppendedToAny DEF Registered
<1>4. \A i \in DOMAIN now.sent : i \in DOMAIN registry.sent \/ i = Len(registry.sent) + 1
  BY <1>3
<1>5. ToSet(now.sent) = ToSet(registry.sent) \union {new}
  BY <1>3, <1>4 DEF ToSet
<1>6. DOMAIN now.names.byKey = {entry.tool : entry \in ToSet(now.sent)}
  BY <1>1, <1>2, <1>5 DEF Registered
<1> QED
  BY <1>3, <1>6 DEF Registered, now

LEMMA WidensFurther ==
  ASSUME NEW one, NEW two, NEW three, Widens(one, two), Widens(two, three)
  PROVE  Widens(one, three)
BY DEF Widens

LEMMA NamedOnce ==
  ASSUME NEW tool \in Tools
  PROVE  /\ Named(Named(tool)) = Named(tool) /\ Base(Named(tool)) = Base(tool)
<1> DEFINE name == <<"unnamed", "_", "tool">>
           other == [tool EXCEPT !.name = name]
<1>1. name # <<>>
  OBVIOUS
<1> HIDE DEF name
<1>2. other.name = name /\ other.namespace = tool.namespace
  BY DEF Tools
<1>3. Named(tool) = IF tool.name = <<>> THEN other ELSE tool
  BY DEF Named, name
<1>4. \A x : x.name # <<>> => Named(x) = x
  BY DEF Named
<1> HIDE DEF other
<1>5. Named(Named(tool)) = Named(tool)
  BY <1>1, <1>2, <1>3, <1>4
<1>6. Named(tool).namespace = tool.namespace
  BY <1>2, <1>3
<1> QED
  BY <1>5, <1>6 DEF Base

LEMMA WithToolFields ==
  ASSUME NEW registry, NEW tool
  PROVE  LET now == WithTool(registry, tool)
             base == Base(tool)
             chat == NthName(base, Used(registry.names, base) + 1)
             new == [chat |-> chat, tool |-> Named(tool)]
         IN  /\ now.sent = Append(registry.sent, new)
             /\ now.names.used = Put(registry.names.used, base, Used(registry.names, base) + 1)
             /\ now.names.byChat = Put(registry.names.byChat, chat, Named(tool))
             /\ now.names.byKey = Put(registry.names.byKey, Named(tool), chat)
BY DEF WithTool, Entry, Register, ChatName, UniqueChatName

LEMMA WithToolGiven ==
  ASSUME NEW registry, IsSequence(registry.sent), Numbers(registry), NEW tool \in Tools
  PROVE  Numbers(WithTool(registry, tool)) /\ Widens(registry, WithTool(registry, tool))
<1> DEFINE now == WithTool(registry, tool)
           base == Base(tool)
           chat == NthName(base, Used(registry.names, base) + 1)
           new == [chat |-> chat, tool |-> Named(tool)]
           n == Len(registry.sent)
<1>1. /\ now.sent = Append(registry.sent, new)
      /\ now.names.used = Put(registry.names.used, base, Used(registry.names, base) + 1)
      /\ now.names.byChat = Put(registry.names.byChat, chat, Named(tool))
      /\ now.names.byKey = Put(registry.names.byKey, Named(tool), chat)
  BY WithToolFields
<1>2. new.chat = chat /\ new.tool = Named(tool) /\ Base(Named(tool)) = base
  BY NamedOnce
<1>3. /\ n \in Nat /\ DOMAIN registry.sent = 1 .. n /\ DOMAIN now.sent = 1 .. n + 1
      /\ Len(now.sent) = n + 1
      /\ now.sent[n + 1] = new /\ \A i \in 1 .. n : now.sent[i] = registry.sent[i]
  BY <1>1, AppendedToAny
<1>4. Used(registry.names, base) \in Nat
  BY <1>3 DEF Numbers
<1> HIDE DEF now, new, chat
<1>5. \A x : Used(now.names, x) = IF x = base THEN Used(registry.names, base) + 1 ELSE Used(registry.names, x)
  BY <1>1 DEF Used, Put
<1> HIDE DEF base, n
<1>6. \A i \in DOMAIN now.sent : (i \in DOMAIN registry.sent /\ i \in 1 .. n) \/ i = n + 1
  BY <1>3
<1>7. \E num : CountedBy(now, num)
  <2>1. PICK num : CountedBy(registry, num)
    BY DEF Numbers
  <2> DEFINE more == [i \in 1 .. n + 1 |-> IF i = n + 1 THEN Used(registry.names, base) + 1 ELSE num[i]]
             baseOf(i) == Base(now.sent[i].tool)
  <2>2. more[n + 1] = Used(registry.names, base) + 1
    BY <1>3
  <2>3. \A i \in 1 .. n : more[i] = num[i]
    BY <1>3
  <2> HIDE DEF more
  <2>4. ASSUME NEW i \in 1 .. n
        PROVE  /\ num[i] \in 1 .. Used(registry.names, baseOf(i))
               /\ now.sent[i].chat = NthName(baseOf(i), num[i])
    BY <1>3, <2>1 DEF CountedBy
  <2>5. now.sent[n + 1].chat = chat /\ baseOf(n + 1) = base
    BY <1>2, <1>3
  <2>6. \A i, j \in 1 .. n : i # j /\ baseOf(i) = baseOf(j) => num[i] # num[j]
    BY <1>3, <2>1 DEF CountedBy
  <2>7. \A x : Used(registry.names, x) \in Nat
    BY <1>3 DEF Numbers, n
  <2> HIDE DEF baseOf
  <2>8. ASSUME NEW i \in DOMAIN now.sent
        PROVE  /\ more[i] \in 1 .. Used(now.names, baseOf(i))
               /\ now.sent[i].chat = NthName(baseOf(i), more[i])
    <3>1. CASE i \in 1 .. n
      <4>1. Used(now.names, baseOf(i)) \in Nat /\ Used(now.names, baseOf(i)) >= Used(registry.names, baseOf(i))
        BY <1>5, <2>7
      <4> QED
        BY <2>3, <2>4, <2>7, <3>1, <4>1
    <3>2. CASE i = n + 1
      <4>1. Used(now.names, baseOf(i)) = more[i]
        BY <1>5, <2>2, <2>5, <3>2
      <4>2. more[i] \in Nat /\ more[i] >= 1
        BY <1>4, <2>2, <3>2
      <4> QED
        BY <2>2, <2>5, <3>2, <4>1, <4>2 DEF chat
    <3> QED
      BY <1>6, <3>1, <3>2
  <2>9. ASSUME NEW i \in DOMAIN now.sent, NEW j \in DOMAIN now.sent, i # j, baseOf(i) = baseOf(j)
        PROVE  more[i] # more[j]
    <3>1. CASE i \in 1 .. n /\ j \in 1 .. n
      BY <2>3, <2>6, <2>9, <3>1
    <3>2. ASSUME NEW x \in 1 .. n, NEW y, y = n + 1, baseOf(x) = baseOf(y) PROVE more[x] # more[y]
      <4>1. more[x] \in 1 .. Used(registry.names, base)
        BY <2>3, <2>4, <2>5, <3>2
      <4> QED
        BY <1>4, <2>2, <3>2, <4>1
    <3> QED
      BY <1>6, <2>9, <3>1, <3>2
  <2> QED
    BY <2>8, <2>9 DEF CountedBy, baseOf
<1>8. \A x : Used(now.names, x) \in 0 .. Len(now.sent)
  <2>1. \A x : Used(registry.names, x) \in 0 .. n
    BY DEF Numbers, n
  <2> QED
    BY <1>3, <1>5, <2>1
<1>9. Leads(now)
  <2>1. \A i \in DOMAIN now.sent : now.sent[i].chat \in DOMAIN now.names.byChat
    BY <1>1, <1>2, <1>3, <1>6 DEF Leads, Numbers, Put
  <2>2. ASSUME NEW c \in DOMAIN now.names.byChat
        PROVE  \E i \in DOMAIN now.sent : now.sent[i].chat = c /\ now.names.byChat[c] = now.sent[i].tool
    <3>1. CASE c = chat
      <4>1. now.names.byChat[c] = Named(tool) /\ n + 1 \in DOMAIN now.sent
        BY <1>1, <1>3, <3>1 DEF Put
      <4> QED
        BY <1>2, <1>3, <3>1, <4>1
    <3>2. CASE c # chat
      <4>1. c \in DOMAIN registry.names.byChat /\ now.names.byChat[c] = registry.names.byChat[c]
        BY <1>1, <2>2, <3>2 DEF Put
      <4>2. PICK i \in DOMAIN registry.sent :
              registry.sent[i].chat = c /\ registry.names.byChat[c] = registry.sent[i].tool
        BY <4>1 DEF Numbers, Leads
      <4> QED
        BY <1>3, <4>1, <4>2
    <3> QED
      BY <3>1, <3>2
  <2>3. ASSUME NEW t \in DOMAIN now.names.byKey
        PROVE  \E i \in DOMAIN now.sent : now.sent[i].tool = t /\ now.names.byKey[t] = now.sent[i].chat
    <3>1. CASE t = Named(tool)
      <4>1. now.names.byKey[t] = chat /\ n + 1 \in DOMAIN now.sent
        BY <1>1, <1>3, <3>1 DEF Put
      <4> QED
        BY <1>2, <1>3, <3>1, <4>1
    <3>2. CASE t # Named(tool)
      <4>1. t \in DOMAIN registry.names.byKey /\ now.names.byKey[t] = registry.names.byKey[t]
        BY <1>1, <2>3, <3>2 DEF Put
      <4>2. PICK i \in DOMAIN registry.sent :
              registry.sent[i].tool = t /\ registry.names.byKey[t] = registry.sent[i].chat
        BY <4>1 DEF Numbers, Leads
      <4> QED
        BY <1>3, <4>1, <4>2
    <3> QED
      BY <3>1, <3>2
  <2> QED
    BY <2>1, <2>2, <2>3 DEF Leads
<1>10. Widens(registry, now)
  BY <1>1, <1>3 DEF Widens, Put
<1> QED
  BY <1>7, <1>8, <1>9, <1>10 DEF Numbers, now

LEMMA WithToolRecorded ==
  ASSUME NEW registry, Recorded(registry), NEW tool \in Tools
  PROVE  /\ Recorded(WithTool(registry, tool)) /\ Widens(registry, WithTool(registry, tool))
         /\ Named(tool) \in DOMAIN WithTool(registry, tool).names.byKey
<1> DEFINE chat == NthName(Base(tool), Used(registry.names, Base(tool)) + 1)
<1>1. Named(tool) \in DOMAIN WithTool(registry, tool).names.byKey
  <2>1. WithTool(registry, tool).names.byKey = Put(registry.names.byKey, Named(tool), chat)
    BY WithToolFields
  <2> HIDE DEF chat
  <2> QED
    BY <2>1 DEF Put
<1>2. LET now == WithTool(registry, tool) IN now = [names |-> now.names, sent |-> now.sent]
  BY DEF WithTool
<1>3. Registered(registry) /\ Numbers(registry) /\ IsSequence(registry.sent)
  BY DEF Recorded, Registered
<1>4. Registered(WithTool(registry, tool))
  BY <1>3, WithToolRegistered
<1>5. Numbers(WithTool(registry, tool)) /\ Widens(registry, WithTool(registry, tool))
  BY <1>3, WithToolGiven
<1> QED
  BY <1>1, <1>2, <1>4, <1>5 DEF Recorded

(* One tool after the other: what WithTools does is what its steps do.     *)
Stepwise(so, start, tools) ==
  /\ so[0] = start /\ so[Len(tools)] = WithTools(start, tools)
  /\ \A i \in 1 .. Len(tools) : so[i] = WithTool(so[i - 1], tools[i])

LEMMA WithToolsSteps ==
  ASSUME NEW start, NEW tools, Len(tools) \in Nat
  PROVE  \E so : Stepwise(so, start, tools)
<1> DEFINE n == Len(tools)
           whole(so) == [i \in 0 .. n |-> IF i = 0 THEN start ELSE WithTool(so[i - 1], tools[i])]
           steps(so, k) == /\ so = [i \in 0 .. k |-> so[i]] /\ so[0] = start
                           /\ \A i \in 1 .. k : so[i] = WithTool(so[i - 1], tools[i])
           chosen == CHOOSE so : so = whole(so)
           T == {k \in 0 .. n : \E so : steps(so, k)}
<1>1. n \in Nat /\ WithTools(start, tools) = chosen[n]
  BY DEF WithTools
<1> HIDE DEF n
<1>2. 0 \in T
  <2>1. steps([i \in 0 .. 0 |-> start], 0)
    OBVIOUS
  <2> HIDE DEF steps
  <2> QED
    BY <1>1, <2>1
<1>3. ASSUME NEW k \in 0 .. n - 1, k \in T PROVE k + 1 \in T
  <2>1. PICK so : steps(so, k)
    BY <1>3
  <2> DEFINE more == [i \in 0 .. k + 1 |-> IF i = k + 1 THEN WithTool(so[k], tools[k + 1]) ELSE so[i]]
  <2>2. k \in Nat /\ k + 1 \in 0 .. n
    BY <1>1
  <2>3. more = [i \in 0 .. k + 1 |-> more[i]] /\ more[0] = start
    BY <2>1, <2>2
  <2>4. ASSUME NEW i \in 1 .. k + 1 PROVE more[i] = WithTool(more[i - 1], tools[i])
    <3>1. i \in 0 .. k + 1 /\ i - 1 \in 0 .. k + 1 /\ i - 1 # k + 1
      BY <2>2
    <3>2. more[i - 1] = so[i - 1]
      BY <3>1
    <3>3. CASE i = k + 1
      <4>1. i - 1 = k
        BY <2>2, <3>3
      <4> QED
        BY <3>1, <3>2, <3>3, <4>1
    <3>4. CASE i # k + 1
      <4>1. i \in 1 .. k /\ more[i] = so[i]
        BY <2>2, <3>1, <3>4
      <4> HIDE DEF more
      <4> QED
        BY <2>1, <3>2, <4>1
    <3> QED
      BY <3>3, <3>4
  <2> HIDE DEF more
  <2>5. steps(more, k + 1)
    BY <2>3, <2>4
  <2> HIDE DEF steps
  <2> QED
    BY <2>2, <2>5
<1> HIDE DEF T
<1>4. n \in T
  <2>1. 0 .. n \subseteq T
    BY <1>1, <1>2, <1>3, Induction
  <2> QED
    BY <1>1, <2>1
<1>5. PICK so : steps(so, n)
  BY <1>4 DEF T
<1>6. so = whole(so)
  <2>1. ASSUME NEW i \in 0 .. n PROVE so[i] = whole(so)[i]
    <3>1. CASE i = 0
      BY <1>5, <3>1
    <3>2. CASE i # 0
      <4>1. i \in 1 .. n
        BY <1>1, <3>2
      <4> QED
        BY <1>5, <3>2, <4>1
    <3> QED
      BY <3>1, <3>2
  <2>2. so = [i \in 0 .. n |-> so[i]] /\ whole(so) = [i \in 0 .. n |-> whole(so)[i]]
    BY <1>5
  <2> HIDE DEF whole, steps
  <2> QED
    BY <2>1, <2>2
<1>7. chosen = whole(chosen)
  BY <1>6
<1> HIDE DEF chosen
<1>8. chosen[0] = start /\ \A i \in 1 .. n : chosen[i] = WithTool(chosen[i - 1], tools[i])
  <2>1. ASSUME NEW i \in 0 .. n PROVE chosen[i] = whole(chosen)[i]
    <3> HIDE DEF whole
    <3> QED
      BY <1>7
  <2>2. whole(chosen)[0] = start /\ 0 \in 0 .. n
    BY <1>1
  <2>3. \A i \in 1 .. n : i \in 0 .. n /\ whole(chosen)[i] = WithTool(chosen[i - 1], tools[i])
    BY <1>1
  <2> HIDE DEF whole
  <2> QED
    BY <2>1, <2>2, <2>3
<1> QED
  BY <1>1, <1>8 DEF n, Stepwise

LEMMA WithToolsGiven ==
  ASSUME NEW start, Recorded(start), NEW tools \in Seq(Tools)
  PROVE  /\ Recorded(WithTools(start, tools)) /\ Widens(start, WithTools(start, tools))
         /\ \A tool \in ToSet(tools) : Named(tool) \in DOMAIN WithTools(start, tools).names.byKey
<1> DEFINE n == Len(tools)
<1>1. n \in Nat /\ DOMAIN tools = 1 .. n /\ \A i \in 1 .. n : tools[i] \in Tools
  OBVIOUS
<1>2. PICK so : /\ so[0] = start /\ so[n] = WithTools(start, tools)
                /\ \A i \in 1 .. n : so[i] = WithTool(so[i - 1], tools[i])
  <2>1. Len(tools) \in Nat
    BY <1>1
  <2>2. \E so : Stepwise(so, start, tools)
    BY <2>1, WithToolsSteps
  <2> QED
    BY <2>2 DEF Stepwise
<1> HIDE DEF n
<1> DEFINE R == {i \in 0 .. n :
                   /\ Recorded(so[i]) /\ Widens(start, so[i])
                   /\ \A j \in 1 .. i : Named(tools[j]) \in DOMAIN so[i].names.byKey}
<1>3. 0 \in R
  BY <1>1, <1>2 DEF Widens
<1>4. ASSUME NEW i \in 0 .. n - 1, i \in R PROVE i + 1 \in R
  <2>1. i + 1 \in 1 .. n /\ (i + 1) - 1 = i /\ i + 1 \in 0 .. n /\ i \in Nat
    BY <1>1
  <2>2. so[i + 1] = WithTool(so[i], tools[i + 1]) /\ tools[i + 1] \in Tools
    BY <1>1, <1>2, <2>1
  <2>3. /\ Recorded(so[i + 1]) /\ Widens(so[i], so[i + 1])
        /\ Named(tools[i + 1]) \in DOMAIN so[i + 1].names.byKey
    BY <1>4, <2>2, WithToolRecorded
  <2>4. Widens(start, so[i + 1])
    BY <1>4, <2>3, WidensFurther
  <2>5. \A j \in 1 .. i + 1 : j \in 1 .. i \/ j = i + 1
    BY <2>1
  <2>6. \A j \in 1 .. i + 1 : Named(tools[j]) \in DOMAIN so[i + 1].names.byKey
    BY <1>4, <2>3, <2>5 DEF Widens
  <2> QED
    BY <2>1, <2>3, <2>4, <2>6
<1> HIDE DEF R
<1>5. n \in R
  <2>1. 0 .. n \subseteq R
    BY <1>1, <1>3, <1>4, Induction
  <2> QED
    BY <1>1, <2>1
<1>6. /\ Recorded(so[n]) /\ Widens(start, so[n])
      /\ \A j \in 1 .. n : Named(tools[j]) \in DOMAIN so[n].names.byKey
  BY <1>5 DEF R
<1> QED
  BY <1>1, <1>2, <1>6 DEF ToSet

(* The same, for the tools of a tool search.                               *)
StepwiseFound(so, start, tools) ==
  /\ so[0] = start /\ so[Len(tools)] = WithDiscoveredTools(start, tools)
  /\ \A i \in 1 .. Len(tools) : so[i] = WithDiscoveredTool(so[i - 1], tools[i])

LEMMA WithDiscoveredToolsSteps ==
  ASSUME NEW start, NEW tools, Len(tools) \in Nat
  PROVE  \E so : StepwiseFound(so, start, tools)
<1> DEFINE n == Len(tools)
           whole(so) == [i \in 0 .. n |-> IF i = 0 THEN start ELSE WithDiscoveredTool(so[i - 1], tools[i])]
           steps(so, k) == /\ so = [i \in 0 .. k |-> so[i]] /\ so[0] = start
                           /\ \A i \in 1 .. k : so[i] = WithDiscoveredTool(so[i - 1], tools[i])
           chosen == CHOOSE so : so = whole(so)
           T == {k \in 0 .. n : \E so : steps(so, k)}
<1>1. n \in Nat /\ WithDiscoveredTools(start, tools) = chosen[n]
  BY DEF WithDiscoveredTools
<1> HIDE DEF n
<1>2. 0 \in T
  <2>1. steps([i \in 0 .. 0 |-> start], 0)
    OBVIOUS
  <2> HIDE DEF steps
  <2> QED
    BY <1>1, <2>1
<1>3. ASSUME NEW k \in 0 .. n - 1, k \in T PROVE k + 1 \in T
  <2>1. PICK so : steps(so, k)
    BY <1>3
  <2> DEFINE more == [i \in 0 .. k + 1 |-> IF i = k + 1 THEN WithDiscoveredTool(so[k], tools[k + 1]) ELSE so[i]]
  <2>2. k \in Nat /\ k + 1 \in 0 .. n
    BY <1>1
  <2>3. more = [i \in 0 .. k + 1 |-> more[i]] /\ more[0] = start
    BY <2>1, <2>2
  <2>4. ASSUME NEW i \in 1 .. k + 1 PROVE more[i] = WithDiscoveredTool(more[i - 1], tools[i])
    <3>1. i \in 0 .. k + 1 /\ i - 1 \in 0 .. k + 1 /\ i - 1 # k + 1
      BY <2>2
    <3>2. more[i - 1] = so[i - 1]
      BY <3>1
    <3>3. CASE i = k + 1
      <4>1. i - 1 = k
        BY <2>2, <3>3
      <4> QED
        BY <3>1, <3>2, <3>3, <4>1
    <3>4. CASE i # k + 1
      <4>1. i \in 1 .. k /\ more[i] = so[i]
        BY <2>2, <3>1, <3>4
      <4> HIDE DEF more
      <4> QED
        BY <2>1, <3>2, <4>1
    <3> QED
      BY <3>3, <3>4
  <2> HIDE DEF more
  <2>5. steps(more, k + 1)
    BY <2>3, <2>4
  <2> HIDE DEF steps
  <2> QED
    BY <2>2, <2>5
<1> HIDE DEF T
<1>4. n \in T
  <2>1. 0 .. n \subseteq T
    BY <1>1, <1>2, <1>3, Induction
  <2> QED
    BY <1>1, <2>1
<1>5. PICK so : steps(so, n)
  BY <1>4 DEF T
<1>6. so = whole(so)
  <2>1. ASSUME NEW i \in 0 .. n PROVE so[i] = whole(so)[i]
    <3>1. CASE i = 0
      BY <1>5, <3>1
    <3>2. CASE i # 0
      <4>1. i \in 1 .. n
        BY <1>1, <3>2
      <4> QED
        BY <1>5, <3>2, <4>1
    <3> QED
      BY <3>1, <3>2
  <2>2. so = [i \in 0 .. n |-> so[i]] /\ whole(so) = [i \in 0 .. n |-> whole(so)[i]]
    BY <1>5
  <2> HIDE DEF whole, steps
  <2> QED
    BY <2>1, <2>2
<1>7. chosen = whole(chosen)
  BY <1>6
<1> HIDE DEF chosen
<1>8. chosen[0] = start /\ \A i \in 1 .. n : chosen[i] = WithDiscoveredTool(chosen[i - 1], tools[i])
  <2>1. ASSUME NEW i \in 0 .. n PROVE chosen[i] = whole(chosen)[i]
    <3> HIDE DEF whole
    <3> QED
      BY <1>7
  <2>2. whole(chosen)[0] = start /\ 0 \in 0 .. n
    BY <1>1
  <2>3. \A i \in 1 .. n : i \in 0 .. n /\ whole(chosen)[i] = WithDiscoveredTool(chosen[i - 1], tools[i])
    BY <1>1
  <2> HIDE DEF whole
  <2> QED
    BY <2>1, <2>2, <2>3
<1> QED
  BY <1>1, <1>8 DEF n, StepwiseFound

LEMMA WithDiscoveredToolsGiven ==
  ASSUME NEW start, Recorded(start), NEW tools \in Seq(Tools)
  PROVE  Recorded(WithDiscoveredTools(start, tools)) /\ Widens(start, WithDiscoveredTools(start, tools))
<1> DEFINE n == Len(tools)
<1>1. n \in Nat /\ DOMAIN tools = 1 .. n /\ \A i \in 1 .. n : tools[i] \in Tools
  OBVIOUS
<1>2. PICK so : /\ so[0] = start /\ so[n] = WithDiscoveredTools(start, tools)
                /\ \A i \in 1 .. n : so[i] = WithDiscoveredTool(so[i - 1], tools[i])
  <2>1. Len(tools) \in Nat
    BY <1>1
  <2>2. \E so : StepwiseFound(so, start, tools)
    BY <2>1, WithDiscoveredToolsSteps
  <2> QED
    BY <2>2 DEF StepwiseFound
<1> HIDE DEF n
<1> DEFINE R == {i \in 0 .. n : Recorded(so[i]) /\ Widens(start, so[i])}
<1>3. 0 \in R
  BY <1>1, <1>2 DEF Widens
<1>4. ASSUME NEW i \in 0 .. n - 1, i \in R PROVE i + 1 \in R
  <2>1. i + 1 \in 1 .. n /\ (i + 1) - 1 = i /\ i + 1 \in 0 .. n /\ i \in Nat
    BY <1>1
  <2>2. so[i + 1] = WithDiscoveredTool(so[i], tools[i + 1]) /\ tools[i + 1] \in Tools
    BY <1>1, <1>2, <2>1
  <2>3. Recorded(so[i + 1]) /\ Widens(so[i], so[i + 1])
    BY <1>4, <2>2, WithToolRecorded DEF WithDiscoveredTool, Widens
  <2>4. Widens(start, so[i + 1])
    BY <1>4, <2>3, WidensFurther
  <2> QED
    BY <2>1, <2>3, <2>4
<1> HIDE DEF R
<1>5. n \in R
  <2>1. 0 .. n \subseteq R
    BY <1>1, <1>3, <1>4, Induction
  <2> QED
    BY <1>1, <2>1
<1> QED
  BY <1>2, <1>5 DEF R
-----------------------------------------------------------------------------
(* What reading an item does: it goes on with the pending message, or ends *)
(* it with a message of its own, or none, behind it.                       *)

Whole(p) == p = [reasoning |-> p.reasoning, text |-> p.text, calls |-> p.calls, results |-> p.results]

OwnMessage(m) ==
  /\ Ordinary(m) /\ m.calls = <<>>
  /\ m.role = "tool" => m.parts[1].item = Place
  /\ Output(m) => m.id # NoID /\ m.id \in DOMAIN rendered /\ m.name = rendered[m.id]

Own(own) == own = <<>> \/ \E m : own = <<m>> /\ OwnMessage(m)

Adds(call) == pending'.calls = Append(pending.calls, call)

KeepsOn(item) ==
  /\ messages' = Said /\ images' = <<>>
  /\ Whole(pending')
  /\ \/ pending'.calls = pending.calls /\ pending'.results = pending.results /\ rendered' = rendered
     \/ \E id, name : /\ Adds(Call(id, name)) /\ pending'.results = pending.results
                      /\ rendered' = Put(rendered, id, name)
     \/ \E id, name : /\ Adds(Call(id, name)) /\ id # NoID
                      /\ pending'.results = Append(pending.results, ToolMessage(Place, id, name))
                      /\ rendered' = rendered /\ item.kind = "web_search"

Closes(item) ==
  /\ \E own : /\ Own(own)
              /\ \/ /\ item.kind # "output" /\ images' = <<>>
                    /\ messages' = Said \o Flush(pending) \o own
                 \/ /\ item.kind = "output" /\ messages' = messages \o Flush(pending) \o own
                    /\ images' = images \/ (item.image /\ images' = Append(images, ImageMessage(Place)))
  /\ Whole(pending') /\ pending'.calls = <<>> /\ pending'.results = <<>>
  /\ item.kind \in {"output", "tool_search_output"} => pending' = Nothing
  /\ rendered' = rendered /\ item.kind # "web_search"

ReadsAs(item) ==
  /\ history' = Append(history, item) /\ UNCHANGED request
  /\ KeepsOn(item) \/ Closes(item)

LEMMA NothingWhole ==
  /\ Whole(Nothing) /\ Nothing.reasoning = <<>> /\ Nothing.text = <<>>
  /\ Nothing.calls = <<>> /\ Nothing.results = <<>>
BY DEF Whole, Nothing

LEMMA MessageFields ==
  ASSUME NEW role, NEW parts
  PROVE  /\ Message(role, parts).role = role /\ Message(role, parts).parts = parts
         /\ Message(role, parts).calls = <<>>
BY DEF Message

LEMMA ToolMessageFields ==
  ASSUME NEW item, NEW id, NEW name
  PROVE  LET m == ToolMessage(item, id, name)
         IN  /\ m.role = "tool" /\ m.parts[1].item = item /\ m.calls = <<>>
             /\ m.id = id /\ m.name = name /\ Ordinary(m)
BY DEF ToolMessage, Message, Part, Ordinary, Roles

LEMMA MarkerIsOwn == OwnMessage(MarkerMessage(Place))
BY MessageFields DEF MarkerMessage, OwnMessage, Ordinary, Roles, Output

LEMMA SeparatelyCloses ==
  ASSUME Typed, NEW item, NEW own, Own(own), Separately(own, Said), images' = <<>>, rendered' = rendered,
         item.kind # "output", item.kind # "web_search"
  PROVE  Closes(item)
BY NothingWhole DEF Separately, Closes

LEMMA MergeReads ==
  ASSUME Typed, NEW item, NEW message, Merge(message), images' = <<>>, rendered' = rendered,
         Whole(message), message.calls = <<>>, message.results = <<>>,
         item.kind \in {"message", "reasoning"}
  PROVE  KeepsOn(item) \/ Closes(item)
<1>1. CASE SplitBefore(pending)
  <2>1. messages' = Said \o Flush(pending) /\ pending' = message
    BY <1>1 DEF Merge
  <2>2. IsSequence(Said \o Flush(pending))
    <3>1. IsSequence(messages) /\ IsSequence(images) /\ IsSequence(pending.results)
      BY DEF Typed, WellTold
    <3>2. \A x : IsSequence(<<x>> \o pending.results)
      BY <3>1, NoneAndOne, Joined
    <3>3. IsSequence(Flush(pending))
      BY <3>2, NoneAndOne DEF Flush
    <3> QED
      BY <3>1, <3>3, Joined DEF Said
  <2>3. messages' = Said \o Flush(pending) \o <<>>
    BY <2>1, <2>2, NoneAndOne
  <2>4. Own(<<>>)
    BY DEF Own
  <2> QED
    BY <2>1, <2>3, <2>4 DEF Closes
<1>2. CASE ~SplitBefore(pending)
  <2>1. messages' = Said /\ pending' = message /\ pending.calls = <<>> /\ pending.results = <<>>
    BY <1>2 DEF Merge, SplitBefore
  <2> QED
    BY <2>1 DEF KeepsOn
<1> QED
  BY <1>1, <1>2

LEMMA OpenWhole ==
  ASSUME Typed
  PROVE  /\ Whole(Open) /\ Open.calls = <<>> /\ Open.results = <<>>
         /\ \A x : LET m == [Open EXCEPT !.text = x]
                   IN  Whole(m) /\ m.calls = <<>> /\ m.results = <<>>
         /\ \A x : LET m == [Open EXCEPT !.reasoning = x]
                   IN  Whole(m) /\ m.calls = <<>> /\ m.results = <<>>
<1>1. Whole(Open) /\ Open.calls = <<>> /\ Open.results = <<>>
  BY NothingWhole DEF Open, SplitBefore, Typed, Whole
<1> QED
  BY <1>1 DEF Whole

LEMMA OutputIsOwn ==
  ASSUME NEW item
  PROVE  Own(<<OutputMessage(item)>>)
<1>1. CASE Answers(item)
  <2>1. OutputMessage(item) = ToolMessage(Place, item.id, rendered[item.id])
    BY <1>1 DEF OutputMessage
  <2>2. OwnMessage(OutputMessage(item))
    BY <1>1, <2>1, ToolMessageFields DEF OwnMessage, Answers
  <2> QED
    BY <2>2 DEF Own
<1>2. CASE ~Answers(item)
  BY <1>2, MarkerIsOwn DEF OutputMessage, Own
<1> QED
  BY <1>1, <1>2

LEMMA ReadShape ==
  ASSUME Typed, ReadItem
  PROVE  \E item \in request.items : ReadsAs(item)
<1>1. PICK item \in request.items :
        \/ ReadMessage(item) \/ ReadReasoning(item) \/ ReadCall(item) \/ ReadSearch(item)
        \/ ReadOutput(item) \/ ReadToolSearchOutput(item) \/ ReadOther(item)
  BY DEF ReadItem
<1>2. history' = Append(history, item) /\ UNCHANGED request
  BY <1>1 DEF ReadMessage, ReadReasoning, ReadCall, ReadSearch, ReadOutput, ReadToolSearchOutput,
              ReadOther, Read
<1>3. SUFFICES KeepsOn(item) \/ Closes(item)
  BY <1>2 DEF ReadsAs
<1>4. /\ item.kind = "message" => item.role \in Roles
      /\ item.kind = "web_search" /\ item.cached => item.id # NoID
  BY InboundAssumption DEF Typed
<1>5. Own(<<>>)
  BY DEF Own
<1>6. CASE ReadMessage(item)
  <2> DEFINE part == <<Part(Place, "text")>>
  <2>1. item.kind = "message" /\ images' = <<>> /\ rendered' = rendered
    BY <1>6 DEF ReadMessage
  <2>2. CASE ReasoningSentBack /\ item.role = "assistant"
    <3>1. Merge([Open EXCEPT !.text = part])
      BY <1>6, <2>2 DEF ReadMessage
    <3> HIDE DEF part
    <3> DEFINE message == [Open EXCEPT !.text = part]
    <3>2. Whole(message) /\ message.calls = <<>> /\ message.results = <<>>
      BY OpenWhole
    <3> HIDE DEF message
    <3> QED
      BY <2>1, <3>1, <3>2, MergeReads DEF message
  <2>3. CASE ~(ReasoningSentBack /\ item.role = "assistant")
    <3> DEFINE m == Message(item.role, part)
    <3>1. Separately(<<m>>, Said)
      BY <1>6, <2>3 DEF ReadMessage
    <3>2. OwnMessage(m)
      BY <1>4, <2>1, MessageFields DEF OwnMessage, Ordinary, Output, Part
    <3> HIDE DEF m
    <3>3. Own(<<m>>)
      BY <3>2 DEF Own
    <3> QED
      BY <2>1, <3>1, <3>3, SeparatelyCloses
  <2> QED
    BY <2>2, <2>3
<1>7. CASE ReadReasoning(item)
  <2> DEFINE part == IF item.readable THEN <<Part(Place, "reasoning")>> ELSE <<>>
  <2>1. item.kind = "reasoning" /\ images' = <<>> /\ rendered' = rendered
    BY <1>7 DEF ReadReasoning
  <2>2. CASE ReasoningSentBack
    <3>1. Merge([Open EXCEPT !.reasoning = @ \o part])
      BY <1>7, <2>2 DEF ReadReasoning, ReasoningSentBack
    <3> DEFINE so == Open.reasoning \o part
               message == [Open EXCEPT !.reasoning = so]
    <3>2. Merge(message)
      BY <3>1
    <3> HIDE DEF so
    <3>3. Whole(message) /\ message.calls = <<>> /\ message.results = <<>>
      BY OpenWhole
    <3> HIDE DEF message
    <3> QED
      BY <2>1, <3>2, <3>3, MergeReads
  <2>3. CASE ~ReasoningSentBack
    <3> DEFINE m == Message("assistant", part)
    <3>1. Separately(<<m>>, Said) \/ Separately(<<>>, Said)
      BY <1>7, <2>3 DEF ReadReasoning
    <3>2. OwnMessage(m)
      BY MessageFields DEF OwnMessage, Ordinary, Output, Roles
    <3> HIDE DEF m
    <3>3. Own(<<m>>)
      BY <3>2 DEF Own
    <3> QED
      BY <1>5, <2>1, <3>1, <3>3, SeparatelyCloses
  <2> QED
    BY <2>2, <2>3
<1>8. CASE ReadCall(item)
  <2>1. item.kind = "call" /\ images' = <<>>
    BY <1>8 DEF ReadCall
  <2>2. CASE Renderable(item)
    <3> DEFINE name == RenderedName(item.tool)
    <3>1. /\ messages' = Said
          /\ pending' = [pending EXCEPT !.calls = Append(@, Call(item.id, name))]
          /\ rendered' = Put(rendered, item.id, name)
      BY <1>8, <2>2 DEF ReadCall
    <3> HIDE DEF name
    <3>2. Whole(pending') /\ Adds(Call(item.id, name)) /\ pending'.results = pending.results
      BY <3>1 DEF Typed, Whole, Adds
    <3> QED
      BY <2>1, <3>1, <3>2 DEF KeepsOn
  <2>3. CASE ~Renderable(item)
    <3>1. Separately(<<MarkerMessage(Place)>>, Said) /\ rendered' = rendered
      BY <1>8, <2>3 DEF ReadCall
    <3>2. Own(<<MarkerMessage(Place)>>)
      BY MarkerIsOwn DEF Own
    <3> QED
      BY <2>1, <3>1, <3>2, SeparatelyCloses
  <2> QED
    BY <2>2, <2>3
<1>9. CASE ReadSearch(item)
  <2> DEFINE name == HostedName("web_search")
  <2>1. item.kind = "web_search" /\ images' = <<>> /\ messages' = Said /\ rendered' = rendered
    BY <1>9 DEF ReadSearch
  <2>2. CASE ~item.cached
    <3>1. pending' = pending
      BY <1>9, <2>2 DEF ReadSearch
    <3> QED
      BY <2>1, <3>1 DEF KeepsOn, Typed, Whole
  <2>3. CASE item.cached
    <3>1. pending' = [pending EXCEPT !.calls = Append(@, Call(item.id, name)),
                                     !.results = Append(@, ToolMessage(Place, item.id, name))]
      BY <1>9, <2>3 DEF ReadSearch
    <3> HIDE DEF name
    <3>2. /\ Whole(pending') /\ Adds(Call(item.id, name))
          /\ pending'.results = Append(pending.results, ToolMessage(Place, item.id, name))
      BY <3>1 DEF Typed, Whole, Adds
    <3> QED
      BY <1>4, <2>1, <2>3, <3>2 DEF KeepsOn
  <2> QED
    BY <2>2, <2>3
<1>10. CASE ReadOutput(item)
  <2>1. /\ item.kind = "output" /\ rendered' = rendered
        /\ Separately(<<OutputMessage(item)>>, messages)
        /\ images' = images \/ (item.image /\ images' = Append(images, ImageMessage(Place)))
    BY <1>10 DEF ReadOutput
  <2>2. Own(<<OutputMessage(item)>>)
    BY OutputIsOwn
  <2> QED
    BY <2>1, <2>2, NothingWhole DEF Separately, Closes
<1>11. CASE ReadToolSearchOutput(item)
  <2>1. /\ item.kind = "tool_search_output" /\ rendered' = rendered /\ images' = <<>>
        /\ Separately(<<OutputMessage(item)>>, Said)
    BY <1>11 DEF ReadToolSearchOutput
  <2> QED
    BY <2>1, OutputIsOwn, SeparatelyCloses
<1>12. CASE ReadOther(item)
  <2>1. /\ item.kind = "other" /\ rendered' = rendered /\ images' = <<>>
        /\ Separately(<<MarkerMessage(Place)>>, Said)
    BY <1>12 DEF ReadOther
  <2>2. Own(<<MarkerMessage(Place)>>)
    BY MarkerIsOwn DEF Own
  <2> QED
    BY <2>1, <2>2, SeparatelyCloses
<1> QED
  BY <1>1, <1>6, <1>7, <1>8, <1>9, <1>10, <1>11, <1>12
-----------------------------------------------------------------------------
(* Types.                                                                  *)

LEMMA ToldJoined ==
  ASSUME NEW one, NEW two, WellTold(one), WellTold(two)
  PROVE  WellTold(one \o two)
<1> DEFINE both == one \o two
<1>1. IsSequence(one) /\ IsSequence(two)
  BY DEF WellTold
<1>2. /\ IsSequence(both)
      /\ \A i \in DOMAIN both :
           \/ i \in DOMAIN one /\ both[i] = one[i]
           \/ i > Len(one) /\ i - Len(one) \in DOMAIN two /\ both[i] = two[i - Len(one)]
  BY <1>1, Joined
<1> HIDE DEF both
<1>3. \A i \in DOMAIN both : Ordinary(both[i])
  BY <1>2 DEF WellTold
<1>4. WellTold(both)
  BY <1>2, <1>3 DEF WellTold
<1> QED
  BY <1>4 DEF both

LEMMA ToldOne ==
  ASSUME NEW m, Ordinary(m)
  PROVE  WellTold(<<m>>)
BY NoneAndOne DEF WellTold

LEMMA ToldNone == WellTold(<<>>)
BY NoneAndOne DEF WellTold

LEMMA ToldAppended ==
  ASSUME NEW one, WellTold(one), NEW m, Ordinary(m)
  PROVE  WellTold(Append(one, m))
<1>1. /\ IsSequence(Append(one, m)) /\ Len(one) \in Nat
      /\ DOMAIN one = 1 .. Len(one) /\ DOMAIN Append(one, m) = 1 .. Len(one) + 1
      /\ Append(one, m)[Len(one) + 1] = m
      /\ \A i \in 1 .. Len(one) : Append(one, m)[i] = one[i]
  BY AppendedToAny DEF WellTold
<1>2. \A i \in DOMAIN Append(one, m) : i \in DOMAIN one \/ i = Len(one) + 1
  BY <1>1
<1> QED
  BY <1>1, <1>2 DEF WellTold

(* The messages of a pending message: its calls come first.                *)
Head1(p) == [Message("assistant", p.reasoning \o p.text) EXCEPT !.calls = p.calls]

LEMMA FlushParts ==
  ASSUME NEW p
  PROVE  /\ p = Nothing => Flush(p) = <<>>
         /\ p # Nothing => Flush(p) = <<Head1(p)>> \o p.results
         /\ Head1(p).role = "assistant" /\ Head1(p).calls = p.calls /\ Ordinary(Head1(p))
         /\ WellTold(p.results) => WellTold(Flush(p))
<1>1. /\ p = Nothing => Flush(p) = <<>>
      /\ p # Nothing => Flush(p) = <<Head1(p)>> \o p.results
  BY DEF Flush, Head1
<1>2. Head1(p).role = "assistant" /\ Head1(p).calls = p.calls
  BY DEF Head1, Message
<1>3. Ordinary(Head1(p))
  BY <1>2 DEF Ordinary, Roles
<1>4. WellTold(<<Head1(p)>>)
  BY <1>3, ToldOne
<1> QED
  BY <1>1, <1>2, <1>3, <1>4, ToldJoined, ToldNone

LEMMA ImageFields ==
  ASSUME NEW item
  PROVE  ImageMessage(item).role = "user" /\ ImageMessage(item).calls = <<>> /\ Ordinary(ImageMessage(item))
BY MessageFields DEF ImageMessage, Ordinary, Roles

LEMMA OwnTold ==
  ASSUME NEW own, Own(own)
  PROVE  WellTold(own)
BY ToldNone, ToldOne DEF Own, OwnMessage

LEMMA RecordedKept ==
  ASSUME Typed, ReadItem
  PROVE  Recorded(Registry)' /\ Widens(Registry, Registry')
<1>1. CASE UNCHANGED <<names, sent>>
  <2>1. Registry' = Registry
    BY <1>1 DEF Registry
  <2> QED
    BY <2>1 DEF Typed, Widens
<1>2. CASE \E item \in request.items : ReadToolSearchOutput(item)
  <2>1. PICK item \in request.items : ReadToolSearchOutput(item)
    BY <1>2
  <2> DEFINE all == WithDiscoveredTools(Registry, item.tools)
  <2>2. item.tools \in Seq(Tools)
    BY <2>1, InboundAssumption DEF ReadToolSearchOutput, Typed
  <2>3. Recorded(all) /\ Widens(Registry, all)
    BY <2>2, WithDiscoveredToolsGiven DEF Typed
  <2>4. names' = all.names /\ sent' = all.sent
    BY <2>1 DEF ReadToolSearchOutput
  <2> HIDE DEF all
  <2>5. Registry' = all
    BY <2>3, <2>4 DEF Recorded, Registry
  <2> QED
    BY <2>3, <2>5
<1> QED
  BY <1>1, <1>2 DEF ReadItem, ReadMessage, ReadReasoning, ReadCall, ReadSearch, ReadOutput, ReadOther,
                    SameNames

(* The pieces of Typed that reading disturbs.                              *)
LEMMA ReadTyped ==
  ASSUME Typed, ReadItem
  PROVE  Typed'
<1>1. PICK item \in request.items : ReadsAs(item)
  BY ReadShape
<1>2. request' \in Inbound /\ IsSequence(history')
  BY <1>1, AppendedToAny DEF ReadsAs, Typed
<1>3. /\ WellTold(messages) /\ WellTold(images) /\ WellTold(pending.results) /\ WellTold(Flush(pending))
      /\ IsSequence(pending.calls) /\ WellTold(Said)
  BY FlushParts, ToldJoined DEF Typed, Said
<1>4. CASE KeepsOn(item)
  <2>1. WellTold(messages') /\ images' = <<>> /\ Whole(pending')
    BY <1>3, <1>4 DEF KeepsOn
  <2>2. IsSequence(pending'.calls) /\ WellTold(pending'.results)
    <3>1. \A call : IsSequence(Append(pending.calls, call))
      BY <1>3, AppendedToAny
    <3>2. \A id, name : WellTold(Append(pending.results, ToolMessage(Place, id, name)))
      BY <1>3, ToldAppended, ToolMessageFields
    <3> QED
      BY <1>3, <1>4, <3>1, <3>2 DEF KeepsOn, Adds
  <2>3. \A i \in DOMAIN pending'.results :
          pending'.results[i].role = "tool" /\ pending'.results[i].calls = <<>>
    <3>1. CASE pending'.results = pending.results
      BY <3>1 DEF Typed
    <3>2. CASE \E id, name : pending'.results = Append(pending.results, ToolMessage(Place, id, name))
      <4>1. PICK id, name : pending'.results = Append(pending.results, ToolMessage(Place, id, name))
        BY <3>2
      <4> DEFINE new == ToolMessage(Place, id, name)
      <4>2. new.role = "tool" /\ new.calls = <<>>
        BY ToolMessageFields
      <4> HIDE DEF new
      <4>3. /\ Len(pending.results) \in Nat /\ DOMAIN pending.results = 1 .. Len(pending.results)
            /\ DOMAIN pending'.results = 1 .. Len(pending.results) + 1
            /\ pending'.results[Len(pending.results) + 1] = new
            /\ \A i \in 1 .. Len(pending.results) : pending'.results[i] = pending.results[i]
        BY <1>3, <4>1, AppendedToAny DEF WellTold, new
      <4>4. \A i \in DOMAIN pending'.results : i \in DOMAIN pending.results \/ i = Len(pending.results) + 1
        BY <4>3
      <4> QED
        BY <4>2, <4>3, <4>4 DEF Typed
    <3> QED
      BY <1>4, <3>1, <3>2 DEF KeepsOn
  <2> QED
    BY <1>2, <2>1, <2>2, <2>3, RecordedKept, ToldNone, NoneAndOne DEF Typed, Whole
<1>5. CASE Closes(item)
  <2>1. PICK own :
          /\ Own(own)
          /\ \/ /\ item.kind # "output" /\ images' = <<>>
                /\ messages' = Said \o Flush(pending) \o own
             \/ /\ item.kind = "output" /\ messages' = messages \o Flush(pending) \o own
                /\ images' = images \/ (item.image /\ images' = Append(images, ImageMessage(Place)))
    BY <1>5 DEF Closes
  <2>2. WellTold(messages')
    <3>1. WellTold(Said \o Flush(pending) \o own) /\ WellTold(messages \o Flush(pending) \o own)
      BY <1>3, <2>1, OwnTold, ToldJoined
    <3> QED
      BY <2>1, <3>1
  <2>3. /\ WellTold(images')
        /\ \A i \in DOMAIN images' : images'[i].role = "user" /\ images'[i].calls = <<>>
    <3>1. CASE images' = <<>> \/ images' = images
      BY <1>3, <3>1, ToldNone, NoneAndOne DEF Typed
    <3>2. CASE images' = Append(images, ImageMessage(Place))
      <4>1. WellTold(images')
        BY <1>3, <3>2, ToldAppended, ImageFields
      <4> DEFINE new == ImageMessage(Place)
      <4>2. new.role = "user" /\ new.calls = <<>>
        BY ImageFields
      <4> HIDE DEF new
      <4>3. /\ Len(images) \in Nat /\ DOMAIN images = 1 .. Len(images)
            /\ DOMAIN images' = 1 .. Len(images) + 1
            /\ images'[Len(images) + 1] = new
            /\ \A i \in 1 .. Len(images) : images'[i] = images[i]
        BY <1>3, <3>2, AppendedToAny DEF WellTold, new
      <4>4. \A i \in DOMAIN images' : i \in DOMAIN images \/ i = Len(images) + 1
        BY <4>3
      <4> QED
        BY <4>1, <4>2, <4>3, <4>4 DEF Typed
    <3> QED
      BY <2>1, <3>1, <3>2
  <2>4. /\ Whole(pending') /\ pending'.calls = <<>> /\ pending'.results = <<>>
        /\ images' # <<>> => pending' = Nothing
    BY <1>5, <2>1 DEF Closes
  <2> QED
    BY <1>2, <2>2, <2>3, <2>4, RecordedKept, ToldNone, NoneAndOne DEF Typed, Whole
<1> QED
  BY <1>1, <1>4, <1>5 DEF ReadsAs

(* The input ends: everything goes out.                                    *)
LEMMA EndTyped ==
  ASSUME Typed, EndInput
  PROVE  Typed' /\ pending' = Nothing /\ images' = <<>> /\ messages' # <<>>
<1> DEFINE all == messages \o Flush(pending) \o images
           m == Message("user", <<>>)
<1>1. WellTold(all)
  BY FlushParts, ToldJoined DEF Typed
<1>2. WellTold(<<m>>) /\ <<m>> # <<>>
  <2>1. Ordinary(m)
    BY MessageFields DEF Ordinary, Roles
  <2> HIDE DEF m
  <2> QED
    BY <2>1, ToldOne
<1>3. messages' = (IF all = <<>> THEN <<m>> ELSE all) /\ pending' = Nothing /\ images' = <<>>
      /\ UNCHANGED <<request, history, rendered, names, sent>>
  BY DEF EndInput, SameNames
<1> HIDE DEF all, m
<1>4. WellTold(messages') /\ messages' # <<>>
  BY <1>1, <1>2, <1>3
<1>5. Recorded(Registry)'
  BY <1>3 DEF Typed, Registry
<1> QED
  BY <1>3, <1>4, <1>5, NothingWhole, ToldNone, NoneAndOne DEF Typed, Whole

LEMMA InitTyped ==
  ASSUME Init
  PROVE  Typed /\ pc = "tools"
<1>1. /\ request \in Inbound /\ names = NewNames /\ sent = <<>> /\ history = <<>> /\ pending = Nothing
      /\ images = <<>> /\ pc = "tools"
      /\ messages = <<Message("system", <<>>)>> \/ messages = <<>>
  BY DEF Init, InitTranslation
<1>2. Recorded(Registry)
  <2>1. /\ DOMAIN names.used = {} /\ DOMAIN names.byChat = {} /\ DOMAIN names.byKey = {}
        /\ ToSet(sent) = {} /\ IsSequence(sent) /\ DOMAIN sent = {} /\ Len(sent) = 0
    BY <1>1, NoneAndOne DEF NewNames, ToSet
  <2>2. Registry.names = names /\ Registry.sent = sent
    BY DEF Registry
  <2>3. Registered(Registry)
    BY <2>1, <2>2 DEF Registered
  <2>4. Numbers(Registry)
    BY <2>1, <2>2 DEF Numbers, CountedBy, Leads, Used
  <2> QED
    BY <2>3, <2>4 DEF Recorded, Registry
<1>3. WellTold(messages)
  <2> DEFINE m == Message("system", <<>>)
  <2>1. Ordinary(m)
    BY MessageFields DEF Ordinary, Roles
  <2> HIDE DEF m
  <2> QED
    BY <1>1, <2>1, ToldOne, ToldNone DEF m
<1> QED
  BY <1>1, <1>2, <1>3, NothingWhole, ToldNone, NoneAndOne DEF Typed, Whole

LEMMA DeclareTyped ==
  ASSUME Typed, TranslateTools
  PROVE  Typed'
<1> DEFINE all == WithTools(Registry, request.tools)
<1>1. names' = all.names /\ sent' = all.sent
      /\ UNCHANGED <<request, history, pending, images, rendered, messages>>
  BY DEF TranslateTools
<1>2. request.tools \in Seq(Tools)
  BY InboundAssumption DEF Typed
<1>3. Recorded(all)
  BY <1>2, WithToolsGiven DEF Typed
<1> HIDE DEF all
<1>4. Recorded(Registry)'
  <2>1. Registry' = all
    BY <1>1, <1>3 DEF Recorded, Registry
  <2> QED
    BY <1>3, <2>1
<1> QED
  BY <1>1, <1>4 DEF Typed

(* The two messages of a follow-up.                                        *)
Asking == [Message("assistant", <<>>) EXCEPT !.calls = <<Call(NoID, HostedName("web_search"))>>]

Giving == ToolMessage(Place, Call(NoID, HostedName("web_search")).id, HostedName("web_search"))

LEMMA FollowUpParts ==
  /\ Asking.role = "assistant" /\ Asking.calls = <<Call(NoID, HostedName("web_search"))>>
  /\ Ordinary(Asking) /\ Ordinary(Giving) /\ WellTold(<<Asking, Giving>>)
  /\ DOMAIN <<Asking, Giving>> = {1, 2} /\ <<Asking, Giving>>[1] = Asking /\ <<Asking, Giving>>[2] = Giving
<1>1. Asking.role = "assistant" /\ Asking.calls = <<Call(NoID, HostedName("web_search"))>>
  BY DEF Asking, Message
<1>2. Ordinary(Asking) /\ Ordinary(Giving)
  BY <1>1, ToolMessageFields DEF Ordinary, Roles, Giving
<1>3. \A x, y : /\ <<x, y>> \in Seq({x, y}) /\ DOMAIN <<x, y>> = {1, 2}
                /\ <<x, y>>[1] = x /\ <<x, y>>[2] = y
  OBVIOUS
<1>4. WellTold(<<Asking, Giving>>)
  BY <1>2, <1>3 DEF WellTold, IsSequence
<1> QED
  BY <1>1, <1>2, <1>3, <1>4

LEMMA FollowUpTold ==
  ASSUME FollowUp
  PROVE  /\ messages' = messages \/ messages' = messages \o <<Asking, Giving>>
         /\ UNCHANGED <<request, names, sent, history, pending, images, rendered>>
BY DEF FollowUp, Asking, Giving

LEMMA FollowUpTyped ==
  ASSUME Typed, messages # <<>>, FollowUp
  PROVE  Typed' /\ messages' # <<>>
<1>1. UNCHANGED <<request, names, sent, history, pending, images, rendered>>
  BY FollowUpTold
<1>2. WellTold(messages') /\ messages' # <<>>
  <2>1. CASE messages' = messages
    BY <2>1 DEF Typed
  <2>2. CASE messages' = messages \o <<Asking, Giving>>
    <3> DEFINE both == <<Asking, Giving>>
    <3>1. WellTold(both) /\ DOMAIN both = {1, 2}
      BY FollowUpParts
    <3> HIDE DEF both
    <3>2. WellTold(messages') /\ DOMAIN messages' # {}
      <4>1. WellTold(messages \o both)
        BY <3>1, ToldJoined DEF Typed
      <4>2. /\ Len(messages) \in Nat /\ Len(both) \in Nat /\ DOMAIN both = 1 .. Len(both)
            /\ DOMAIN (messages \o both) = 1 .. Len(messages) + Len(both)
        BY <3>1, Joined DEF Typed, WellTold
      <4>3. Len(both) >= 1
        BY <3>1, <4>2
      <4>4. 1 \in 1 .. Len(messages) + Len(both)
        BY <4>2, <4>3
      <4> QED
        BY <2>2, <4>1, <4>2, <4>4 DEF both
    <3> QED
      BY <3>2, NoneAndOne
  <2> QED
    BY <2>1, <2>2, FollowUpTold
<1> QED
  BY <1>1, <1>2 DEF Typed, Registry
-----------------------------------------------------------------------------
(* Every output is told to the upstream after the call it answers.         *)

LEMMA MadeLater ==
  ASSUME NEW one, NEW two, IsSequence(one), IsSequence(two), NEW id, NEW name
  PROVE  /\ MadeBefore(one, Len(one) + 1, id, name) => MadeBefore(one \o two, Len(one \o two) + 1, id, name)
         /\ MadeBefore(two, Len(two) + 1, id, name) => MadeBefore(one \o two, Len(one \o two) + 1, id, name)
<1> DEFINE both == one \o two
<1>1. /\ Len(one) \in Nat /\ Len(two) \in Nat /\ Len(both) = Len(one) + Len(two)
      /\ DOMAIN one = 1 .. Len(one) /\ DOMAIN two = 1 .. Len(two)
      /\ DOMAIN both = 1 .. Len(one) + Len(two)
      /\ \A i \in DOMAIN one : both[i] = one[i]
      /\ \A i \in DOMAIN two : both[Len(one) + i] = two[i]
  BY Joined
<1> HIDE DEF both
<1>2. ASSUME MadeBefore(one, Len(one) + 1, id, name) PROVE MadeBefore(both, Len(both) + 1, id, name)
  <2>1. PICK n \in DOMAIN one : one[n].role = "assistant" /\ Made(one[n].calls, id, name)
    BY <1>2 DEF MadeBefore
  <2>2. n \in DOMAIN both /\ n < Len(both) + 1 /\ both[n] = one[n]
    BY <1>1
  <2> QED
    BY <2>1, <2>2 DEF MadeBefore
<1>3. ASSUME MadeBefore(two, Len(two) + 1, id, name) PROVE MadeBefore(both, Len(both) + 1, id, name)
  <2>1. PICK n \in DOMAIN two : two[n].role = "assistant" /\ Made(two[n].calls, id, name)
    BY <1>3 DEF MadeBefore
  <2>2. Len(one) + n \in DOMAIN both /\ Len(one) + n < Len(both) + 1 /\ both[Len(one) + n] = two[n]
    BY <1>1
  <2> QED
    BY <2>1, <2>2 DEF MadeBefore
<1> QED
  BY <1>2, <1>3 DEF both

LEMMA AnsweredJoined ==
  ASSUME NEW one, NEW two, IsSequence(one), IsSequence(two), AllAnswered(one),
         \A m \in DOMAIN two : Output(two[m]) =>
           \/ MadeBefore(one, Len(one) + 1, two[m].id, two[m].name)
           \/ MadeBefore(two, m, two[m].id, two[m].name)
  PROVE  AllAnswered(one \o two)
<1> DEFINE both == one \o two
<1>1. /\ Len(one) \in Nat /\ Len(two) \in Nat
      /\ DOMAIN one = 1 .. Len(one) /\ DOMAIN two = 1 .. Len(two)
      /\ DOMAIN both = 1 .. Len(one) + Len(two)
      /\ \A i \in DOMAIN one : both[i] = one[i]
      /\ \A i \in DOMAIN two : both[Len(one) + i] = two[i]
      /\ \A i \in DOMAIN both :
           \/ i \in DOMAIN one /\ both[i] = one[i]
           \/ i > Len(one) /\ i - Len(one) \in DOMAIN two /\ both[i] = two[i - Len(one)]
  BY Joined
<1> HIDE DEF both
<1>2. SUFFICES ASSUME NEW m \in DOMAIN both, Output(both[m])
               PROVE  MadeBefore(both, m, both[m].id, both[m].name)
  BY DEF AllAnswered, both
<1> DEFINE id == both[m].id
           name == both[m].name
<1>3. CASE m \in DOMAIN one /\ both[m] = one[m]
  <2>1. PICK n \in DOMAIN one : n < m /\ one[n].role = "assistant" /\ Made(one[n].calls, id, name)
    BY <1>2, <1>3 DEF AllAnswered, MadeBefore
  <2>2. n \in DOMAIN both /\ both[n] = one[n]
    BY <1>1
  <2> QED
    BY <2>1, <2>2 DEF MadeBefore
<1>4. CASE m > Len(one) /\ m - Len(one) \in DOMAIN two /\ both[m] = two[m - Len(one)]
  <2>1. \/ MadeBefore(one, Len(one) + 1, id, name)
        \/ MadeBefore(two, m - Len(one), id, name)
    BY <1>2, <1>4
  <2>2. CASE MadeBefore(one, Len(one) + 1, id, name)
    <3>1. PICK n \in DOMAIN one : one[n].role = "assistant" /\ Made(one[n].calls, id, name)
      BY <2>2 DEF MadeBefore
    <3>2. n \in DOMAIN both /\ n < m /\ both[n] = one[n]
      BY <1>1, <1>4
    <3> QED
      BY <3>1, <3>2 DEF MadeBefore
  <2>3. CASE MadeBefore(two, m - Len(one), id, name)
    <3>1. PICK n \in DOMAIN two : n < m - Len(one) /\ two[n].role = "assistant" /\ Made(two[n].calls, id, name)
      BY <2>3 DEF MadeBefore
    <3>2. Len(one) + n \in DOMAIN both /\ Len(one) + n < m /\ both[Len(one) + n] = two[n]
      BY <1>1, <1>4, <3>1
    <3> QED
      BY <3>1, <3>2 DEF MadeBefore
  <2> QED
    BY <2>1, <2>2, <2>3
<1> QED
  BY <1>1, <1>3, <1>4

(* A pending message with its results has the calls first.                 *)
LEMMA FlushMade ==
  ASSUME Typed, NEW id, NEW name, Made(pending.calls, id, name)
  PROVE  /\ Len(Flush(pending)) \in Nat
         /\ \A m \in Nat : m > 1 => MadeBefore(Flush(pending), m, id, name)
         /\ MadeBefore(Flush(pending), Len(Flush(pending)) + 1, id, name)
<1>1. pending # Nothing
  BY NothingWhole DEF Made
<1> DEFINE h == Head1(pending)
           so == Flush(pending)
<1>2. so = <<h>> \o pending.results /\ h.role = "assistant" /\ h.calls = pending.calls
  BY <1>1, FlushParts
<1> HIDE DEF h, so
<1>3. IsSequence(<<h>>) /\ Len(<<h>>) = 1 /\ DOMAIN <<h>> = {1} /\ <<h>>[1] = h /\ IsSequence(pending.results)
  BY NoneAndOne DEF Typed, WellTold
<1>4. 1 \in DOMAIN so /\ so[1] = h /\ Len(so) \in Nat /\ Len(so) >= 1
  <2> DEFINE one == <<h>>
             two == pending.results
  <2>0. IsSequence(one) /\ IsSequence(two)
    BY <1>3
  <2>1. Len(one) = 1 /\ DOMAIN one = {1} /\ one[1] = h /\ so = one \o two
    BY <1>2, <1>3
  <2> HIDE DEF one, two
  <2> DEFINE both == one \o two
  <2>2. /\ Len(two) \in Nat /\ Len(both) = Len(one) + Len(two) /\ DOMAIN both = 1 .. Len(one) + Len(two)
        /\ \A i \in DOMAIN one : both[i] = one[i]
    <3>1. /\ Len(one) \in Nat /\ Len(two) \in Nat /\ Len(both) = Len(one) + Len(two)
          /\ DOMAIN both = 1 .. Len(one) + Len(two)
          /\ \A i \in DOMAIN one : both[i] = one[i]
      BY <2>0, Joined
    <3> QED
      BY <3>1
  <2>3. so = both
    BY <2>1
  <2> HIDE DEF both
  <2>4. Len(both) \in Nat /\ Len(both) >= 1 /\ 1 \in DOMAIN both /\ both[1] = h
    BY <2>1, <2>2
  <2> QED
    BY <2>3, <2>4
<1>5. \A m : 1 < m => MadeBefore(so, m, id, name)
  BY <1>2, <1>4 DEF MadeBefore
<1>6. \A m \in Nat : m > 1 => MadeBefore(so, m, id, name)
  BY <1>5
<1>7. MadeBefore(so, Len(so) + 1, id, name)
  BY <1>4, <1>5
<1> QED
  BY <1>4, <1>6, <1>7 DEF so

LEMMA FlushAnswered ==
  ASSUME Typed, Paired
  PROVE  AllAnswered(Flush(pending))
<1> DEFINE so == Flush(pending)
<1>1. CASE pending = Nothing
  BY <1>1, FlushParts, NoneAndOne DEF AllAnswered
<1>2. CASE pending # Nothing
  <2> DEFINE one == <<Head1(pending)>>
             two == pending.results
  <2>1. so = one \o two
    BY <1>2, FlushParts
  <2>2. /\ IsSequence(one) /\ IsSequence(two) /\ Len(one) = 1 /\ DOMAIN one = {1}
        /\ one[1].role = "assistant" /\ one[1].calls = pending.calls
    BY FlushParts, NoneAndOne DEF Typed, WellTold
  <2>3. AllAnswered(one)
    BY <2>2 DEF AllAnswered, Output
  <2>4. \A m \in DOMAIN two : MadeBefore(one, Len(one) + 1, two[m].id, two[m].name)
    BY <2>2 DEF Paired, MadeBefore
  <2> HIDE DEF one, two
  <2>5. AllAnswered(one \o two)
    BY <2>2, <2>3, <2>4, AnsweredJoined
  <2> QED
    BY <2>1, <2>5
<1> QED
  BY <1>1, <1>2

(* Images are no outputs.                                                  *)
LEMMA ImagesAnswered ==
  ASSUME Typed, NEW told, IsSequence(told), AllAnswered(told)
  PROVE  AllAnswered(told \o images)
<1>1. IsSequence(images) /\ \A m \in DOMAIN images : ~Output(images[m])
  BY DEF Typed, WellTold, Output
<1> QED
  BY <1>1, AnsweredJoined

(* With the pending message behind them, all calls are told.               *)
LEMMA AllTold ==
  ASSUME Typed, Paired, Reading, NEW so, IsSequence(so),
         \A id, name : MadeBefore(messages, Len(messages) + 1, id, name) => MadeBefore(so, Len(so) + 1, id, name),
         AllAnswered(so)
  PROVE  LET mid == so \o Flush(pending)
         IN  /\ IsSequence(mid) /\ AllAnswered(mid)
             /\ \A id \in DOMAIN rendered \ {NoID} : MadeBefore(mid, Len(mid) + 1, id, rendered[id])
<1> DEFINE flushed == Flush(pending)
           mid == so \o flushed
<1>1. IsSequence(flushed)
  BY FlushParts DEF Typed, WellTold
<1>2. AllAnswered(flushed)
  BY FlushAnswered
<1>3. \A id, name : Made(pending.calls, id, name) => MadeBefore(flushed, Len(flushed) + 1, id, name)
  BY FlushMade
<1> HIDE DEF flushed
<1>4. IsSequence(mid)
  BY <1>1, Joined
<1>5. AllAnswered(mid)
  BY <1>1, <1>2, AnsweredJoined DEF AllAnswered
<1>6. ASSUME NEW id \in DOMAIN rendered \ {NoID}
      PROVE  MadeBefore(mid, Len(mid) + 1, id, rendered[id])
  <2>1. Made(pending.calls, id, rendered[id]) \/ MadeBefore(messages, Len(messages) + 1, id, rendered[id])
    BY DEF Paired
  <2>2. MadeBefore(flushed, Len(flushed) + 1, id, rendered[id]) \/ MadeBefore(so, Len(so) + 1, id, rendered[id])
    BY <1>3, <2>1
  <2> QED
    BY <1>1, <2>2, MadeLater
<1> QED
  BY <1>4, <1>5, <1>6 DEF flushed

LEMMA MadeAppended ==
  ASSUME NEW calls, IsSequence(calls), NEW call
  PROVE  /\ \A id, name : Made(calls, id, name) => Made(Append(calls, call), id, name)
         /\ Made(Append(calls, call), call.id, call.name)
<1> DEFINE more == Append(calls, call)
<1>1. /\ Len(calls) \in Nat /\ DOMAIN calls = 1 .. Len(calls) /\ DOMAIN more = 1 .. Len(calls) + 1
      /\ more[Len(calls) + 1] = call
      /\ \A i \in 1 .. Len(calls) : more[i] = calls[i]
  BY AppendedToAny
<1> HIDE DEF more
<1>2. Len(calls) + 1 \in DOMAIN more
  BY <1>1
<1>3. \A i \in DOMAIN calls : i \in DOMAIN more /\ more[i] = calls[i]
  BY <1>1
<1>4. Made(more, call.id, call.name)
  BY <1>1, <1>2 DEF Made
<1>5. \A id, name : Made(calls, id, name) => Made(more, id, name)
  BY <1>3 DEF Made
<1> QED
  BY <1>4, <1>5 DEF more

LEMMA CallFields ==
  ASSUME NEW id, NEW name
  PROVE  /\ id # NoID => Call(id, name).id = id
         /\ Call(id, name).name = name /\ Call(id, name).item = Place
BY DEF Call

(* The calls that are known are answerable: told or pending.               *)
Answerable(id, name) == Made(pending.calls, id, name) \/ MadeBefore(messages, Len(messages) + 1, id, name)

LEMMA ReadPaired ==
  ASSUME Typed, Paired, Reading, ReadItem
  PROVE  Paired'
<1>1. PICK item \in request.items : ReadsAs(item)
  BY ReadShape
<1>2. /\ IsSequence(messages) /\ IsSequence(images) /\ IsSequence(pending.calls) /\ IsSequence(pending.results)
      /\ AllAnswered(messages)
  BY DEF Typed, WellTold, Paired
<1>3. \A id \in DOMAIN rendered \ {NoID} : Answerable(id, rendered[id])
  BY DEF Paired, Answerable
<1>4. CASE KeepsOn(item)
  <2>1. AllAnswered(Said)
    BY <1>2, ImagesAnswered DEF Said
  <2>2. \A id, name : MadeBefore(messages, Len(messages) + 1, id, name)
                        => MadeBefore(messages', Len(messages') + 1, id, name)
    <3>1. messages' = messages \o images
      BY <1>4 DEF KeepsOn, Said
    <3>2. \A id, name : MadeBefore(messages, Len(messages) + 1, id, name)
                          => MadeBefore(messages \o images, Len(messages \o images) + 1, id, name)
      BY <1>2, MadeLater
    <3> QED
      BY <3>1, <3>2
  <2>3. \A call : Adds(call) =>
          /\ \A id, name : Made(pending.calls, id, name) => Made(pending'.calls, id, name)
          /\ Made(pending'.calls, call.id, call.name)
    BY <1>2, MadeAppended DEF Adds
  <2>4. CASE pending'.calls = pending.calls /\ pending'.results = pending.results /\ rendered' = rendered
    BY <1>3, <1>4, <2>1, <2>2, <2>4 DEF KeepsOn, Paired, Answerable
  <2>5. CASE \E id, name : /\ Adds(Call(id, name)) /\ pending'.results = pending.results
                           /\ rendered' = Put(rendered, id, name)
    <3>1. PICK id, name : /\ Adds(Call(id, name)) /\ pending'.results = pending.results
                          /\ rendered' = Put(rendered, id, name)
      BY <2>5
    <3>2. \A known \in DOMAIN rendered' \ {NoID} :
            \/ known \in DOMAIN rendered /\ rendered'[known] = rendered[known]
            \/ known = id /\ rendered'[known] = name
      BY <3>1 DEF Put
    <3>3. /\ \A i, n : Made(pending.calls, i, n) => Made(pending'.calls, i, n)
          /\ id # NoID => Made(pending'.calls, id, name)
      BY <2>3, <3>1, CallFields
    <3>4. ASSUME NEW known \in DOMAIN rendered' \ {NoID}
          PROVE  \/ Made(pending'.calls, known, rendered'[known])
                 \/ MadeBefore(messages', Len(messages') + 1, known, rendered'[known])
      <4>1. CASE known \in DOMAIN rendered /\ rendered'[known] = rendered[known]
        BY <1>3, <2>2, <3>3, <4>1 DEF Answerable
      <4>2. CASE known = id /\ rendered'[known] = name
        BY <3>3, <4>2
      <4> QED
        BY <3>2, <4>1, <4>2
    <3>5. \A r \in DOMAIN pending'.results :
            Made(pending'.calls, pending'.results[r].id, pending'.results[r].name)
      BY <3>1, <3>3 DEF Paired
    <3> QED
      BY <1>4, <2>1, <3>4, <3>5 DEF KeepsOn, Paired
  <2>6. CASE \E id, name : /\ Adds(Call(id, name)) /\ id # NoID
                           /\ pending'.results = Append(pending.results, ToolMessage(Place, id, name))
                           /\ rendered' = rendered /\ item.kind = "web_search"
    <3>1. PICK id, name : /\ Adds(Call(id, name)) /\ id # NoID
                          /\ pending'.results = Append(pending.results, ToolMessage(Place, id, name))
                          /\ rendered' = rendered
      BY <2>6
    <3> DEFINE new == ToolMessage(Place, id, name)
               results == pending.results
    <3>2. new.id = id /\ new.name = name
      BY ToolMessageFields
    <3>3. /\ \A i, n : Made(pending.calls, i, n) => Made(pending'.calls, i, n)
          /\ Made(pending'.calls, id, name)
      BY <2>3, <3>1, CallFields
    <3> HIDE DEF new
    <3>4. /\ Len(results) \in Nat /\ DOMAIN results = 1 .. Len(results)
          /\ DOMAIN pending'.results = 1 .. Len(results) + 1
          /\ pending'.results[Len(results) + 1] = new
          /\ \A i \in 1 .. Len(results) : pending'.results[i] = results[i]
      BY <1>2, <3>1, AppendedToAny DEF new
    <3>5. \A r \in DOMAIN pending'.results : r \in DOMAIN results \/ r = Len(results) + 1
      BY <3>4
    <3>6. \A r \in DOMAIN pending'.results :
            Made(pending'.calls, pending'.results[r].id, pending'.results[r].name)
      BY <3>2, <3>3, <3>4, <3>5 DEF Paired
    <3>7. ASSUME NEW known \in DOMAIN rendered' \ {NoID}
          PROVE  \/ Made(pending'.calls, known, rendered'[known])
                 \/ MadeBefore(messages', Len(messages') + 1, known, rendered'[known])
      BY <1>3, <2>2, <3>1, <3>3 DEF Answerable
    <3> QED
      BY <1>4, <2>1, <3>6, <3>7 DEF KeepsOn, Paired
  <2> QED
    BY <1>4, <2>4, <2>5, <2>6 DEF KeepsOn
<1>5. CASE Closes(item)
  <2>1. PICK so, own :
          /\ Own(own) /\ so \in {messages, Said}
          /\ messages' = so \o Flush(pending) \o own
    BY <1>5 DEF Closes
  <2>2. IsSequence(so) /\ AllAnswered(so)
    <3>1. IsSequence(messages \o images) /\ AllAnswered(messages \o images)
      BY <1>2, ImagesAnswered, Joined
    <3> QED
      BY <1>2, <2>1, <3>1 DEF Said
  <2>3. \A id, name : MadeBefore(messages, Len(messages) + 1, id, name) => MadeBefore(so, Len(so) + 1, id, name)
    <3>1. \A id, name : MadeBefore(messages, Len(messages) + 1, id, name)
                          => MadeBefore(messages \o images, Len(messages \o images) + 1, id, name)
      BY <1>2, MadeLater
    <3> QED
      BY <2>1, <3>1 DEF Said
  <2> DEFINE mid == so \o Flush(pending)
  <2>4. /\ IsSequence(mid) /\ AllAnswered(mid)
        /\ \A id \in DOMAIN rendered \ {NoID} : MadeBefore(mid, Len(mid) + 1, id, rendered[id])
    BY <2>2, <2>3, AllTold
  <2>5. messages' = mid \o own
    BY <2>1
  <2> HIDE DEF mid
  <2>6. IsSequence(own) /\ \A m \in DOMAIN own : OwnMessage(own[m])
    BY <2>1, NoneAndOne DEF Own
  <2>7. \A m \in DOMAIN own : Output(own[m]) => MadeBefore(mid, Len(mid) + 1, own[m].id, own[m].name)
    BY <2>4, <2>6 DEF OwnMessage
  <2>8. AllAnswered(mid \o own)
    BY <2>4, <2>6, <2>7, AnsweredJoined
  <2>9. \A id \in DOMAIN rendered \ {NoID} : MadeBefore(mid \o own, Len(mid \o own) + 1, id, rendered[id])
    BY <2>4, <2>6, MadeLater
  <2>10. /\ pending'.calls = <<>> /\ pending'.results = <<>> /\ rendered' = rendered
    BY <1>5 DEF Closes
  <2> QED
    BY <2>5, <2>8, <2>9, <2>10, NoneAndOne DEF Paired
<1> QED
  BY <1>1, <1>4, <1>5 DEF ReadsAs

LEMMA NothingPaired ==
  ASSUME pending = Nothing, AllAnswered(messages), ~Reading
  PROVE  Paired
BY NothingWhole, NoneAndOne DEF Paired

LEMMA EndPaired ==
  ASSUME Typed, Paired, Reading, EndInput, ~Reading'
  PROVE  Paired'
<1> DEFINE all == messages \o Flush(pending) \o images
           m == Message("user", <<>>)
<1>1. messages' = (IF all = <<>> THEN <<m>> ELSE all) /\ pending' = Nothing
  BY DEF EndInput
<1>2. IsSequence(messages) /\ AllAnswered(messages)
  BY DEF Typed, WellTold, Paired
<1>3. IsSequence(messages \o Flush(pending)) /\ AllAnswered(messages \o Flush(pending))
  BY <1>2, AllTold
<1>4. AllAnswered(all)
  BY <1>3, ImagesAnswered
<1>5. AllAnswered(<<m>>)
  <2>1. ~Output(m)
    BY MessageFields DEF Output
  <2> HIDE DEF m
  <2> QED
    BY <2>1, NoneAndOne DEF AllAnswered
<1> HIDE DEF all, m
<1>6. AllAnswered(messages')
  BY <1>1, <1>4, <1>5
<1> QED
  BY <1>1, <1>6, NothingWhole, NoneAndOne DEF Paired

LEMMA FollowUpPaired ==
  ASSUME Typed, Paired, pending = Nothing, ~Reading, FollowUp
  PROVE  Paired'
<1>1. pending' = Nothing /\ ~Reading'
  BY FollowUpTold DEF FollowUp, Reading
<1>2. AllAnswered(messages')
  <2>1. CASE messages' = messages
    BY <2>1 DEF Paired
  <2>2. CASE messages' = messages \o <<Asking, Giving>>
    <3> DEFINE both == <<Asking, Giving>>
    <3>1. /\ IsSequence(both) /\ DOMAIN both = {1, 2} /\ both[1].role = "assistant" /\ ~Output(both[1])
          /\ Made(both[1].calls, both[2].id, both[2].name)
      <4> DEFINE call == Call(NoID, HostedName("web_search"))
      <4>1. Asking.role = "assistant" /\ Asking.calls = <<call>>
        BY FollowUpParts
      <4>2. Giving.id = call.id /\ Giving.name = call.name
        BY ToolMessageFields, CallFields DEF Giving
      <4> HIDE DEF call
      <4>3. Made(Asking.calls, Giving.id, Giving.name)
        BY <4>1, <4>2, NoneAndOne DEF Made
      <4> QED
        BY <4>1, <4>3, FollowUpParts DEF Output, WellTold
    <3> HIDE DEF both
    <3>2. MadeBefore(both, 2, both[2].id, both[2].name)
      BY <3>1 DEF MadeBefore
    <3>3. \A m \in DOMAIN both : Output(both[m]) => MadeBefore(both, m, both[m].id, both[m].name)
      BY <3>1, <3>2
    <3>4. AllAnswered(messages \o both)
      BY <3>1, <3>3, AnsweredJoined DEF Typed, WellTold, Paired
    <3> QED
      BY <2>2, <3>4 DEF both
  <2> QED
    BY <2>1, <2>2, FollowUpTold
<1> QED
  BY <1>1, <1>2, NothingWhole, NoneAndOne DEF Paired
-----------------------------------------------------------------------------
(* In a turn nothing but tool messages comes between a call and its        *)
(* result.                                                                 *)

(* Messages that call only what is pending, and the items called, and give *)
(* only results of searches of the history, and of the items answered.     *)
Telling(told, called, answered) ==
  /\ IsSequence(told)
  /\ \A i \in DOMAIN told :
       /\ \A c \in DOMAIN told[i].calls :
            CalledPending(told[i].calls[c].item) \/ told[i].calls[c].item \in called
       /\ told[i].role = "tool" =>
            LET item == told[i].parts[1].item
            IN  item \in answered \/ (item \in DOMAIN history /\ history[item].kind = "web_search")

LEMMA TellingJoined ==
  ASSUME NEW one, NEW two, NEW called, NEW answered,
         Telling(one, called, answered), Telling(two, called, answered)
  PROVE  Telling(one \o two, called, answered)
<1> DEFINE both == one \o two
<1>1. IsSequence(one) /\ IsSequence(two)
  BY DEF Telling
<1>2. /\ IsSequence(both)
      /\ \A i \in DOMAIN both :
           \/ i \in DOMAIN one /\ both[i] = one[i]
           \/ i > Len(one) /\ i - Len(one) \in DOMAIN two /\ both[i] = two[i - Len(one)]
  BY <1>1, Joined
<1> HIDE DEF both
<1>3. Telling(both, called, answered)
  BY <1>2 DEF Telling
<1> QED
  BY <1>3 DEF both

LEMMA TellingMore ==
  ASSUME NEW told, NEW called, NEW answered, NEW more, Telling(told, called, answered), answered \subseteq more
  PROVE  Telling(told, called, more)
BY DEF Telling

LEMMA ImagesTelling ==
  ASSUME Typed
  PROVE  Telling(images, {}, {})
<1>1. \A i \in DOMAIN images : images[i].role = "user" /\ images[i].calls = <<>>
  BY DEF Typed
<1> QED
  BY <1>1, NoneAndOne DEF Typed, WellTold, Telling

LEMMA ResultsTelling ==
  ASSUME Typed, ItemsRead
  PROVE  Telling(pending.results, {}, {})
<1>1. \A i \in DOMAIN pending.results : pending.results[i].role = "tool" /\ pending.results[i].calls = <<>>
  BY DEF Typed
<1> QED
  BY <1>1, NoneAndOne DEF Typed, WellTold, Telling, ItemsRead

LEMMA FlushTelling ==
  ASSUME Typed, ItemsRead
  PROVE  Telling(Flush(pending), {}, {})
<1> DEFINE h == Head1(pending)
<1>1. h.role = "assistant" /\ h.calls = pending.calls
  BY FlushParts
<1>2. pending = Nothing => Flush(pending) = <<>>
  BY FlushParts
<1>3. pending # Nothing => Flush(pending) = <<h>> \o pending.results
  BY FlushParts
<1> HIDE DEF h
<1>4. Telling(<<h>>, {}, {})
  BY <1>1, NoneAndOne DEF Telling, CalledPending
<1>5. Telling(<<h>> \o pending.results, {}, {})
  BY <1>4, ResultsTelling, TellingJoined
<1>6. Telling(<<>>, {}, {})
  BY NoneAndOne DEF Telling
<1> QED
  BY <1>2, <1>3, <1>5, <1>6

LEMMA OwnTelling ==
  ASSUME NEW own, Own(own)
  PROVE  /\ Telling(own, {}, {Place})
         /\ Telling(own, {}, {}) \/ \E m : own = <<m>> /\ m.role = "tool"
         /\ \A i \in DOMAIN own : own[i].calls = <<>>
<1>1. CASE own = <<>>
  BY <1>1, NoneAndOne DEF Telling
<1>2. CASE \E m : own = <<m>> /\ OwnMessage(m)
  <2>1. PICK m : own = <<m>> /\ OwnMessage(m)
    BY <1>2
  <2>2. IsSequence(own) /\ DOMAIN own = {1} /\ own[1] = m
    BY <2>1, NoneAndOne
  <2>3. m.calls = <<>> /\ (m.role = "tool" => m.parts[1].item = Place)
    BY <2>1 DEF OwnMessage
  <2>4. \A i \in DOMAIN own : own[i] = m
    BY <2>2
  <2>5. \A i \in DOMAIN own : DOMAIN own[i].calls = {}
    BY <2>3, <2>4, NoneAndOne
  <2>6. Telling(own, {}, {Place})
    BY <2>2, <2>3, <2>4, <2>5 DEF Telling
  <2>7. m.role # "tool" => Telling(own, {}, {})
    BY <2>2, <2>3, <2>4, <2>5 DEF Telling
  <2> QED
    BY <2>1, <2>3, <2>4, <2>6, <2>7
<1> QED
  BY <1>1, <1>2 DEF Own

(* What was told stays told, and nothing is made of an item that was read  *)
(* before, except results of searches.                                     *)
Grows ==
  /\ \A m \in DOMAIN messages : m \in DOMAIN messages' /\ messages'[m] = messages[m]
  /\ \A k \in DOMAIN history : /\ k \in DOMAIN history' /\ history'[k] = history[k]
                               /\ Called(k)' => Called(k)
                               /\ history[k].kind # "web_search" =>
                                    ResultsOf(messages', k) \subseteq ResultsOf(messages, k)

LEMMA Grown ==
  ASSUME Typed, NEW more, NEW called, NEW answered, Telling(more, called, answered),
         messages' = messages \o more,
         called \intersect DOMAIN history = {}, answered \intersect DOMAIN history = {},
         \A k \in DOMAIN history : /\ k \in DOMAIN history' /\ history'[k] = history[k]
                                   /\ CalledPending(k)' => CalledPending(k)
  PROVE  Grows
<1>1. /\ Len(messages) \in Nat /\ DOMAIN messages = 1 .. Len(messages)
      /\ \A m \in DOMAIN messages : m \in DOMAIN messages' /\ messages'[m] = messages[m]
      /\ \A m \in DOMAIN messages' :
           \/ m \in DOMAIN messages /\ messages'[m] = messages[m]
           \/ m - Len(messages) \in DOMAIN more /\ messages'[m] = more[m - Len(messages)]
  <2> DEFINE both == messages \o more
  <2>1. /\ Len(messages) \in Nat /\ Len(more) \in Nat /\ DOMAIN messages = 1 .. Len(messages)
        /\ DOMAIN both = 1 .. Len(messages) + Len(more)
        /\ \A m \in DOMAIN messages : both[m] = messages[m]
        /\ \A m \in DOMAIN both :
             \/ m \in DOMAIN messages /\ both[m] = messages[m]
             \/ m > Len(messages) /\ m - Len(messages) \in DOMAIN more /\ both[m] = more[m - Len(messages)]
    BY Joined DEF Typed, WellTold, Telling
  <2>2. messages' = both
    OBVIOUS
  <2> HIDE DEF both
  <2>3. \A m \in DOMAIN messages : m \in DOMAIN both
    BY <2>1
  <2> QED
    BY <2>1, <2>2, <2>3
<1>2. ASSUME NEW k \in DOMAIN history, Called(k)' PROVE Called(k)
  <2>1. CASE CalledPending(k)'
    BY <2>1 DEF Called
  <2>2. CASE \E m \in DOMAIN messages' : \E c \in DOMAIN messages'[m].calls : messages'[m].calls[c].item = k
    <3>1. PICK m \in DOMAIN messages' : \E c \in DOMAIN messages'[m].calls : messages'[m].calls[c].item = k
      BY <2>2
    <3>2. CASE m \in DOMAIN messages /\ messages'[m] = messages[m]
      BY <3>1, <3>2 DEF Called, Calling, CallsOf
    <3>3. CASE m - Len(messages) \in DOMAIN more /\ messages'[m] = more[m - Len(messages)]
      BY <3>1, <3>3 DEF Telling, Called
    <3> QED
      BY <1>1, <3>2, <3>3
  <2> QED
    BY <1>2, <2>1, <2>2 DEF Called, Calling, CallsOf
<1>3. ASSUME NEW k \in DOMAIN history, history[k].kind # "web_search", NEW m \in ResultsOf(messages', k)
      PROVE  m \in ResultsOf(messages, k)
  <2>1. m \in DOMAIN messages' /\ messages'[m].role = "tool" /\ messages'[m].parts[1].item = k
    BY <1>3 DEF ResultsOf
  <2>2. CASE m \in DOMAIN messages /\ messages'[m] = messages[m]
    BY <2>1, <2>2 DEF ResultsOf
  <2>3. CASE m - Len(messages) \in DOMAIN more /\ messages'[m] = more[m - Len(messages)]
    BY <1>3, <2>1, <2>3 DEF Telling
  <2> QED
    BY <1>1, <2>1, <2>2, <2>3
<1> QED
  BY <1>1, <1>2, <1>3 DEF Grows

LEMMA TurnBefore ==
  ASSUME Typed, Grows, NEW p \in DOMAIN history, NEW last \in DOMAIN history
  PROVE  /\ CallRun(p, last)' => CallRun(p, last)
         /\ \A q \in DOMAIN history : Turn(p, last, q)' => Turn(p, last, q)
<1>1. Len(history) \in Nat /\ DOMAIN history = 1 .. Len(history)
  BY AppendedToAny DEF Typed
<1>2. ASSUME CallRun(p, last)' PROVE CallRun(p, last)
  <2>1. SUFFICES ASSUME NEW k \in p .. last
                 PROVE  \/ history[k].kind = "call" /\ Called(k)
                        \/ history[k].kind = "web_search"
    BY DEF CallRun
  <2>2. k \in DOMAIN history
    BY <1>1
  <2>3. (history'[k].kind = "call" /\ Called(k)') \/ history'[k].kind = "web_search"
    BY <1>2 DEF CallRun
  <2> QED
    BY <2>2, <2>3 DEF Grows
<1>3. ASSUME NEW q \in DOMAIN history, Turn(p, last, q)' PROVE Turn(p, last, q)
  <2>1. CallRun(p, last)
    BY <1>2, <1>3 DEF Turn
  <2>2. \A k \in last + 1 .. q : k \in DOMAIN history
    BY <1>1
  <2>3. \A k \in last + 1 .. q : history'[k] = history[k]
    BY <2>2 DEF Grows
  <2>4. ASSUME NEW k \in last + 1 .. q
        PROVE  history[k].kind \in {"output", "tool_search_output"} /\ Answering(k)
    <3>1. history'[k].kind \in {"output", "tool_search_output"} /\ ResultsOf(messages', k) # {}
      BY <1>3 DEF Turn, Answering
    <3>2. history[k].kind \in {"output", "tool_search_output"}
      BY <2>3, <3>1
    <3>3. ResultsOf(messages, k) # {}
      BY <2>2, <3>1, <3>2 DEF Grows
    <3> QED
      BY <3>2, <3>3 DEF Answering
  <2>5. ASSUME NEW k \in last + 1 .. q - 1, history[k].kind = "output", history[k].image,
               NEW l \in k .. q
        PROVE  history[l].kind = "output"
    <3>1. k \in last + 1 .. q /\ l \in last + 1 .. q
      BY <1>1
    <3>2. history'[l].kind = "output"
      BY <1>3, <2>3, <2>5, <3>1 DEF Turn
    <3> QED
      BY <2>3, <3>1, <3>2
  <2> QED
    BY <2>1, <2>4, <2>5 DEF Turn
<1> QED
  BY <1>2, <1>3

(* A turn of items that were read before stays together.                   *)
LEMMA StillTogether ==
  ASSUME Typed, Typed', Grows, TurnsTogether, NEW p \in DOMAIN history, NEW last \in DOMAIN history,
         NEW q \in DOMAIN history, p <= last, last < q, Turn(p, last, q)',
         NEW n \in CallsOf(messages', p), NEW m \in ResultsOf(messages', q), NEW between \in n + 1 .. m - 1
  PROVE  messages'[between].role = "tool"
<1>1. /\ Len(history) \in Nat /\ DOMAIN history = 1 .. Len(history)
      /\ Len(messages) \in Nat /\ DOMAIN messages = 1 .. Len(messages)
  BY AppendedToAny DEF Typed, WellTold
<1>2. Turn(p, last, q)
  BY TurnBefore
<1>3. q \in last + 1 .. q
  BY <1>1
<1>4. history[q].kind # "web_search"
  BY <1>2, <1>3 DEF Turn
<1>5. m \in ResultsOf(messages, q)
  BY <1>4 DEF Grows
<1>6. m \in DOMAIN messages
  BY <1>5 DEF ResultsOf
<1>7. n \in Nat
  <2>1. IsSequence(messages') /\ n \in DOMAIN messages'
    BY DEF Typed, WellTold, CallsOf
  <2>2. Len(messages') \in Nat /\ DOMAIN messages' = 1 .. Len(messages')
    BY <2>1, AppendedToAny
  <2> QED
    BY <2>1, <2>2
<1>8. n \in DOMAIN messages /\ between \in DOMAIN messages
  <2>1. between \in Int /\ n + 1 <= between /\ between <= m - 1 /\ m <= Len(messages) /\ m \in Int /\ n >= 1
    <3>1. n >= 1
      <4>1. n \in DOMAIN messages' /\ DOMAIN messages' = 1 .. Len(messages')
        BY AppendedToAny DEF Typed, WellTold, CallsOf
      <4> QED
        BY <1>7, <4>1
    <3> QED
      BY <1>1, <1>6, <1>7, <3>1
  <2> QED
    BY <1>1, <1>7, <2>1
<1>9. n \in CallsOf(messages, p)
  <2>1. messages'[n] = messages[n]
    BY <1>8 DEF Grows
  <2> QED
    BY <1>8, <2>1 DEF CallsOf
<1>10. messages[between].role = "tool"
  BY <1>2, <1>5, <1>9 DEF TurnsTogether
<1> QED
  BY <1>8, <1>10 DEF Grows

(* Reading, step by step.                                                  *)

LEMMA HistoryRead ==
  ASSUME Typed, NEW item, history' = Append(history, item)
  PROVE  /\ Len(history) \in Nat /\ DOMAIN history = 1 .. Len(history) /\ Place = Len(history) + 1
         /\ Len(history') = Place /\ DOMAIN history' = 1 .. Place /\ history'[Place] = item
         /\ \A k \in DOMAIN history : k \in DOMAIN history' /\ history'[k] = history[k]
         /\ \A k \in DOMAIN history' : k \in DOMAIN history \/ k = Place
         /\ Place \notin DOMAIN history /\ Place \in DOMAIN history'
<1>1. /\ Len(history) \in Nat /\ DOMAIN history = 1 .. Len(history)
      /\ Len(history') = Len(history) + 1 /\ DOMAIN history' = 1 .. Len(history) + 1
      /\ history'[Len(history) + 1] = item
      /\ \A k \in 1 .. Len(history) : history'[k] = history[k]
  BY AppendedToAny DEF Typed
<1> QED
  BY <1>1 DEF Place

(* What is told when an item is read, and which of it is new.              *)
LEMMA ToldOnReading ==
  ASSUME Typed, ItemsRead, NEW item, ReadsAs(item)
  PROVE  /\ KeepsOn(item) => messages' = messages \o images
         /\ Closes(item) =>
              \E so, own :
                /\ Own(own) /\ messages' = so \o Flush(pending) \o own
                /\ so = (IF item.kind = "output" THEN messages ELSE messages \o images)
                /\ IsSequence(Flush(pending) \o own) /\ messages' = so \o (Flush(pending) \o own)
                /\ Telling(own, {}, {}) => \E more : messages' = messages \o more /\ Telling(more, {}, {})
         /\ \E more : messages' = messages \o more /\ Telling(more, {}, {Place})
<1>1. KeepsOn(item) => messages' = messages \o images
  BY DEF KeepsOn, Said
<1>2. Telling(images, {}, {}) /\ Telling(images, {}, {Place})
  BY ImagesTelling, TellingMore
<1>3. ASSUME Closes(item)
      PROVE  \E so, own :
                /\ Own(own) /\ messages' = so \o Flush(pending) \o own
                /\ so = (IF item.kind = "output" THEN messages ELSE messages \o images)
                /\ IsSequence(Flush(pending) \o own) /\ messages' = so \o (Flush(pending) \o own)
                /\ Telling(own, {}, {}) => \E more : messages' = messages \o more /\ Telling(more, {}, {})
                /\ \E more : messages' = messages \o more /\ Telling(more, {}, {Place})
  <2>1. PICK so, own :
          /\ Own(own) /\ messages' = so \o Flush(pending) \o own
          /\ so = (IF item.kind = "output" THEN messages ELSE messages \o images)
    BY <1>3 DEF Closes, Said
  <2> DEFINE flushed == Flush(pending)
             rest == flushed \o own
  <2>2. IsSequence(messages) /\ IsSequence(images) /\ IsSequence(flushed) /\ IsSequence(own)
    BY <2>1, FlushTelling, OwnTelling DEF Typed, WellTold, Telling
  <2>3. Telling(flushed, {}, {}) /\ Telling(flushed, {}, {Place})
    BY FlushTelling, TellingMore
  <2>4. Telling(own, {}, {Place})
    BY <2>1, OwnTelling
  <2> HIDE DEF flushed
  <2>5. Telling(rest, {}, {Place}) /\ (Telling(own, {}, {}) => Telling(rest, {}, {}))
    BY <2>3, <2>4, TellingJoined
  <2>6. IsSequence(rest)
    BY <2>5 DEF Telling
  <2>7. messages' = so \o rest
    <3>1. IsSequence(so)
      BY <2>1, <2>2, Joined
    <3>2. (so \o flushed) \o own = so \o rest
      BY <2>2, <3>1, JoinedThree
    <3> QED
      BY <2>1, <3>2 DEF flushed
  <2>8. \E more : /\ messages' = messages \o more /\ Telling(more, {}, {Place})
                  /\ Telling(own, {}, {}) => Telling(more, {}, {})
    <3>1. CASE item.kind = "output"
      BY <2>1, <2>5, <2>7, <3>1
    <3>2. CASE item.kind # "output"
      <4> HIDE DEF rest
      <4> DEFINE more == images \o rest
      <4>1. Telling(more, {}, {Place}) /\ (Telling(own, {}, {}) => Telling(more, {}, {}))
        BY <1>2, <2>5, TellingJoined
      <4>2. (messages \o images) \o rest = messages \o more
        BY <2>2, <2>6, JoinedThree
      <4> QED
        BY <2>1, <2>7, <3>2, <4>1, <4>2
    <3> QED
      BY <3>1, <3>2
  <2> QED
    BY <2>1, <2>6, <2>7, <2>8 DEF flushed
<1> QED
  BY <1>1, <1>2, <1>3 DEF ReadsAs

LEMMA ReadPending ==
  ASSUME Typed, NEW item, ReadsAs(item)
  PROVE  /\ \A k : CalledPending(k)' => CalledPending(k) \/ k = Place
         /\ Closes(item) => \A k : ~CalledPending(k)'
<1>1. CASE Closes(item)
  <2>1. \A k : ~CalledPending(k)'
    BY <1>1, NoneAndOne DEF Closes, CalledPending
  <2> QED
    BY <2>1
<1>2. CASE KeepsOn(item) /\ ~Closes(item)
  <2>1. CASE pending'.calls = pending.calls
    BY <1>2, <2>1 DEF CalledPending
  <2>2. CASE \E id, name : Adds(Call(id, name))
    <3>1. PICK call : Adds(call) /\ call.item = Place
      BY <2>2, CallFields
    <3>2. /\ Len(pending.calls) \in Nat /\ DOMAIN pending.calls = 1 .. Len(pending.calls)
          /\ DOMAIN pending'.calls = 1 .. Len(pending.calls) + 1
          /\ pending'.calls[Len(pending.calls) + 1] = call
          /\ \A c \in 1 .. Len(pending.calls) : pending'.calls[c] = pending.calls[c]
      BY <3>1, AppendedToAny DEF Typed, Adds
    <3>3. \A c \in DOMAIN pending'.calls : c \in DOMAIN pending.calls \/ c = Len(pending.calls) + 1
      BY <3>2
    <3> QED
      BY <1>2, <3>1, <3>2, <3>3 DEF CalledPending
  <2> QED
    BY <1>2, <2>1, <2>2 DEF KeepsOn
<1> QED
  BY <1>1, <1>2 DEF ReadsAs

LEMMA ReadGrows ==
  ASSUME Typed, ItemsRead, NEW item, ReadsAs(item)
  PROVE  Grows
<1>1. PICK more : messages' = messages \o more /\ Telling(more, {}, {Place})
  BY ToldOnReading
<1>2. history' = Append(history, item)
  BY DEF ReadsAs
<1>3. \A k \in DOMAIN history : k \in DOMAIN history' /\ history'[k] = history[k]
  BY <1>2, HistoryRead
<1>4. Place \notin DOMAIN history
  BY <1>2, HistoryRead
<1>5. \A k \in DOMAIN history : CalledPending(k)' => CalledPending(k)
  BY <1>4, ReadPending
<1> QED
  BY <1>1, <1>3, <1>4, <1>5, Grown

(* Where a message was told before reading, and what it told.              *)
LEMMA ToldBefore ==
  ASSUME Typed, NEW more, NEW called, NEW answered, Telling(more, called, answered),
         messages' = messages \o more, NEW m \in DOMAIN messages'
  PROVE  \/ m \in DOMAIN messages /\ messages'[m] = messages[m]
         \/ /\ \A c \in DOMAIN messages'[m].calls :
                 CalledPending(messages'[m].calls[c].item) \/ messages'[m].calls[c].item \in called
            /\ messages'[m].role = "tool" =>
                 LET item == messages'[m].parts[1].item
                 IN  item \in answered \/ (item \in DOMAIN history /\ history[item].kind = "web_search")
<1> DEFINE both == messages \o more
<1>1. \A i \in DOMAIN both :
        \/ i \in DOMAIN messages /\ both[i] = messages[i]
        \/ i - Len(messages) \in DOMAIN more /\ both[i] = more[i - Len(messages)]
  BY Joined DEF Typed, WellTold, Telling
<1>2. messages' = both
  OBVIOUS
<1> HIDE DEF both
<1> QED
  BY <1>1, <1>2 DEF Telling

LEMMA ToldBeforeReading ==
  ASSUME Typed, ItemsRead, NEW item, ReadsAs(item), NEW m \in DOMAIN messages'
  PROVE  \/ m \in DOMAIN messages /\ messages'[m] = messages[m]
         \/ /\ \A c \in DOMAIN messages'[m].calls : CalledPending(messages'[m].calls[c].item)
            /\ messages'[m].role = "tool" => messages'[m].parts[1].item \in {Place} \union DOMAIN history
<1>1. PICK more : messages' = messages \o more /\ Telling(more, {}, {Place})
  BY ToldOnReading
<1> DEFINE called == {}
           answered == {Place}
<1>2. Telling(more, called, answered) /\ called = {} /\ answered = {Place}
  BY <1>1
<1> HIDE DEF called, answered
<1>3. \/ m \in DOMAIN messages /\ messages'[m] = messages[m]
      \/ /\ \A c \in DOMAIN messages'[m].calls :
              CalledPending(messages'[m].calls[c].item) \/ messages'[m].calls[c].item \in called
         /\ messages'[m].role = "tool" =>
              LET k == messages'[m].parts[1].item
              IN  k \in answered \/ (k \in DOMAIN history /\ history[k].kind = "web_search")
  BY <1>1, <1>2, ToldBefore
<1> QED
  BY <1>2, <1>3

LEMMA ReadItemsRead ==
  ASSUME Typed, ItemsRead, NEW item, ReadsAs(item)
  PROVE  ItemsRead'
<1>1. history' = Append(history, item)
  BY DEF ReadsAs
<1>2. /\ \A k \in DOMAIN history : k \in DOMAIN history' /\ history'[k] = history[k]
      /\ Place \in DOMAIN history' /\ history'[Place] = item
  BY <1>1, HistoryRead
<1>4. ASSUME NEW k, Called(k)' PROVE k \in DOMAIN history'
  <2>1. CASE CalledPending(k)'
    <3>1. CalledPending(k) \/ k = Place
      BY <2>1, ReadPending
    <3> QED
      BY <1>2, <3>1 DEF ItemsRead, Called
  <2>2. CASE \E m \in DOMAIN messages' : \E c \in DOMAIN messages'[m].calls : messages'[m].calls[c].item = k
    <3>1. PICK m \in DOMAIN messages' : \E c \in DOMAIN messages'[m].calls : messages'[m].calls[c].item = k
      BY <2>2
    <3>4. \/ m \in DOMAIN messages /\ messages'[m] = messages[m]
          \/ \A c \in DOMAIN messages'[m].calls : CalledPending(messages'[m].calls[c].item)
      BY ToldBeforeReading
    <3>2. CASE m \in DOMAIN messages /\ messages'[m] = messages[m]
      <4>1. Called(k)
        BY <3>1, <3>2 DEF Called, Calling, CallsOf
      <4> QED
        BY <1>2, <4>1 DEF ItemsRead
    <3>3. CASE CalledPending(k)
      <4>1. Called(k)
        BY <3>3 DEF Called
      <4> QED
        BY <1>2, <4>1 DEF ItemsRead
    <3> QED
      BY <3>1, <3>2, <3>3, <3>4
  <2> QED
    BY <1>4, <2>1, <2>2 DEF Called, Calling, CallsOf
<1>5. ASSUME NEW m \in DOMAIN messages', messages'[m].role = "tool"
      PROVE  messages'[m].parts[1].item \in DOMAIN history'
  <2>1. CASE m \in DOMAIN messages /\ messages'[m] = messages[m]
    BY <1>2, <1>5, <2>1 DEF ItemsRead
  <2>2. CASE messages'[m].parts[1].item \in {Place} \union DOMAIN history
    BY <1>2, <2>2
  <2> QED
    BY <1>5, <2>1, <2>2, ToldBeforeReading
<1>6. ASSUME NEW r \in DOMAIN pending'.results
      PROVE  LET k == pending'.results[r].parts[1].item
             IN  k \in DOMAIN history' /\ history'[k].kind = "web_search"
  <2>1. CASE Closes(item)
    BY <1>6, <2>1, NoneAndOne DEF Closes
  <2>2. CASE pending'.results = pending.results
    BY <1>2, <1>6, <2>2 DEF ItemsRead
  <2>3. CASE \E id, name : /\ pending'.results = Append(pending.results, ToolMessage(Place, id, name))
                           /\ item.kind = "web_search"
    <3>1. PICK new : pending'.results = Append(pending.results, new) /\ new.parts[1].item = Place
      BY <2>3, ToolMessageFields
    <3> DEFINE results == pending.results
    <3>2. /\ Len(results) \in Nat /\ DOMAIN results = 1 .. Len(results)
          /\ DOMAIN pending'.results = 1 .. Len(results) + 1
          /\ pending'.results[Len(results) + 1] = new
          /\ \A i \in 1 .. Len(results) : pending'.results[i] = results[i]
      BY <3>1, AppendedToAny DEF Typed, WellTold
    <3>3. r \in DOMAIN results \/ r = Len(results) + 1
      BY <1>6, <3>2
    <3> QED
      BY <1>2, <2>3, <3>1, <3>2, <3>3 DEF ItemsRead
  <2> QED
    BY <2>1, <2>2, <2>3 DEF ReadsAs, KeepsOn
<1> QED
  BY <1>4, <1>5, <1>6 DEF ItemsRead

LEMMA ReadImagesLast ==
  ASSUME Typed, ImagesLast, NEW item, ReadsAs(item)
  PROVE  ImagesLast'
<1>1. history' = Append(history, item)
  BY DEF ReadsAs
<1>2. /\ Len(history) \in Nat /\ DOMAIN history = 1 .. Len(history) /\ Place = Len(history) + 1
      /\ Len(history') = Place /\ DOMAIN history' = 1 .. Place /\ history'[Place] = item
      /\ \A k \in DOMAIN history : k \in DOMAIN history' /\ history'[k] = history[k]
  BY <1>1, HistoryRead
<1>3. CASE images' = <<>>
  BY <1>3 DEF ImagesLast
<1>4. CASE item.kind = "output" /\ item.image
  <2>1. \A l \in Place .. Len(history') : l = Place
    BY <1>2
  <2>2. Place \in DOMAIN history'
    BY <1>2
  <2> QED
    BY <1>2, <1>4, <2>1, <2>2 DEF ImagesLast
<1>5. CASE item.kind = "output" /\ images' = images /\ images # <<>>
  <2>1. PICK k \in DOMAIN history : /\ history[k].kind = "output" /\ history[k].image
                                    /\ \A l \in k .. Len(history) : history[l].kind = "output"
    BY <1>5 DEF ImagesLast
  <2>2. \A l \in k .. Len(history') : l = Place \/ (l \in k .. Len(history) /\ l \in DOMAIN history)
    BY <1>2
  <2>3. \A l \in k .. Len(history') : history'[l].kind = "output"
    BY <1>2, <1>5, <2>1, <2>2
  <2> QED
    BY <1>2, <2>1, <2>3 DEF ImagesLast
<1> QED
  BY <1>3, <1>4, <1>5 DEF ReadsAs, KeepsOn, Closes

(* As long as only calls came, none of them was told.                      *)
LEMMA ReadCallsPending ==
  ASSUME Typed, ItemsRead, CallsPending, NEW item, ReadsAs(item)
  PROVE  CallsPending'
<1>1. history' = Append(history, item)
  BY DEF ReadsAs
<1>2. /\ Len(history) \in Nat /\ DOMAIN history = 1 .. Len(history) /\ Place = Len(history) + 1
      /\ Len(history') = Place /\ DOMAIN history' = 1 .. Place /\ history'[Place] = item
      /\ \A k \in DOMAIN history' : k \in DOMAIN history \/ k = Place
      /\ Place \notin DOMAIN history
  BY <1>1, HistoryRead
<1> SUFFICES ASSUME NEW p \in DOMAIN history', CallRun(p, Len(history))'
             PROVE  CallsOf(messages', p) = {}
  BY DEF CallsPending
<1> PICK here : here = Place
  OBVIOUS
<1>3. (item.kind = "call" /\ Called(here)') \/ item.kind = "web_search"
  <2>1. here \in p .. Len(history') /\ history'[here] = item
    BY <1>2
  <2> QED
    BY <1>2, <2>1 DEF CallRun
<1>4. CASE Closes(item)
  <2>1. Called(here)'
    BY <1>3, <1>4 DEF Closes
  <2>2. ~CalledPending(here)'
    BY <1>4, ReadPending
  <2>5. PICK m \in DOMAIN messages' : \E c \in DOMAIN messages'[m].calls : messages'[m].calls[c].item = here
    BY <2>1, <2>2 DEF Called, Calling, CallsOf
  <2>8. \/ m \in DOMAIN messages /\ messages'[m] = messages[m]
        \/ \A c \in DOMAIN messages'[m].calls : CalledPending(messages'[m].calls[c].item)
    BY ToldBeforeReading
  <2>6. (m \in DOMAIN messages /\ messages'[m] = messages[m]) \/ CalledPending(here)
    BY <2>5, <2>8
  <2>7. Called(here)
    BY <2>5, <2>6 DEF Called, Calling, CallsOf
  <2> QED
    BY <1>2, <2>7 DEF ItemsRead
<1>5. CASE KeepsOn(item)
  <2>1. messages' = messages \o images /\ IsSequence(messages) /\ IsSequence(images)
    BY <1>5, ToldOnReading DEF Typed, WellTold
  <2>2. CallsOf(messages', p) \subseteq CallsOf(messages, p)
    <3> DEFINE both == messages \o images
    <3>1. \A i \in DOMAIN both :
            \/ i \in DOMAIN messages /\ both[i] = messages[i]
            \/ i - Len(messages) \in DOMAIN images /\ both[i] = images[i - Len(messages)]
      BY <2>1, Joined
    <3>2. messages' = both
      BY <2>1
    <3> HIDE DEF both
    <3>3. \A i \in DOMAIN images : DOMAIN images[i].calls = {}
      BY NoneAndOne DEF Typed
    <3> QED
      BY <3>1, <3>2, <3>3 DEF CallsOf
  <2>3. CASE p = Place
    <3>1. ~Called(Place)
      BY <1>2 DEF ItemsRead
    <3> QED
      BY <2>2, <2>3, <3>1 DEF Called, Calling
  <2>4. CASE p \in DOMAIN history
    <3>1. CallRun(p, Len(history))
      <4>1. Grows /\ Len(history) \in DOMAIN history
        BY <1>2, <2>4, ReadGrows
      <4> DEFINE last == Len(history)
      <4>2. \A k \in p .. last : k \in p .. Len(history')
        BY <1>2
      <4>3. \A k \in p .. last : (history'[k].kind = "call" /\ Called(k)') \/ history'[k].kind = "web_search"
        BY <4>2 DEF CallRun
      <4>4. \A k \in p .. last : k \in DOMAIN history
        BY <1>2, <2>4
      <4> QED
        BY <4>1, <4>3, <4>4 DEF CallRun, Grows
    <3> QED
      BY <2>2, <2>4, <3>1 DEF CallsPending
  <2> QED
    BY <1>2, <2>3, <2>4
<1> QED
  BY <1>4, <1>5 DEF ReadsAs

(* Behind the calls of the pending message come only tool messages.        *)
LEMMA ResultsBehind ==
  ASSUME Typed, NEW own, Own(own), NEW m, own = <<m>>, m.role = "tool"
  PROVE  LET rest == Flush(pending) \o own
         IN  \A i \in DOMAIN rest : i > 1 => rest[i].role = "tool"
<1>1. IsSequence(own) /\ DOMAIN own = {1} /\ own[1] = m
  BY NoneAndOne
<1>2. CASE pending = Nothing
  <2>1. Flush(pending) \o own = own
    BY <1>1, <1>2, FlushParts, NoneAndOne
  <2> QED
    BY <1>1, <2>1
<1>3. CASE pending # Nothing
  <2> DEFINE first == <<Head1(pending)>>
             results == pending.results
             front == first \o results
             rest == front \o own
  <2>1. Flush(pending) = front
    BY <1>3, FlushParts
  <2>2. IsSequence(first) /\ Len(first) = 1 /\ DOMAIN first = {1}
    BY NoneAndOne
  <2>3. IsSequence(results) /\ \A i \in DOMAIN results : results[i].role = "tool"
    BY DEF Typed, WellTold
  <2> HIDE DEF first, results
  <2>4. /\ IsSequence(front)
        /\ \A i \in DOMAIN front :
             \/ i \in DOMAIN first
             \/ i - Len(first) \in DOMAIN results /\ front[i] = results[i - Len(first)]
    BY <2>2, <2>3, Joined
  <2>5. \A i \in DOMAIN front : i > 1 => front[i].role = "tool"
    BY <2>2, <2>3, <2>4
  <2> HIDE DEF front
  <2>6. \A i \in DOMAIN rest :
          \/ i \in DOMAIN front /\ rest[i] = front[i]
          \/ i - Len(front) \in DOMAIN own /\ rest[i] = own[i - Len(front)]
    BY <1>1, <2>4, Joined
  <2>7. \A i \in DOMAIN rest : i > 1 => rest[i].role = "tool"
    BY <1>1, <2>5, <2>6
  <2> QED
    BY <2>1, <2>7
<1> QED
  BY <1>2, <1>3

LEMMA NoNewResult ==
  ASSUME Typed, NEW more, Telling(more, {}, {}), messages' = messages \o more, NEW m \in DOMAIN messages',
         ~(m \in DOMAIN messages /\ messages'[m] = messages[m]), messages'[m].role = "tool"
  PROVE  messages'[m].parts[1].item \in DOMAIN history
<1> DEFINE both == messages \o more
<1>1. \A i \in DOMAIN both :
        \/ i \in DOMAIN messages /\ both[i] = messages[i]
        \/ i - Len(messages) \in DOMAIN more /\ both[i] = more[i - Len(messages)]
  BY Joined DEF Typed, WellTold, Telling
<1>2. messages' = both
  OBVIOUS
<1> HIDE DEF both
<1> QED
  BY <1>1, <1>2 DEF Telling

(* What comes behind the calls of a turn, whose outputs end with the item  *)
(* that is read.                                                           *)
LEMMA ReadOutputsLast ==
  ASSUME Typed, ItemsRead, ImagesLast, CallsPending, OutputsLast, NEW item, ReadsAs(item)
  PROVE  OutputsLast'
<1>1. history' = Append(history, item)
  BY DEF ReadsAs
<1> PICK here : here = Place
  OBVIOUS
<1>2. /\ Len(history) \in Nat /\ DOMAIN history = 1 .. Len(history) /\ here = Len(history) + 1
      /\ Len(history') = here /\ DOMAIN history' = 1 .. here /\ history'[here] = item
      /\ \A k \in DOMAIN history : k \in DOMAIN history' /\ history'[k] = history[k]
      /\ here \notin DOMAIN history
  BY <1>1, HistoryRead
<1> SUFFICES ASSUME NEW p \in DOMAIN history', NEW last \in DOMAIN history',
                    p <= last, last < Len(history'), Turn(p, last, Len(history))'
             PROVE  /\ pending' = Nothing
                    /\ \A n \in CallsOf(messages', p), m \in DOMAIN messages' :
                         n < m => messages'[m].role = "tool"
  BY DEF OutputsLast
<1>3. p \in DOMAIN history /\ last \in DOMAIN history /\ Len(history) \in DOMAIN history
  BY <1>2
<1>4. Turn(p, last, here)'
  BY <1>2 DEF Turn
<1>5. item.kind \in {"output", "tool_search_output"} /\ ResultsOf(messages', here) # {}
  <2>1. here \in last + 1 .. here
    BY <1>2, <1>3
  <2> QED
    BY <1>2, <1>4, <2>1 DEF Turn, Answering
<1>6. PICK answer \in DOMAIN messages' : messages'[answer].role = "tool" /\ messages'[answer].parts[1].item = here
  BY <1>5 DEF ResultsOf
<1>7. ~(answer \in DOMAIN messages /\ messages'[answer] = messages[answer])
  BY <1>2, <1>6 DEF ItemsRead
<1>8. ~\E more : messages' = messages \o more /\ Telling(more, {}, {})
  <2> SUFFICES ASSUME NEW more, messages' = messages \o more, Telling(more, {}, {}) PROVE FALSE
    OBVIOUS
  <2>1. messages'[answer].parts[1].item \in DOMAIN history
    BY <1>6, <1>7, NoNewResult
  <2> QED
    BY <1>2, <1>6, <2>1
<1>9. ~KeepsOn(item)
  BY <1>8, ToldOnReading, ImagesTelling
<1>10. Closes(item)
  BY <1>9 DEF ReadsAs
<1>11. PICK so, own :
         /\ Own(own) /\ messages' = so \o Flush(pending) \o own
         /\ so = (IF item.kind = "output" THEN messages ELSE messages \o images)
         /\ IsSequence(Flush(pending) \o own) /\ messages' = so \o (Flush(pending) \o own)
         /\ Telling(own, {}, {}) => \E more : messages' = messages \o more /\ Telling(more, {}, {})
  BY <1>10, ToldOnReading
<1>12. PICK reply : own = <<reply>> /\ reply.role = "tool"
  BY <1>8, <1>11, OwnTelling
<1>13. pending' = Nothing
  BY <1>5, <1>10 DEF Closes
<1> SUFFICES ASSUME NEW n \in CallsOf(messages', p), NEW m \in DOMAIN messages', n < m
             PROVE  messages'[m].role = "tool"
  BY <1>13
<1>14. n \in DOMAIN messages' /\ \E c \in DOMAIN messages'[n].calls : messages'[n].calls[c].item = p
  BY DEF CallsOf
<1>15. IsSequence(messages) /\ IsSequence(images) /\ IsSequence(so)
  BY <1>11, Joined DEF Typed, WellTold
<1>16. ASSUME NEW i \in DOMAIN so
       PROVE  (i \in DOMAIN messages /\ so[i] = messages[i]) \/ DOMAIN so[i].calls = {}
  <2>1. CASE so = messages
    BY <2>1
  <2>2. CASE so = messages \o images
    <3> DEFINE both == messages \o images
    <3>1. \A j \in DOMAIN both :
            \/ j \in DOMAIN messages /\ both[j] = messages[j]
            \/ j - Len(messages) \in DOMAIN images /\ both[j] = images[j - Len(messages)]
      BY <1>15, Joined
    <3>2. so = both
      BY <2>2
    <3> HIDE DEF both
    <3>3. \A j \in DOMAIN images : DOMAIN images[j].calls = {}
      BY NoneAndOne DEF Typed
    <3> QED
      BY <3>1, <3>2, <3>3
  <2> QED
    BY <1>11, <2>1, <2>2
<1>17. CASE last = Len(history)
  <2> DEFINE rest == Flush(pending) \o own
  <2>1. IsSequence(rest) /\ messages' = so \o rest
    BY <1>11
  <2>2. \A i \in DOMAIN rest : i > 1 => rest[i].role = "tool"
    BY <1>11, <1>12, ResultsBehind
  <2> HIDE DEF rest
  <2> DEFINE both == so \o rest
  <2>3. /\ Len(so) \in Nat /\ Len(rest) \in Nat /\ DOMAIN both = 1 .. Len(so) + Len(rest)
        /\ \A i \in DOMAIN both :
             \/ i \in DOMAIN so /\ both[i] = so[i]
             \/ i > Len(so) /\ i - Len(so) \in DOMAIN rest /\ both[i] = rest[i - Len(so)]
        /\ DOMAIN so = 1 .. Len(so)
    BY <1>15, <2>1, Joined
  <2>4. both = messages'
    BY <2>1
  <2> HIDE DEF both
  <2>5. CallsOf(messages, p) = {}
    <3>1. CallRun(p, last)
      BY <1>3, <1>4, ReadGrows, TurnBefore DEF Turn
    <3> QED
      BY <1>3, <1>17, <3>1 DEF CallsPending
  <2>6. ~(n \in DOMAIN so /\ both[n] = so[n])
    BY <1>14, <1>16, <2>4, <2>5 DEF CallsOf
  <2>7. n > Len(so)
    BY <1>14, <2>3, <2>4, <2>6
  <2>8. m \notin DOMAIN so /\ m - Len(so) > 1
    BY <1>14, <2>3, <2>4, <2>7
  <2> QED
    BY <2>2, <2>3, <2>4, <2>8
<1>18. CASE last # Len(history)
  <2>1. last < Len(history)
    BY <1>2, <1>3, <1>18
  <2>2. Turn(p, last, Len(history))
    <3> PICK end : end = Len(history)
      OBVIOUS
    <3>1. \A k \in last + 1 .. end : k \in last + 1 .. here
      BY <1>2
    <3>2. \A k \in last + 1 .. end - 1 : k \in last + 1 .. here - 1
      BY <1>2
    <3>3. \A k \in last + 1 .. end - 1 : k .. end \subseteq k .. here
      BY <1>2
    <3>4. Turn(p, last, end)'
      BY <1>4, <3>1, <3>2, <3>3 DEF Turn
    <3> QED
      BY <1>3, <3>4, ReadGrows, TurnBefore
  <2>3. /\ pending = Nothing
        /\ \A i \in CallsOf(messages, p), j \in DOMAIN messages : i < j => messages[j].role = "tool"
    BY <1>3, <2>1, <2>2 DEF OutputsLast
  <2>4. so = messages
    <3>1. CASE item.kind = "output"
      BY <1>11, <3>1
    <3>2. CASE item.kind # "output"
      <4>1. images = <<>>
        <5> SUFFICES ASSUME images # <<>> PROVE FALSE
          OBVIOUS
        <5>1. PICK k \in DOMAIN history : /\ history[k].kind = "output" /\ history[k].image
                                          /\ \A l \in k .. Len(history) : history[l].kind = "output"
          BY DEF ImagesLast
        <5>2. k > last
          <6>1. history[last].kind # "output"
            BY <1>2, <1>3, <2>2 DEF Turn, CallRun
          <6>2. ~(last \in k .. Len(history))
            BY <5>1, <6>1
          <6> QED
            BY <1>2, <1>3, <6>2
        <5>3. k \in last + 1 .. here - 1 /\ here \in k .. here
          BY <1>2, <1>3, <5>2
        <5>4. history'[k].kind = "output" /\ history'[k].image
          BY <1>2, <5>1
        <5>5. history'[here].kind = "output"
          BY <1>4, <5>3, <5>4 DEF Turn
        <5> QED
          BY <1>2, <3>2, <5>5
      <4> QED
        BY <1>11, <1>15, <3>2, <4>1, NoneAndOne
    <3> QED
      BY <3>1, <3>2
  <2>5. messages' = messages \o own
    BY <1>11, <1>12, <2>3, <2>4, FlushParts, NoneAndOne
  <2>6. IsSequence(own) /\ Len(own) = 1 /\ DOMAIN own = {1} /\ own[1] = reply
    BY <1>12, NoneAndOne
  <2>7. \A i \in DOMAIN own : DOMAIN own[i].calls = {}
    BY <1>11, OwnTelling, NoneAndOne
  <2> DEFINE both == messages \o own
  <2>8. /\ Len(messages) \in Nat
        /\ \A i \in DOMAIN both :
             \/ i \in DOMAIN messages /\ both[i] = messages[i]
             \/ i > Len(messages) /\ i - Len(messages) \in DOMAIN own /\ both[i] = own[i - Len(messages)]
    BY <1>15, <2>6, Joined
  <2>9. both = messages'
    BY <2>5
  <2> HIDE DEF both
  <2>10. n \in CallsOf(messages, p)
    BY <1>14, <2>7, <2>8, <2>9 DEF CallsOf
  <2>11. CASE m \in DOMAIN messages /\ both[m] = messages[m]
    BY <2>3, <2>9, <2>10, <2>11
  <2>12. CASE m - Len(messages) \in DOMAIN own /\ both[m] = own[m - Len(messages)]
    BY <1>12, <2>6, <2>9, <2>12
  <2> QED
    BY <2>8, <2>9, <2>11, <2>12
<1> QED
  BY <1>17, <1>18

LEMMA ReadTurning ==
  ASSUME Typed, Turning, Reading, ReadItem
  PROVE  Turning'
<1>1. PICK item \in request.items : ReadsAs(item)
  BY ReadShape
<1>2. history' = Append(history, item)
  BY <1>1 DEF ReadsAs
<1>3. ItemsRead /\ ImagesLast /\ CallsPending /\ OutputsLast /\ TurnsTogether
  BY DEF Turning
<1>4. ItemsRead' /\ ImagesLast' /\ CallsPending' /\ OutputsLast'
  BY <1>1, <1>3, ReadItemsRead, ReadImagesLast, ReadCallsPending, ReadOutputsLast
<1>5. Typed' /\ Grows
  BY <1>1, <1>3, ReadTyped, ReadGrows
<1> PICK here : here = Place
  OBVIOUS
<1>6. /\ Len(history) \in Nat /\ DOMAIN history = 1 .. Len(history) /\ here = Len(history) + 1
      /\ Len(history') = here /\ DOMAIN history' = 1 .. here
  BY <1>2, HistoryRead
<1>7. TurnsTogether'
  <2> SUFFICES ASSUME NEW p \in DOMAIN history', NEW last \in DOMAIN history', NEW q \in DOMAIN history',
                      p <= last, last < q, Turn(p, last, q)',
                      NEW n \in CallsOf(messages', p), NEW m \in ResultsOf(messages', q),
                      NEW between \in n + 1 .. m - 1
               PROVE  messages'[between].role = "tool"
    BY DEF TurnsTogether
  <2>1. CASE q = here
    <3>1. Turn(p, last, Len(history))'
      BY <1>6, <2>1
    <3>2. \A i \in CallsOf(messages', p), j \in DOMAIN messages' : i < j => messages'[j].role = "tool"
      BY <1>4, <1>6, <2>1, <3>1 DEF OutputsLast
    <3>3. Len(messages') \in Nat /\ DOMAIN messages' = 1 .. Len(messages')
      BY <1>5, AppendedToAny DEF Typed, WellTold
    <3>4. n \in DOMAIN messages' /\ m \in DOMAIN messages'
      BY DEF CallsOf, ResultsOf
    <3>5. between \in DOMAIN messages' /\ n < between
      BY <3>3, <3>4
    <3> QED
      BY <3>2, <3>5
  <2>2. CASE q # here
    <3>1. p \in DOMAIN history /\ last \in DOMAIN history /\ q \in DOMAIN history
      BY <1>6, <2>2
    <3> QED
      BY <1>3, <1>5, <3>1, StillTogether
  <2> QED
    BY <2>1, <2>2
<1> QED
  BY <1>4, <1>7 DEF Turning

(* After reading, whatever is told leaves the turns as they are.           *)
LEMMA GrownTurning ==
  ASSUME Typed, Typed', Grows, TurnsTogether, history' = history, ~Reading'
  PROVE  Turning'
<1>1. TurnsTogether'
  <2> SUFFICES ASSUME NEW p \in DOMAIN history, NEW last \in DOMAIN history, NEW q \in DOMAIN history,
                      p <= last, last < q, Turn(p, last, q)',
                      NEW n \in CallsOf(messages', p), NEW m \in ResultsOf(messages', q),
                      NEW between \in n + 1 .. m - 1
               PROVE  messages'[between].role = "tool"
    BY DEF TurnsTogether
  <2> QED
    BY StillTogether
<1> QED
  BY <1>1 DEF Turning

LEMMA EndTurning ==
  ASSUME Typed, Turning, Reading, EndInput, ~Reading'
  PROVE  Turning'
<1> DEFINE m == Message("user", <<>>)
           flushed == Flush(pending)
<1>1. /\ messages' = (IF messages \o flushed \o images = <<>> THEN <<m>> ELSE messages \o flushed \o images)
      /\ pending' = Nothing /\ history' = history
  BY DEF EndInput
<1>2. ItemsRead /\ TurnsTogether
  BY DEF Turning
<1>3. m.role = "user" /\ m.calls = <<>>
  BY MessageFields
<1> HIDE DEF m
<1>4. IsSequence(messages) /\ IsSequence(images) /\ Telling(images, {}, {})
  BY ImagesTelling DEF Typed, WellTold
<1>5. Telling(flushed, {}, {}) /\ IsSequence(flushed)
  BY <1>2, FlushTelling DEF Telling
<1> HIDE DEF flushed
<1>6. Telling(flushed \o images, {}, {})
  BY <1>4, <1>5, TellingJoined
<1>7. messages \o flushed \o images = messages \o (flushed \o images)
  BY <1>4, <1>5, JoinedThree
<1>8. Telling(<<m>>, {}, {})
  <2>1. DOMAIN m.calls = {}
    BY <1>3, NoneAndOne
  <2> QED
    BY <1>3, <2>1, NoneAndOne DEF Telling
<1>9. \E more : messages' = messages \o more /\ Telling(more, {}, {})
  <2>1. CASE messages \o flushed \o images # <<>>
    BY <1>1, <1>6, <1>7, <2>1
  <2>2. CASE messages \o flushed \o images = <<>>
    <3> DEFINE rest == flushed \o images
    <3>1. IsSequence(rest) /\ messages \o rest = <<>>
      BY <1>6, <1>7, <2>2 DEF Telling
    <3> HIDE DEF rest
    <3> DEFINE both == messages \o rest
    <3>2. /\ Len(messages) \in Nat /\ Len(rest) \in Nat /\ Len(both) = Len(messages) + Len(rest)
          /\ DOMAIN messages = 1 .. Len(messages)
      BY <1>4, <3>1, Joined
    <3>3. Len(both) = 0
      BY <3>1, NoneAndOne
    <3> HIDE DEF both
    <3>4. Len(messages) = 0
      BY <3>2, <3>3
    <3>5. messages = <<>>
      BY <1>4, <3>4, EmptySeq DEF IsSequence
    <3>6. messages' = messages \o <<m>>
      BY <1>1, <2>2, <3>5, NoneAndOne
    <3> QED
      BY <1>8, <3>6
  <2> QED
    BY <2>1, <2>2
<1>10. \A k : ~CalledPending(k)'
  BY <1>1, NothingWhole, NoneAndOne DEF CalledPending
<1>11. Grows
  <2> DEFINE none == {}
  <2>1. PICK more : messages' = messages \o more /\ Telling(more, none, none)
    BY <1>9
  <2>2. none \intersect DOMAIN history = {}
    OBVIOUS
  <2> HIDE DEF none
  <2>3. \A k \in DOMAIN history : /\ k \in DOMAIN history' /\ history'[k] = history[k]
                                  /\ CalledPending(k)' => CalledPending(k)
    BY <1>1, <1>10
  <2> QED
    BY <2>1, <2>2, <2>3, Grown
<1> QED
  BY <1>1, <1>2, <1>11, EndTyped, GrownTurning

LEMMA FollowUpTurning ==
  ASSUME Typed, Turning, ~Reading, messages # <<>>, FollowUp
  PROVE  Turning'
<1>1. UNCHANGED <<request, names, sent, history, pending, images, rendered>> /\ ~Reading'
  BY FollowUpTold DEF FollowUp, Reading
<1>2. Typed'
  BY FollowUpTyped
<1>3. CASE messages' = messages
  BY <1>1, <1>3 DEF Turning, TurnsTogether, Turn, CallRun, Called, Calling, CalledPending, Answering,
                    CallsOf, ResultsOf
<1>4. CASE messages' = messages \o <<Asking, Giving>>
  <2> DEFINE both == <<Asking, Giving>>
             new == {Place}
  <2>1. new \intersect DOMAIN history = {}
    <3>1. Len(history) \in Nat /\ DOMAIN history = 1 .. Len(history)
      BY AppendedToAny DEF Typed
    <3> QED
      BY <3>1 DEF Place
  <2>2. Telling(both, new, new)
    <3>1. IsSequence(both) /\ \A i \in DOMAIN both : both[i] = Asking \/ both[i] = Giving
      BY FollowUpParts DEF WellTold
    <3>2. Asking.role # "tool" /\ \A c \in DOMAIN Asking.calls : Asking.calls[c].item = Place
      BY FollowUpParts, CallFields, NoneAndOne
    <3>3. DOMAIN Giving.calls = {} /\ Giving.parts[1].item = Place
      BY ToolMessageFields, NoneAndOne DEF Giving
    <3> HIDE DEF both
    <3> QED
      BY <3>1, <3>2, <3>3 DEF Telling
  <2> HIDE DEF new
  <2>3. \A k \in DOMAIN history : /\ k \in DOMAIN history' /\ history'[k] = history[k]
                                  /\ CalledPending(k)' => CalledPending(k)
    BY <1>1 DEF CalledPending
  <2>4. messages' = messages \o both
    BY <1>4
  <2> HIDE DEF both
  <2>5. Grows
    BY <2>1, <2>2, <2>3, <2>4, Grown
  <2> QED
    BY <1>1, <1>2, <2>5, GrownTurning DEF Turning
<1> QED
  BY <1>3, <1>4, FollowUpTold

LEMMA InitTurning ==
  ASSUME Init
  PROVE  Paired /\ Turning /\ Rest
<1>1. /\ history = <<>> /\ pending = Nothing /\ images = <<>> /\ rendered = <<>> /\ pc = "tools"
      /\ messages = <<Message("system", <<>>)>> \/ messages = <<>>
  BY DEF Init, InitTranslation
<1>2. DOMAIN history = {} /\ DOMAIN rendered = {} /\ DOMAIN pending.calls = {} /\ DOMAIN pending.results = {}
  BY <1>1, NothingWhole, NoneAndOne
<1>3. \A m \in DOMAIN messages : messages[m].role # "tool" /\ DOMAIN messages[m].calls = {}
  <2> DEFINE m == Message("system", <<>>)
  <2>1. m.role = "system" /\ m.calls = <<>>
    BY MessageFields
  <2> HIDE DEF m
  <2> QED
    BY <1>1, <2>1, NoneAndOne DEF m
<1>4. Paired
  BY <1>2, <1>3 DEF Paired, AllAnswered, Output
<1>5. ItemsRead
  BY <1>2, <1>3 DEF ItemsRead, Called, Calling, CalledPending, CallsOf
<1>6. TurnsTogether /\ ImagesLast /\ CallsPending /\ OutputsLast
  BY <1>1, <1>2 DEF TurnsTogether, ImagesLast, CallsPending, OutputsLast
<1> QED
  BY <1>1, <1>4, <1>5, <1>6 DEF Turning, Rest, Reading
-----------------------------------------------------------------------------
(* The invariant of the translation, and what follows from it.             *)

(* Types, calls before their results, turns in one piece, and nothing held *)
(* back once the input is read.                                            *)
Translated == Typed /\ Rest /\ Paired /\ Turning

LEMMA SameTranslated ==
  ASSUME Translated, UNCHANGED <<request, history, pending, images, rendered, messages>>,
         Reading' = Reading, Recorded(Registry)'
  PROVE  Translated'
<1>1. Typed'
  BY DEF Translated, Typed, WellTold, Ordinary
<1>2. Rest'
  BY DEF Translated, Rest
<1>3. Paired'
  BY DEF Translated, Paired, AllAnswered, MadeBefore, Made, Output
<1>4. TurnsTogether'
  BY DEF Translated, Turning, TurnsTogether, Turn, CallRun, Called, Calling, CalledPending, Answering,
         CallsOf, ResultsOf
<1>6. ItemsRead => ItemsRead'
  BY DEF ItemsRead, Called, Calling, CalledPending, CallsOf
<1>7. CallsPending => CallsPending'
  BY DEF CallsPending, CallRun, Called, Calling, CalledPending, CallsOf
<1>8. OutputsLast => OutputsLast'
  BY DEF OutputsLast, Turn, CallRun, Called, Calling, CalledPending, Answering, CallsOf, ResultsOf
<1>9. ImagesLast => ImagesLast'
  BY DEF ImagesLast
<1>5. Turning'
  BY <1>4, <1>6, <1>7, <1>8, <1>9 DEF Translated, Turning
<1> QED
  BY <1>1, <1>2, <1>3, <1>5 DEF Translated

LEMMA NextTranslated ==
  ASSUME Translated, [Next]_vars
  PROVE  Translated'
<1>1. Typed /\ Rest /\ Paired /\ Turning
  BY DEF Translated
<1>2. CASE Declare
  <2>1. Recorded(Registry)'
    BY <1>1, <1>2, DeclareTyped DEF Declare, Typed
  <2>2. Reading /\ Reading'
    BY <1>2 DEF Declare, Reading
  <2> QED
    BY <1>2, <2>1, <2>2, SameTranslated DEF Declare, TranslateTools
<1>3. CASE ReadNext
  <2>1. Reading /\ Reading' /\ ReadItem
    BY <1>3 DEF ReadNext, Reading
  <2>2. Typed' /\ Paired' /\ Turning'
    BY <1>1, <2>1, ReadTyped, ReadPaired, ReadTurning
  <2> QED
    BY <2>1, <2>2 DEF Translated, Rest
<1>4. CASE Post
  <2>1. Reading /\ ~Reading' /\ EndInput
    BY <1>4 DEF Post, Reading
  <2>2. Typed' /\ Paired' /\ Turning' /\ pending' = Nothing /\ images' = <<>> /\ messages' # <<>>
    BY <1>1, <2>1, EndTyped, EndPaired, EndTurning
  <2> QED
    BY <2>2 DEF Translated, Rest
<1>5. CASE FollowUp
  <2>1. ~Reading /\ ~Reading'
    BY <1>5 DEF FollowUp, Reading
  <2>2. pending = Nothing /\ images = <<>> /\ messages # <<>>
    BY <1>1, <2>1 DEF Rest
  <2>3. Typed' /\ Paired' /\ Turning' /\ messages' # <<>>
    BY <1>1, <1>5, <2>1, <2>2, FollowUpTyped, FollowUpPaired, FollowUpTurning
  <2> QED
    BY <1>5, <2>2, <2>3 DEF Translated, Rest, FollowUp
<1>6. CASE UNCHANGED translation /\ Reading' = Reading
  <2>1. Recorded(Registry)'
    BY <1>1, <1>6 DEF Typed, Registry, translation
  <2> QED
    BY <1>6, <2>1, SameTranslated DEF translation
<1>7. CASE UpstreamCalls \/ UpstreamEnds \/ Search \/ LateExcerpt \/ ClientGoes \/ Answered \/ UNCHANGED vars
  <2>1. UNCHANGED translation
    BY <1>7 DEF UpstreamCalls, UpstreamEnds, Search, LateExcerpt, ClientGoes, Answered, vars
  <2>2. Reading' = Reading
    BY <1>7 DEF UpstreamCalls, UpstreamEnds, Search, LateExcerpt, ClientGoes, Answered, vars, Reading
  <2> QED
    BY <1>6, <2>1, <2>2
<1> QED
  BY <1>2, <1>3, <1>4, <1>5, <1>7 DEF Next

(* What buildChatRequest has made of the items read so far.                *)
THEOREM TranslationInvariant == Spec => []Translated
<1>1. Init => Translated
  BY InitTyped, InitTurning DEF Translated
<1> QED
  BY <1>1, NextTranslated, PTL DEF Spec

(* What the upstream would get, compared to what it has been told.         *)
LEMMA OutgoingParts ==
  ASSUME Translated
  PROVE  /\ WellTold(Outgoing) /\ AllAnswered(Outgoing)
         /\ \E more : Outgoing = messages \o more /\ Telling(more, {}, {})
<1>1. Typed /\ Rest /\ Paired /\ Turning
  BY DEF Translated
<1> DEFINE flushed == Flush(pending)
<1>2. IsSequence(messages) /\ IsSequence(images) /\ WellTold(flushed) /\ IsSequence(flushed)
  BY <1>1, FlushParts DEF Typed, WellTold
<1>3. CASE Reading
  <2>1. AllAnswered(messages \o flushed) /\ IsSequence(messages \o flushed)
    BY <1>1, <1>2, <1>3, AllTold DEF Paired
  <2>2. AllAnswered(messages \o flushed \o images)
    BY <1>1, <2>1, ImagesAnswered
  <2>3. Telling(flushed, {}, {}) /\ Telling(images, {}, {})
    BY <1>1, <1>3, FlushTelling, ImagesTelling DEF Turning
  <2>4. WellTold(messages \o flushed \o images)
    BY <1>1, <1>2, ToldJoined DEF Typed
  <2> HIDE DEF flushed
  <2>5. messages \o flushed \o images = messages \o (flushed \o images)
    BY <1>2, JoinedThree
  <2>6. Telling(flushed \o images, {}, {})
    BY <2>3, TellingJoined
  <2> QED
    BY <2>2, <2>4, <2>5, <2>6 DEF Outgoing, flushed
<1>4. CASE ~Reading
  <2>1. flushed = <<>> /\ images = <<>>
    BY <1>1, <1>4, FlushParts DEF Rest
  <2> HIDE DEF flushed
  <2>2. messages \o flushed \o images = messages /\ messages = messages \o <<>>
    BY <1>2, <2>1, NoneAndOne
  <2>3. Outgoing = messages
    BY <2>2 DEF Outgoing, flushed
  <2>4. Telling(<<>>, {}, {})
    BY NoneAndOne DEF Telling
  <2> QED
    BY <1>1, <2>2, <2>3, <2>4 DEF Typed, Paired
<1> QED
  BY <1>3, <1>4

LEMMA OutputsAnswered ==
  ASSUME Translated, NEW m \in DOMAIN Outgoing,
         Outgoing[m].role = "tool", Outgoing[m].parts[1].as = "output"
  PROVE  \E n \in 1 .. m - 1 :
           /\ Outgoing[n].role = "assistant"
           /\ \E c \in DOMAIN Outgoing[n].calls :
                Outgoing[n].calls[c].id = Outgoing[m].id /\ Outgoing[n].calls[c].name = Outgoing[m].name
<1> DEFINE out == Outgoing
<1>1. WellTold(out) /\ AllAnswered(out)
  BY OutgoingParts
<1>2. Output(out[m])
  BY DEF Output
<1> HIDE DEF out
<1>3. PICK n \in DOMAIN out : n < m /\ out[n].role = "assistant" /\ Made(out[n].calls, out[m].id, out[m].name)
  BY <1>1, <1>2 DEF AllAnswered, MadeBefore, out
<1>4. Len(out) \in Nat /\ DOMAIN out = 1 .. Len(out)
  BY <1>1, AppendedToAny DEF WellTold
<1>5. n \in 1 .. m - 1
  BY <1>3, <1>4 DEF out
<1> QED
  BY <1>3, <1>5 DEF Made, out

LEMMA TurnsInOnePiece ==
  ASSUME Translated, NEW p \in DOMAIN history, NEW q \in DOMAIN history, p < q, OneTurn(Outgoing, p, q),
         NEW n \in CallsOf(Outgoing, p), NEW m \in ResultsOf(Outgoing, q), NEW between \in n + 1 .. m - 1
  PROVE  Outgoing[between].role = "tool"
<1> DEFINE out == Outgoing
<1>1. PICK more : out = messages \o more /\ Telling(more, {}, {})
  BY OutgoingParts
<1>2. OneTurn(out, p, q) /\ n \in CallsOf(out, p) /\ m \in ResultsOf(out, q)
  OBVIOUS
<1> HIDE DEF out
<1>3. IsSequence(messages) /\ IsSequence(more) /\ IsSequence(history) /\ IsSequence(out)
  BY <1>1, Joined DEF Translated, Typed, WellTold, Telling
<1>4. /\ Len(history) \in Nat /\ DOMAIN history = 1 .. Len(history)
      /\ Len(out) \in Nat /\ DOMAIN out = 1 .. Len(out)
  BY <1>3, AppendedToAny
<1>5. /\ Len(messages) \in Nat /\ DOMAIN messages = 1 .. Len(messages)
      /\ \A i \in DOMAIN messages : out[i] = messages[i]
      /\ \A i \in DOMAIN out :
           \/ i \in DOMAIN messages /\ out[i] = messages[i]
           \/ i - Len(messages) \in DOMAIN more /\ out[i] = more[i - Len(messages)]
  <2> DEFINE both == messages \o more
  <2>1. /\ Len(messages) \in Nat /\ DOMAIN messages = 1 .. Len(messages)
        /\ \A i \in DOMAIN messages : both[i] = messages[i]
        /\ \A i \in DOMAIN both :
             \/ i \in DOMAIN messages /\ both[i] = messages[i]
             \/ i - Len(messages) \in DOMAIN more /\ both[i] = more[i - Len(messages)]
    BY <1>3, Joined
  <2> QED
    BY <1>1, <2>1
<1>6. \A k : CallsOf(out, k) # {} => Called(k)
  <2> SUFFICES ASSUME NEW k, NEW i \in DOMAIN out, \E c \in DOMAIN out[i].calls : out[i].calls[c].item = k
               PROVE  Called(k)
    BY DEF CallsOf
  <2>1. CASE i \in DOMAIN messages /\ out[i] = messages[i]
    BY <2>1 DEF Called, Calling, CallsOf
  <2>2. CASE i - Len(messages) \in DOMAIN more /\ out[i] = more[i - Len(messages)]
    BY <1>1, <2>2 DEF Telling, Called
  <2> QED
    BY <1>5, <2>1, <2>2
<1>7. ASSUME NEW k \in DOMAIN history, history[k].kind # "web_search", NEW i \in ResultsOf(out, k)
      PROVE  i \in ResultsOf(messages, k)
  <2>1. i \in DOMAIN out /\ out[i].role = "tool" /\ out[i].parts[1].item = k
    BY <1>7 DEF ResultsOf
  <2>2. CASE i \in DOMAIN messages /\ out[i] = messages[i]
    BY <2>1, <2>2 DEF ResultsOf
  <2>3. CASE i - Len(messages) \in DOMAIN more /\ out[i] = more[i - Len(messages)]
    BY <1>1, <1>7, <2>1, <2>3 DEF Telling
  <2> QED
    BY <1>5, <2>1, <2>2, <2>3
<1>8. PICK last \in p .. q - 1 :
        /\ \A k \in p .. last :
             \/ history[k].kind = "call" /\ CallsOf(out, k) # {}
             \/ history[k].kind = "web_search"
        /\ \A k \in last + 1 .. q :
             history[k].kind \in {"output", "tool_search_output"} /\ ResultsOf(out, k) # {}
        /\ \A k \in last + 1 .. q - 1 : history[k].kind = "output" /\ history[k].image =>
             \A l \in k .. q : history[l].kind = "output"
  BY <1>2 DEF OneTurn
<1>9. last \in DOMAIN history /\ p <= last /\ last < q /\ q \in last + 1 .. q
  BY <1>4
<1>10. Turn(p, last, q)
  <2>1. CallRun(p, last)
    BY <1>6, <1>8 DEF CallRun
  <2>2. \A k \in last + 1 .. q : Answering(k)
    <3> SUFFICES ASSUME NEW k \in last + 1 .. q PROVE Answering(k)
      OBVIOUS
    <3>1. k \in DOMAIN history
      BY <1>4, <1>9
    <3>2. history[k].kind \in {"output", "tool_search_output"} /\ ResultsOf(out, k) # {}
      BY <1>8
    <3> QED
      BY <1>7, <3>1, <3>2 DEF Answering
  <2> QED
    BY <1>8, <2>1, <2>2 DEF Turn
<1>11. m \in ResultsOf(messages, q) /\ m \in DOMAIN messages
  <2>1. history[q].kind # "web_search"
    BY <1>8, <1>9
  <2>2. m \in ResultsOf(messages, q)
    BY <1>2, <1>7, <2>1
  <2> QED
    BY <2>2 DEF ResultsOf
<1>12. n \in 1 .. Len(out) /\ \E c \in DOMAIN out[n].calls : out[n].calls[c].item = p
  BY <1>2, <1>4 DEF CallsOf
<1>13. n \in DOMAIN messages /\ between \in DOMAIN messages
  BY <1>4, <1>5, <1>11, <1>12
<1>14. n \in CallsOf(messages, p)
  <2>1. out[n] = messages[n]
    BY <1>5, <1>13
  <2> QED
    BY <1>12, <1>13, <2>1 DEF CallsOf
<1>15. messages[between].role = "tool"
  BY <1>9, <1>10, <1>11, <1>14 DEF Translated, Turning, TurnsTogether
<1> QED
  BY <1>5, <1>13, <1>15 DEF out

(* Chat Completions gets no result but after its call, and no turn of the  *)
(* history that it would refuse because something came in between.         *)
THEOREM CallsAnsweredInTurn == Spec => []ResultsFollowCalls
<1>1. ASSUME Translated PROVE ResultsFollowCalls
  BY <1>1, OutputsAnswered, TurnsInOnePiece DEF ResultsFollowCalls
<1> QED
  BY <1>1, TranslationInvariant, PTL
-----------------------------------------------------------------------------
(* Which names the calls of the history bear.                              *)

(* Of the tool itself, or the one it is known as; a tool_search has its    *)
(* name anyway.                                                            *)
NamedFor(registry, name, tool) ==
  \/ \E i \in DOMAIN registry.sent :
       registry.sent[i].chat = name /\ registry.sent[i].tool \in {tool, AsFunction(tool)}
  \/ tool = Finding /\ name = Finding.name

CallsNamed(calls, read, registry) == \A c \in DOMAIN calls :
  LET k == calls[c].item
  IN  k \in DOMAIN read /\ read[k].kind = "call" => NamedFor(registry, calls[c].name, read[k].tool)

ToldNamed(told, read, registry) == \A m \in DOMAIN told : CallsNamed(told[m].calls, read, registry)

AllNamed == ToldNamed(messages, history, Registry) /\ CallsNamed(pending.calls, history, Registry)

(* Messages that call nothing but what is pending.                         *)
Calls(told, calls) == IsSequence(told) /\ \A i \in DOMAIN told : told[i].calls \in {<<>>, calls}

LEMMA CallsJoined ==
  ASSUME NEW calls, NEW one, NEW two, Calls(one, calls), Calls(two, calls)
  PROVE  Calls(one \o two, calls)
<1> DEFINE both == one \o two
<1>1. IsSequence(one) /\ IsSequence(two)
  BY DEF Calls
<1>2. /\ IsSequence(both)
      /\ \A i \in DOMAIN both :
           \/ i \in DOMAIN one /\ both[i] = one[i]
           \/ i > Len(one) /\ i - Len(one) \in DOMAIN two /\ both[i] = two[i - Len(one)]
  BY <1>1, Joined
<1> HIDE DEF both
<1>3. Calls(both, calls)
  BY <1>2 DEF Calls
<1> QED
  BY <1>3 DEF both

LEMMA CallsOne ==
  ASSUME NEW calls, NEW m, m.calls \in {<<>>, calls}
  PROVE  Calls(<<m>>, calls) /\ Calls(<<>>, calls)
BY NoneAndOne DEF Calls

LEMMA PendingCalls ==
  ASSUME Typed
  PROVE  Calls(images, pending.calls) /\ Calls(Flush(pending), pending.calls)
<1> DEFINE head == Head1(pending)
<1>1. Calls(images, pending.calls) /\ Calls(pending.results, pending.calls)
  BY DEF Typed, WellTold, Calls
<1>2. /\ pending = Nothing => Flush(pending) = <<>>
      /\ pending # Nothing => Flush(pending) = <<head>> \o pending.results
      /\ head.calls = pending.calls
  BY FlushParts
<1> HIDE DEF head
<1>3. Calls(<<head>>, pending.calls) /\ Calls(<<>>, pending.calls)
  BY <1>2, CallsOne
<1>4. Calls(<<head>> \o pending.results, pending.calls)
  BY <1>1, <1>3, CallsJoined
<1> QED
  BY <1>1, <1>2, <1>3, <1>4

LEMMA OwnCalls ==
  ASSUME NEW calls, NEW own, Own(own)
  PROVE  Calls(own, calls)
<1>1. CASE own = <<>>
  BY <1>1, NoneAndOne DEF Calls
<1>2. CASE \E m : own = <<m>> /\ OwnMessage(m)
  <2>1. PICK m : own = <<m>> /\ m.calls = <<>>
    BY <1>2 DEF OwnMessage
  <2> QED
    BY <2>1, CallsOne
<1> QED
  BY <1>1, <1>2 DEF Own

LEMMA ReadCallsOnly ==
  ASSUME Typed, NEW item, ReadsAs(item)
  PROVE  \E more : messages' = messages \o more /\ Calls(more, pending.calls)
<1> DEFINE flushed == Flush(pending)
           calls == pending.calls
<1>1. Calls(images, calls) /\ Calls(flushed, calls)
  BY PendingCalls
<1>2. IsSequence(messages) /\ IsSequence(images) /\ IsSequence(flushed)
  BY <1>1 DEF Typed, WellTold, Calls
<1>3. CASE KeepsOn(item)
  BY <1>1, <1>3 DEF KeepsOn, Said
<1>4. CASE Closes(item)
  <2>1. PICK own : /\ Own(own)
                   /\ \/ messages' = messages \o images \o flushed \o own
                      \/ messages' = messages \o flushed \o own
    BY <1>4 DEF Closes, Said
  <2> HIDE DEF flushed, calls
  <2>2. Calls(own, calls) /\ IsSequence(own)
    BY <2>1, OwnCalls DEF Calls
  <2> DEFINE rest == flushed \o own
             more == images \o rest
  <2>3. Calls(rest, calls) /\ IsSequence(rest)
    BY <1>1, <2>2, CallsJoined DEF Calls
  <2>4. messages \o flushed \o own = messages \o rest
    BY <1>2, <2>2, JoinedThree
  <2>5. messages \o images \o flushed \o own = (messages \o images) \o rest
    <3> DEFINE so == messages \o images
    <3>1. IsSequence(so) /\ IsSequence(flushed) /\ IsSequence(own)
      BY <1>2, <2>2, Joined
    <3> HIDE DEF so, rest
    <3>2. (so \o flushed) \o own = so \o (flushed \o own)
      BY <3>1, JoinedThree
    <3> QED
      BY <3>2 DEF so, rest
  <2> HIDE DEF rest
  <2>6. (messages \o images) \o rest = messages \o more /\ Calls(more, calls)
    <3>1. (messages \o images) \o rest = messages \o (images \o rest)
      BY <1>2, <2>3, JoinedThree
    <3>2. Calls(images \o rest, calls)
      BY <1>1, <2>3, CallsJoined
    <3> QED
      BY <3>1, <3>2
  <2> QED
    BY <2>1, <2>3, <2>4, <2>5, <2>6 DEF calls
<1> QED
  BY <1>3, <1>4 DEF ReadsAs

(* What was named for its tool still is, when more was declared and read.  *)
LEMMA StillNamed ==
  ASSUME NEW calls, NEW read, NEW now, NEW one, NEW two, CallsNamed(calls, read, one), Widens(one, two),
         \A c \in DOMAIN calls : calls[c].item \in DOMAIN read,
         \A k \in DOMAIN read : now[k] = read[k]
  PROVE  CallsNamed(calls, now, two)
BY DEF CallsNamed, NamedFor, Widens

LEMMA ToldNamedJoined ==
  ASSUME NEW told, NEW more, NEW calls, NEW read, NEW registry,
         ToldNamed(told, read, registry), CallsNamed(calls, read, registry),
         IsSequence(told), Calls(more, calls)
  PROVE  ToldNamed(told \o more, read, registry)
<1> DEFINE both == told \o more
<1>1. IsSequence(more)
  BY DEF Calls
<1>2. \A i \in DOMAIN both :
        \/ i \in DOMAIN told /\ both[i] = told[i]
        \/ i > Len(told) /\ i - Len(told) \in DOMAIN more /\ both[i] = more[i - Len(told)]
  BY <1>1, Joined
<1> HIDE DEF both
<1>3. CallsNamed(<<>>, read, registry)
  BY NoneAndOne DEF CallsNamed
<1>4. \A i \in DOMAIN more : CallsNamed(more[i].calls, read, registry)
  BY <1>3 DEF Calls
<1>5. ToldNamed(both, read, registry)
  BY <1>2, <1>4 DEF ToldNamed
<1> QED
  BY <1>5 DEF both

(* The item that is read is the one read last.                             *)
LEMMA ItemIsRead ==
  ASSUME Typed, ReadItem, NEW item, history' = Append(history, item)
  PROVE  /\ item \in request.items
         /\ \/ ReadMessage(item) \/ ReadReasoning(item) \/ ReadCall(item) \/ ReadSearch(item)
            \/ ReadOutput(item) \/ ReadToolSearchOutput(item) \/ ReadOther(item)
<1>1. PICK other \in request.items :
        \/ ReadMessage(other) \/ ReadReasoning(other) \/ ReadCall(other) \/ ReadSearch(other)
        \/ ReadOutput(other) \/ ReadToolSearchOutput(other) \/ ReadOther(other)
  BY DEF ReadItem
<1>2. history' = Append(history, other)
  BY <1>1 DEF ReadMessage, ReadReasoning, ReadCall, ReadSearch, ReadOutput, ReadToolSearchOutput,
              ReadOther, Read
<1>3. item = other
  <2>1. history'[Place] = item /\ history'[Place] = other
    BY <1>2, HistoryRead
  <2> QED
    BY <2>1
<1> QED
  BY <1>1, <1>3

(* A call is named as its tool is registered.                              *)
LEMMA RenderedNamed ==
  ASSUME Typed, NEW item \in request.items, item.kind = "call", Renderable(item)
  PROVE  NamedFor(Registry, RenderedName(item.tool), item.tool)
<1> DEFINE tool == item.tool
           name == RenderedName(tool)
           known == IF tool \in DOMAIN names.byKey THEN tool ELSE AsFunction(tool)
<1>1. Leads(Registry) /\ Registry.names = names
  BY DEF Typed, Recorded, Numbers, Registry
<1>2. CASE HasRegisteredTool(names, tool)
  <2>1. known \in DOMAIN names.byKey /\ known \in {tool, AsFunction(tool)}
    BY <1>2 DEF HasRegisteredTool
  <2>2. name = names.byKey[known]
    BY <1>2 DEF RenderedName, KnownChatNameFor
  <2> HIDE DEF name, known
  <2>3. PICK i \in DOMAIN Registry.sent : Registry.sent[i].tool = known /\ names.byKey[known] = Registry.sent[i].chat
    BY <1>1, <2>1 DEF Leads
  <2>4. NamedFor(Registry, name, tool)
    BY <2>1, <2>2, <2>3 DEF NamedFor
  <2> QED
    BY <2>4 DEF name
<1>3. CASE ~HasRegisteredTool(names, tool)
  <2>1. tool.kind = "tool_search" /\ name = Finding.name
    BY <1>3 DEF Renderable, RenderedName
  <2>2. tool = Finding
    BY <2>1, InboundAssumption DEF Typed
  <2> QED
    BY <2>1, <2>2 DEF NamedFor
<1> QED
  BY <1>2, <1>3

(* Reading an item changes what is pending by at most a call of its own.   *)
LEMMA CallsPendingRead ==
  ASSUME Typed, ReadItem, NEW item, ReadsAs(item)
  PROVE  \/ pending'.calls \in {<<>>, pending.calls}
         \/ \E call : /\ Adds(call) /\ call.item = Place
                      /\ item.kind = "call" => NamedFor(Registry, call.name, item.tool)
<1>1. history' = Append(history, item)
  BY DEF ReadsAs
<1>2. CASE ReadCall(item)
  <2>1. CASE Renderable(item)
    <3> DEFINE call == Call(item.id, RenderedName(item.tool))
    <3>1. Adds(call) /\ item.kind = "call" /\ item \in request.items
      <4>1. pending' = [pending EXCEPT !.calls = Append(@, call)] /\ item.kind = "call"
        BY <1>2, <2>1 DEF ReadCall
      <4> HIDE DEF call
      <4> QED
        BY <1>1, <4>1, ItemIsRead DEF Adds, Typed
    <3>2. call.item = Place /\ call.name = RenderedName(item.tool)
      BY CallFields
    <3> HIDE DEF call
    <3>3. NamedFor(Registry, call.name, item.tool)
      BY <2>1, <3>1, <3>2, RenderedNamed
    <3> QED
      BY <3>1, <3>2, <3>3
  <2>2. CASE ~Renderable(item)
    BY <1>2, <2>2, NothingWhole DEF ReadCall, Separately
  <2> QED
    BY <2>1, <2>2
<1>3. CASE item.kind # "call"
  <2>1. CASE Closes(item)
    BY <2>1 DEF Closes
  <2>2. CASE KeepsOn(item)
    <3>1. CASE pending'.calls = pending.calls
      BY <3>1
    <3>2. CASE \E id, name : Adds(Call(id, name))
      BY <1>3, <3>2, CallFields
    <3> QED
      BY <2>2, <3>1, <3>2 DEF KeepsOn
  <2> QED
    BY <2>1, <2>2 DEF ReadsAs
<1>4. item.kind = "call" => ReadCall(item)
  BY <1>1, ItemIsRead DEF ReadMessage, ReadReasoning, ReadSearch, ReadOutput, ReadToolSearchOutput, ReadOther
<1> QED
  BY <1>2, <1>3, <1>4

LEMMA ReadNamed ==
  ASSUME Typed, ItemsRead, AllNamed, ReadItem
  PROVE  AllNamed'
<1>1. PICK item : ReadsAs(item)
  BY ReadShape
<1>2. PICK more : messages' = messages \o more /\ Calls(more, pending.calls)
  BY <1>1, ReadCallsOnly
<1>3. /\ \A k \in DOMAIN history : history'[k] = history[k]
      /\ history'[Place] = item
  BY <1>1, HistoryRead DEF ReadsAs
<1>4. Widens(Registry, Registry')
  BY RecordedKept
<1>5. /\ \A c \in DOMAIN pending.calls : pending.calls[c].item \in DOMAIN history
      /\ \A m \in DOMAIN messages : \A c \in DOMAIN messages[m].calls :
           messages[m].calls[c].item \in DOMAIN history
  BY DEF ItemsRead, Called, CalledPending, Calling, CallsOf
<1>6. CallsNamed(pending.calls, history', Registry')
  BY <1>3, <1>4, <1>5, StillNamed DEF AllNamed
<1>7. ToldNamed(messages, history', Registry')
  <2>1. ASSUME NEW m \in DOMAIN messages PROVE CallsNamed(messages[m].calls, history', Registry')
    <3>1. CallsNamed(messages[m].calls, history, Registry)
      BY DEF AllNamed, ToldNamed
    <3>2. \A c \in DOMAIN messages[m].calls : messages[m].calls[c].item \in DOMAIN history
      BY <1>5
    <3> QED
      BY <1>3, <1>4, <3>1, <3>2, StillNamed
  <2> QED
    BY <2>1 DEF ToldNamed
<1>8. ToldNamed(messages', history', Registry')
  <2>1. IsSequence(messages)
    BY DEF Typed, WellTold
  <2> QED
    BY <1>2, <1>6, <1>7, <2>1, ToldNamedJoined
<1>9. CallsNamed(pending'.calls, history', Registry')
  <2>1. CASE pending'.calls = <<>>
    BY <2>1, NoneAndOne DEF CallsNamed
  <2>2. CASE pending'.calls = pending.calls
    BY <1>6, <2>2
  <2>3. ASSUME NEW call, Adds(call), call.item = Place,
               item.kind = "call" => NamedFor(Registry, call.name, item.tool)
        PROVE  CallsNamed(pending'.calls, history', Registry')
    <3>1. /\ \A c \in DOMAIN pending'.calls :
               (c \in DOMAIN pending.calls /\ pending'.calls[c] = pending.calls[c]) \/ pending'.calls[c] = call
      <4>1. /\ Len(pending.calls) \in Nat /\ DOMAIN pending.calls = 1 .. Len(pending.calls)
            /\ DOMAIN pending'.calls = 1 .. Len(pending.calls) + 1
            /\ pending'.calls[Len(pending.calls) + 1] = call
            /\ \A c \in 1 .. Len(pending.calls) : pending'.calls[c] = pending.calls[c]
        BY <2>3, AppendedToAny DEF Typed, Adds
      <4>2. \A c \in DOMAIN pending'.calls : c \in DOMAIN pending.calls \/ c = Len(pending.calls) + 1
        BY <4>1
      <4> QED
        BY <4>1, <4>2
    <3>2. item.kind = "call" => NamedFor(Registry', call.name, item.tool)
      BY <1>4, <2>3 DEF NamedFor, Widens
    <3> QED
      BY <1>3, <1>6, <2>3, <3>1, <3>2 DEF CallsNamed
  <2> QED
    BY <1>1, <2>1, <2>2, <2>3, CallsPendingRead
<1> QED
  BY <1>8, <1>9 DEF AllNamed

LEMMA SameNamed ==
  ASSUME AllNamed, UNCHANGED <<names, sent, history, pending, messages>>
  PROVE  AllNamed'
BY DEF AllNamed, Registry

LEMMA InitNamed ==
  ASSUME Init
  PROVE  AllNamed
<1>1. /\ history = <<>> /\ pending = Nothing
  BY DEF Init, InitTranslation
<1>2. DOMAIN history = {}
  BY <1>1, NoneAndOne
<1> QED
  BY <1>2 DEF AllNamed, ToldNamed, CallsNamed

LEMMA DeclareNamed ==
  ASSUME Typed, AllNamed, TranslateTools
  PROVE  AllNamed'
<1> DEFINE all == WithTools(Registry, request.tools)
<1>1. names' = all.names /\ sent' = all.sent
      /\ UNCHANGED <<request, history, pending, images, rendered, messages>>
  BY DEF TranslateTools
<1>2. request.tools \in Seq(Tools)
  BY InboundAssumption DEF Typed
<1>3. Recorded(all) /\ Widens(Registry, all)
  BY <1>2, WithToolsGiven DEF Typed
<1> HIDE DEF all
<1>4. Registry' = all
  BY <1>1, <1>3 DEF Recorded, Registry
<1>5. \A name, tool : NamedFor(Registry, name, tool) => NamedFor(all, name, tool)
  BY <1>3 DEF NamedFor, Widens
<1>6. \A calls : CallsNamed(calls, history, Registry) => CallsNamed(calls, history, all)
  BY <1>5 DEF CallsNamed
<1>7. ToldNamed(messages, history, all) /\ CallsNamed(pending.calls, history, all)
  BY <1>6 DEF AllNamed, ToldNamed
<1> QED
  BY <1>1, <1>4, <1>7 DEF AllNamed

LEMMA OutgoingNamed ==
  ASSUME Typed, AllNamed
  PROVE  ToldNamed(Outgoing, history, Registry)
<1> DEFINE flushed == Flush(pending)
           calls == pending.calls
<1>1. Calls(images, calls) /\ Calls(flushed, calls)
  BY PendingCalls
<1>2. IsSequence(messages) /\ IsSequence(images) /\ IsSequence(flushed)
  BY <1>1 DEF Typed, WellTold, Calls
<1> HIDE DEF flushed, calls
<1>3. messages \o flushed \o images = messages \o (flushed \o images)
  BY <1>2, JoinedThree
<1>4. Calls(flushed \o images, calls)
  BY <1>1, CallsJoined
<1>5. ToldNamed(messages, history, Registry) /\ CallsNamed(calls, history, Registry)
  BY DEF AllNamed, calls
<1>6. ToldNamed(messages \o (flushed \o images), history, Registry)
  BY <1>2, <1>4, <1>5, ToldNamedJoined
<1> QED
  BY <1>3, <1>6 DEF Outgoing, flushed

LEMMA EndNamed ==
  ASSUME Typed, AllNamed, EndInput
  PROVE  AllNamed'
<1> DEFINE m == Message("user", <<>>)
<1>1. /\ messages' = IF Outgoing = <<>> THEN <<m>> ELSE Outgoing
      /\ pending' = Nothing /\ UNCHANGED <<history, names, sent>>
  BY DEF EndInput, Outgoing, SameNames
<1>2. m.calls = <<>>
  BY MessageFields
<1> HIDE DEF m
<1>3. \A c : CallsNamed(<<>>, history, Registry)
  BY NoneAndOne DEF CallsNamed
<1>4. ToldNamed(<<m>>, history, Registry)
  BY <1>2, <1>3, NoneAndOne DEF ToldNamed
<1>5. Registry' = Registry
  BY <1>1 DEF Registry
<1> QED
  BY <1>1, <1>3, <1>4, <1>5, OutgoingNamed, NothingWhole DEF AllNamed

LEMMA FollowUpNamed ==
  ASSUME Typed, AllNamed, FollowUp
  PROVE  AllNamed'
<1>1. UNCHANGED <<request, names, sent, history, pending, images, rendered>>
  BY FollowUpTold
<1>2. CASE messages' = messages
  BY <1>1, <1>2, SameNamed
<1>3. CASE messages' = messages \o <<Asking, Giving>>
  <2> DEFINE both == <<Asking, Giving>>
             calls == Asking.calls
  <2>1. Calls(both, calls)
    <3>1. IsSequence(both) /\ \A i \in DOMAIN both : both[i] = Asking \/ both[i] = Giving
      BY FollowUpParts DEF WellTold
    <3>2. Giving.calls = <<>>
      BY ToolMessageFields DEF Giving
    <3> HIDE DEF both
    <3> QED
      BY <3>1, <3>2 DEF Calls
  <2>2. CallsNamed(calls, history, Registry)
    <3>1. \A c \in DOMAIN calls : calls[c].item = Place
      BY FollowUpParts, CallFields, NoneAndOne
    <3>2. Place \notin DOMAIN history
      <4>1. Len(history) \in Nat /\ DOMAIN history = 1 .. Len(history)
        BY AppendedToAny DEF Typed
      <4> QED
        BY <4>1 DEF Place
    <3> HIDE DEF calls
    <3> QED
      BY <3>1, <3>2 DEF CallsNamed
  <2> HIDE DEF calls
  <2>3. messages' = messages \o both
    BY <1>3
  <2> HIDE DEF both
  <2>4. ToldNamed(messages', history, Registry)
    BY <2>1, <2>2, <2>3, ToldNamedJoined DEF AllNamed, Typed, WellTold
  <2>5. Registry' = Registry
    BY <1>1 DEF Registry
  <2> QED
    BY <1>1, <2>4, <2>5 DEF AllNamed
<1> QED
  BY <1>2, <1>3, FollowUpTold

LEMMA NextNamed ==
  ASSUME Translated, AllNamed, [Next]_vars
  PROVE  AllNamed'
<1>1. Typed /\ Turning
  BY DEF Translated
<1>2. CASE ReadNext
  <2>1. ReadItem /\ ItemsRead
    BY <1>1, <1>2 DEF ReadNext, Reading, Turning
  <2> QED
    BY <1>1, <2>1, ReadNamed
<1>3. CASE UpstreamCalls \/ UpstreamEnds \/ Search \/ LateExcerpt \/ ClientGoes \/ Answered \/ UNCHANGED vars
  <2>1. UNCHANGED translation
    BY <1>3 DEF UpstreamCalls, UpstreamEnds, Search, LateExcerpt, ClientGoes, Answered, vars
  <2> QED
    BY <2>1, SameNamed DEF translation
<1>4. CASE Declare
  BY <1>1, <1>4, DeclareNamed DEF Declare
<1>5. CASE Post
  BY <1>1, <1>5, EndNamed DEF Post
<1>6. CASE FollowUp
  BY <1>1, <1>6, FollowUpNamed
<1> QED
  BY <1>2, <1>3, <1>4, <1>5, <1>6 DEF Next

(* Different numbers of names make different names.                        *)
LEMMA NamesApart ==
  ASSUME Typed, ~Confusable
  PROVE  /\ \A i, j \in DOMAIN sent : sent[i].chat = sent[j].chat => i = j
         /\ \A i \in DOMAIN sent : sent[i].chat = Finding.name => sent[i].tool = Finding
<1> DEFINE numbers == 1 .. Len(sent)
           tools == {entry.tool : entry \in ToSet(sent)}
           bases == {Base(tool) : tool \in tools}
           base(i) == Base(sent[i].tool)
<1>1. /\ \A one, two \in bases \X numbers : one # two => NthName(one[1], one[2]) # NthName(two[1], two[2])
      /\ \A tool \in tools \ {Finding}, n \in numbers : NthName(Base(tool), n) # Finding.name
  BY DEF Confusable
<1>2. Numbers(Registry) /\ IsSequence(sent)
  BY DEF Typed, Recorded, Registered, Registry
<1>3. Len(sent) \in Nat
  BY <1>2, AppendedToAny
<1>4. PICK num : CountedBy(Registry, num)
  BY <1>2 DEF Numbers
<1>5. \A i \in DOMAIN sent : sent[i].tool \in tools /\ base(i) \in bases
  BY DEF ToSet
<1>6. \A i \in DOMAIN sent : num[i] \in numbers /\ sent[i].chat = NthName(base(i), num[i])
  <2>1. ASSUME NEW i \in DOMAIN sent
        PROVE  num[i] \in numbers /\ sent[i].chat = NthName(base(i), num[i])
    <3>1. num[i] \in 1 .. Used(names, base(i)) /\ sent[i].chat = NthName(base(i), num[i])
      BY <1>4 DEF CountedBy, Registry
    <3>2. Used(names, base(i)) \in 0 .. Len(sent)
      BY <1>2 DEF Numbers, Registry
    <3> HIDE DEF base
    <3> QED
      BY <1>3, <3>1, <3>2
  <2> QED
    BY <2>1
<1>7. \A i, j \in DOMAIN sent : i # j /\ base(i) = base(j) => num[i] # num[j]
  BY <1>4 DEF CountedBy, Registry
<1> HIDE DEF numbers, bases, tools
<1>8. ASSUME NEW i \in DOMAIN sent, NEW j \in DOMAIN sent, sent[i].chat = sent[j].chat PROVE i = j
  <2> DEFINE one == <<base(i), num[i]>>
             two == <<base(j), num[j]>>
  <2>1. one \in bases \X numbers /\ two \in bases \X numbers
    BY <1>5, <1>6
  <2>2. NthName(one[1], one[2]) = NthName(two[1], two[2])
    BY <1>6, <1>8
  <2>3. one = two
    BY <1>1, <2>1, <2>2
  <2>4. base(i) = base(j) /\ num[i] = num[j]
    BY <2>3
  <2> QED
    BY <1>7, <2>4
<1>9. ASSUME NEW i \in DOMAIN sent, sent[i].chat = Finding.name PROVE sent[i].tool = Finding
  BY <1>1, <1>5, <1>6, <1>9
<1> QED
  BY <1>8, <1>9

LEMMA HostedNamesApart ==
  /\ InferToolMapping(Finding.name) = Finding
  /\ Finding.name = HostedName("tool_search") /\ Finding.kind = "tool_search" /\ Finding.namespace = <<>>
<1>1. /\ HostedName("tool_search") = <<"tool", "_", "search">>
      /\ HostedName("web_search") = <<"web", "_", "search">>
      /\ HostedName("image_generation") = <<"image", "_", "generation">>
  BY DEF HostedName
<1> DEFINE name == <<"tool", "_", "search">>
<1>2. name # <<"web", "_", "search">> /\ name # <<"image", "_", "generation">>
  <2>1. name[1] = "tool" /\ <<"web", "_", "search">>[1] = "web" /\ <<"image", "_", "generation">>[1] = "image"
    OBVIOUS
  <2> QED
    BY <2>1
<1> HIDE DEF name
<1>3. Finding.name = name /\ Finding = Tool("tool_search", <<>>, name)
  BY <1>1 DEF Finding, Tool, name
<1>4. \A kind \in Hosted : name = HostedName(kind) <=> kind = "tool_search"
  BY <1>1, <1>2 DEF Hosted, name
<1>5. (CHOOSE kind \in Hosted : name = HostedName(kind)) = "tool_search"
  BY <1>4 DEF Hosted
<1>6. InferToolMapping(name) = Tool("tool_search", <<>>, name)
  BY <1>4, <1>5 DEF InferToolMapping, Hosted
<1> QED
  BY <1>1, <1>3, <1>6 DEF Finding, Tool, name

(* Tools of one request have names that lead back to them, and a call of   *)
(* the history bears its own tool's, unless what names there may be cannot *)
(* tell them apart.                                                        *)
THEOREM ToolsByTheirNames == Spec => []CallsNameTheirTool
<1>1. Init => AllNamed
  BY InitNamed
<1>2. Spec => []AllNamed
  BY <1>1, NextNamed, TranslationInvariant, PTL DEF Spec
<1>3. ASSUME Translated, AllNamed PROVE CallsNameTheirTool
  <2> DEFINE out == Outgoing
  <2>1. Typed /\ ToldNamed(out, history, Registry)
    BY <1>3, OutgoingNamed DEF Translated
  <2> HIDE DEF out
  <2> SUFFICES ASSUME ~Confusable
               PROVE  /\ \A i, j \in DOMAIN sent : sent[i].chat = sent[j].chat => i = j
                      /\ \A i \in DOMAIN sent : MappingForTool(names, sent[i].chat) = sent[i].tool
                      /\ \A k \in DOMAIN history : history[k].kind = "call" => \A n \in CallsOf(out, k) :
                           MappingForTool(names, CallIn(out[n], k).name)
                             \in {history[k].tool, AsFunction(history[k].tool)}
    BY DEF CallsNameTheirTool, out
  <2>2. /\ \A i, j \in DOMAIN sent : sent[i].chat = sent[j].chat => i = j
        /\ \A i \in DOMAIN sent : sent[i].chat = Finding.name => sent[i].tool = Finding
    BY <2>1, NamesApart
  <2>3. /\ \A i \in DOMAIN sent : sent[i].chat \in DOMAIN names.byChat
        /\ \A chat \in DOMAIN names.byChat : \E i \in DOMAIN sent :
             sent[i].chat = chat /\ names.byChat[chat] = sent[i].tool
    BY <2>1 DEF Typed, Recorded, Numbers, Leads, Registry
  <2>4. \A i \in DOMAIN sent : MappingForTool(names, sent[i].chat) = sent[i].tool
    BY <2>2, <2>3 DEF MappingForTool
  <2>5. ASSUME NEW k \in DOMAIN history, history[k].kind = "call", NEW n \in CallsOf(out, k)
        PROVE  MappingForTool(names, CallIn(out[n], k).name) \in {history[k].tool, AsFunction(history[k].tool)}
    <3> DEFINE c == CHOOSE c \in DOMAIN out[n].calls : out[n].calls[c].item = k
               name == out[n].calls[c].name
    <3>1. c \in DOMAIN out[n].calls /\ out[n].calls[c].item = k /\ n \in DOMAIN out
      BY <2>5 DEF CallsOf
    <3>2. CallIn(out[n], k).name = name
      BY DEF CallIn
    <3> HIDE DEF c
    <3>3. NamedFor(Registry, name, history[k].tool)
      BY <2>1, <2>5, <3>1 DEF ToldNamed, CallsNamed
    <3> HIDE DEF name
    <3>4. CASE \E i \in DOMAIN sent : sent[i].chat = name /\ sent[i].tool \in {history[k].tool, AsFunction(history[k].tool)}
      BY <2>4, <3>2, <3>4
    <3>5. CASE history[k].tool = Finding /\ name = Finding.name
      <4>1. CASE name \in DOMAIN names.byChat
        BY <2>2, <2>3, <3>2, <3>5, <4>1 DEF MappingForTool
      <4>2. CASE name \notin DOMAIN names.byChat
        BY <3>2, <3>5, <4>2, HostedNamesApart DEF MappingForTool
      <4> QED
        BY <4>1, <4>2
    <3> QED
      BY <3>3, <3>4, <3>5 DEF NamedFor, Registry
  <2> QED
    BY <2>2, <2>4, <2>5
<1> QED
  BY <1>2, <1>3, TranslationInvariant, PTL
-----------------------------------------------------------------------------
(* The parts of messages, one message after the other.                     *)

PartsUpTo(so, out, n) ==
  so[0] = <<>> /\ \A m \in 1 .. n : so[m] = so[m - 1] \o PartsOf(out[m])

LEMMA PartsSteps ==
  ASSUME NEW out, Len(out) \in Nat
  PROVE  \E so : PartsUpTo(so, out, Len(out)) /\ so[Len(out)] = Parts(out)
<1> DEFINE n == Len(out)
           whole(so) == [i \in 0 .. n |-> IF i = 0 THEN <<>> ELSE so[i - 1] \o PartsOf(out[i])]
           steps(so, k) == /\ so = [i \in 0 .. k |-> so[i]] /\ so[0] = <<>>
                           /\ \A i \in 1 .. k : so[i] = so[i - 1] \o PartsOf(out[i])
           chosen == CHOOSE so : so = whole(so)
           T == {k \in 0 .. n : \E so : steps(so, k)}
<1>1. n \in Nat /\ Parts(out) = chosen[n]
  BY DEF Parts
<1> HIDE DEF n
<1>2. 0 \in T
  <2>1. steps([i \in 0 .. 0 |-> <<>>], 0)
    OBVIOUS
  <2> HIDE DEF steps
  <2> QED
    BY <1>1, <2>1
<1>3. ASSUME NEW k \in 0 .. n - 1, k \in T PROVE k + 1 \in T
  <2>1. PICK so : steps(so, k)
    BY <1>3
  <2> DEFINE more == [i \in 0 .. k + 1 |-> IF i = k + 1 THEN so[k] \o PartsOf(out[k + 1]) ELSE so[i]]
  <2>2. k \in Nat /\ k + 1 \in 0 .. n
    BY <1>1
  <2>3. more = [i \in 0 .. k + 1 |-> more[i]] /\ more[0] = <<>>
    BY <2>1, <2>2
  <2>4. ASSUME NEW i \in 1 .. k + 1 PROVE more[i] = more[i - 1] \o PartsOf(out[i])
    <3>1. i \in 0 .. k + 1 /\ i - 1 \in 0 .. k + 1 /\ i - 1 # k + 1
      BY <2>2
    <3>2. more[i - 1] = so[i - 1]
      BY <3>1
    <3>3. CASE i = k + 1
      <4>1. i - 1 = k
        BY <2>2, <3>3
      <4> QED
        BY <3>1, <3>2, <3>3, <4>1
    <3>4. CASE i # k + 1
      <4>1. i \in 1 .. k /\ more[i] = so[i]
        BY <2>2, <3>1, <3>4
      <4> HIDE DEF more
      <4> QED
        BY <2>1, <3>2, <4>1
    <3> QED
      BY <3>3, <3>4
  <2> HIDE DEF more
  <2>5. steps(more, k + 1)
    BY <2>3, <2>4
  <2> HIDE DEF steps
  <2> QED
    BY <2>2, <2>5
<1> HIDE DEF T
<1>4. n \in T
  <2>1. 0 .. n \subseteq T
    BY <1>1, <1>2, <1>3, Induction
  <2> QED
    BY <1>1, <2>1
<1>5. PICK so : steps(so, n)
  BY <1>4 DEF T
<1>6. so = whole(so)
  <2>1. ASSUME NEW i \in 0 .. n PROVE so[i] = whole(so)[i]
    <3>1. CASE i = 0
      BY <1>5, <3>1
    <3>2. CASE i # 0
      <4>1. i \in 1 .. n
        BY <1>1, <3>2
      <4> QED
        BY <1>5, <3>2, <4>1
    <3> QED
      BY <3>1, <3>2
  <2>2. so = [i \in 0 .. n |-> so[i]] /\ whole(so) = [i \in 0 .. n |-> whole(so)[i]]
    BY <1>5
  <2> HIDE DEF whole, steps
  <2> QED
    BY <2>1, <2>2
<1>7. chosen = whole(chosen)
  BY <1>6
<1> HIDE DEF chosen
<1>8. chosen[0] = <<>> /\ \A i \in 1 .. n : chosen[i] = chosen[i - 1] \o PartsOf(out[i])
  <2>1. ASSUME NEW i \in 0 .. n PROVE chosen[i] = whole(chosen)[i]
    <3> HIDE DEF whole
    <3> QED
      BY <1>7
  <2>2. whole(chosen)[0] = <<>> /\ 0 \in 0 .. n
    BY <1>1
  <2>3. \A i \in 1 .. n : i \in 0 .. n /\ whole(chosen)[i] = chosen[i - 1] \o PartsOf(out[i])
    <3>1. \A i \in 1 .. n : i \in 0 .. n /\ i # 0
      BY <1>1
    <3> QED
      BY <3>1, Zenon
  <2> HIDE DEF whole
  <2> QED
    BY <2>1, <2>2, <2>3
<1> QED
  BY <1>1, <1>8 DEF n, PartsUpTo

(* Messages whose parts and calls are sequences.                           *)
Parted(message) == IsSequence(message.parts) /\ IsSequence(message.calls)

AllParted(out) == IsSequence(out) /\ \A m \in DOMAIN out : Parted(out[m])

LEMMA AllPartedJoined ==
  ASSUME NEW one, NEW two, AllParted(one), AllParted(two)
  PROVE  AllParted(one \o two)
<1> DEFINE both == one \o two
<1>1. IsSequence(one) /\ IsSequence(two)
  BY DEF AllParted
<1>2. /\ IsSequence(both)
      /\ \A i \in DOMAIN both :
           \/ i \in DOMAIN one /\ both[i] = one[i]
           \/ i > Len(one) /\ i - Len(one) \in DOMAIN two /\ both[i] = two[i - Len(one)]
  BY <1>1, Joined
<1> HIDE DEF both
<1>3. AllParted(both)
  BY <1>2 DEF AllParted
<1> QED
  BY <1>3 DEF both

CallParts(calls) == [c \in DOMAIN calls |-> Part(calls[c].item, "call")]

LEMMA CallPartsOf ==
  ASSUME NEW calls, IsSequence(calls)
  PROVE  /\ IsSequence(CallParts(calls)) /\ DOMAIN CallParts(calls) = DOMAIN calls
         /\ \A c \in DOMAIN calls : CallParts(calls)[c] = Part(calls[c].item, "call")
<1>1. Len(calls) \in Nat /\ DOMAIN calls = 1 .. Len(calls)
  BY AppendedToAny
<1> DEFINE n == Len(calls)
           all == {Part(calls[c].item, "call") : c \in DOMAIN calls}
           parts == [c \in 1 .. n |-> Part(calls[c].item, "call")]
<1>2. parts \in [1 .. n -> all] /\ n \in Nat
  BY <1>1
<1>3. CallParts(calls) = parts
  BY <1>1 DEF CallParts
<1> HIDE DEF parts, all, n
<1>4. parts \in Seq(all)
  BY <1>2, SeqDef
<1>5. IsSequence(CallParts(calls))
  BY <1>3, <1>4 DEF IsSequence
<1> QED
  BY <1>5 DEF CallParts

LEMMA PartsOfMessage ==
  ASSUME NEW m, Parted(m)
  PROVE  IsSequence(PartsOf(m)) /\ PartsOf(m) = m.parts \o CallParts(m.calls)
<1>1. PartsOf(m) = m.parts \o CallParts(m.calls)
  BY DEF PartsOf, CallParts
<1>2. IsSequence(CallParts(m.calls))
  BY CallPartsOf DEF Parted
<1> QED
  BY <1>1, <1>2, Joined DEF Parted

LEMMA PartsSequence ==
  ASSUME NEW so, NEW out, AllParted(out), NEW n \in 0 .. Len(out), PartsUpTo(so, out, n)
  PROVE  \A m \in 0 .. n : IsSequence(so[m])
<1> DEFINE T == {m \in 0 .. n : IsSequence(so[m])}
<1>1. Len(out) \in Nat /\ n \in Nat /\ DOMAIN out = 1 .. Len(out)
  BY AppendedToAny DEF AllParted
<1>2. 0 \in T
  BY <1>1, NoneAndOne DEF PartsUpTo
<1>3. ASSUME NEW m \in 0 .. n - 1, m \in T PROVE m + 1 \in T
  <2>1. m + 1 \in 1 .. n /\ (m + 1) - 1 = m /\ m + 1 \in 0 .. n /\ m + 1 \in DOMAIN out
    BY <1>1
  <2>2. so[m + 1] = so[m] \o PartsOf(out[m + 1])
    BY <2>1 DEF PartsUpTo
  <2>3. IsSequence(PartsOf(out[m + 1]))
    BY <2>1, PartsOfMessage DEF AllParted
  <2>4. IsSequence(so[m + 1])
    BY <1>3, <2>2, <2>3, Joined
  <2> QED
    BY <2>1, <2>4
<1> HIDE DEF T
<1>4. 0 .. n \subseteq T
  BY <1>1, <1>2, <1>3, Induction
<1> QED
  BY <1>4 DEF T

(* Messages that begin alike have parts that begin alike.                  *)
LEMMA PartsAlike ==
  ASSUME NEW n \in Nat, NEW so, NEW out, NEW too, NEW other,
         PartsUpTo(so, out, n), PartsUpTo(too, other, n), \A m \in 1 .. n : out[m] = other[m]
  PROVE  so[n] = too[n]
<1> DEFINE T == {m \in 0 .. n : so[m] = too[m]}
<1>1. 0 \in T
  BY DEF PartsUpTo
<1>2. ASSUME NEW m \in 0 .. n - 1, m \in T PROVE m + 1 \in T
  <2>1. m + 1 \in 1 .. n /\ (m + 1) - 1 = m /\ m + 1 \in 0 .. n
    OBVIOUS
  <2>2. so[m + 1] = so[m] \o PartsOf(out[m + 1]) /\ too[m + 1] = too[m] \o PartsOf(other[m + 1])
    BY <2>1 DEF PartsUpTo
  <2>3. out[m + 1] = other[m + 1] /\ so[m] = too[m]
    BY <1>2, <2>1
  <2> QED
    BY <2>1, <2>2, <2>3
<1> HIDE DEF T
<1>3. 0 .. n \subseteq T
  BY <1>1, <1>2, Induction
<1>4. n \in T
  BY <1>3
<1> QED
  BY <1>4 DEF T

LEMMA PartsNoneAndOne ==
  /\ Parts(<<>>) = <<>>
  /\ \A m : Parted(m) => Parts(<<m>>) = PartsOf(m)
<1>1. Parts(<<>>) = <<>>
  <2>1. Len(<<>>) = 0 /\ Len(<<>>) \in Nat
    BY NoneAndOne
  <2>2. PICK so : PartsUpTo(so, <<>>, Len(<<>>)) /\ so[Len(<<>>)] = Parts(<<>>)
    BY <2>1, PartsSteps
  <2> QED
    BY <2>1, <2>2 DEF PartsUpTo
<1>2. ASSUME NEW m, Parted(m) PROVE Parts(<<m>>) = PartsOf(m)
  <2> DEFINE out == <<m>>
  <2>1. Len(out) = 1 /\ Len(out) \in Nat /\ out[1] = m
    BY NoneAndOne
  <2> HIDE DEF out
  <2>2. PICK so : PartsUpTo(so, out, Len(out)) /\ so[Len(out)] = Parts(out)
    BY <2>1, PartsSteps
  <2>3. so[0] = <<>> /\ so[1] = so[1 - 1] \o PartsOf(out[1])
    BY <2>1, <2>2 DEF PartsUpTo
  <2>4. so[1] = <<>> \o PartsOf(m)
    <3>1. 1 - 1 = 0
      OBVIOUS
    <3> QED
      BY <2>1, <2>3, <3>1, Zenon
  <2>5. so[1] = PartsOf(m)
    BY <1>2, <2>4, PartsOfMessage, NoneAndOne
  <2> QED
    BY <2>1, <2>2, <2>5 DEF out
<1> QED
  BY <1>1, <1>2

LEMMA PartsJoined ==
  ASSUME NEW one, NEW two, AllParted(one), AllParted(two)
  PROVE  /\ Parts(one \o two) = Parts(one) \o Parts(two)
         /\ IsSequence(Parts(one)) /\ IsSequence(Parts(two)) /\ IsSequence(Parts(one \o two))
<1> DEFINE both == one \o two
           k == Len(one)
           n == Len(two)
<1>1. /\ k \in Nat /\ n \in Nat /\ Len(both) = k + n
      /\ \A i \in 1 .. k : both[i] = one[i]
      /\ \A i \in 1 .. n : both[k + i] = two[i]
      /\ DOMAIN two = 1 .. n
  BY Joined DEF AllParted
<1>2. AllParted(both)
  BY AllPartedJoined
<1> HIDE DEF both, k, n
<1>3. PICK so : PartsUpTo(so, both, k + n) /\ so[k + n] = Parts(both)
  <2>1. Len(both) \in Nat
    BY <1>1
  <2> QED
    BY <1>1, <2>1, PartsSteps
<1>4. PICK first : PartsUpTo(first, one, k) /\ first[k] = Parts(one)
  BY <1>1, PartsSteps DEF k
<1>5. PICK then : PartsUpTo(then, two, n) /\ then[n] = Parts(two)
  BY <1>1, PartsSteps DEF n
<1>6. /\ \A m \in 0 .. n : IsSequence(then[m])
      /\ IsSequence(first[k])
  <2>1. n \in 0 .. Len(two) /\ k \in 0 .. Len(one) /\ k \in 0 .. k
    BY <1>1 DEF n, k
  <2>2. \A m \in 0 .. n : IsSequence(then[m])
    BY <1>5, <2>1, PartsSequence
  <2>3. \A m \in 0 .. k : IsSequence(first[m])
    BY <1>4, <2>1, PartsSequence
  <2> QED
    BY <2>1, <2>2, <2>3
<1>7. so[k] = first[k]
  <2>1. PartsUpTo(so, both, k)
    <3>1. \A m \in 1 .. k : m \in 1 .. k + n
      BY <1>1
    <3> QED
      BY <1>3, <3>1, Zenon DEF PartsUpTo
  <2> QED
    BY <1>1, <1>4, <2>1, PartsAlike
<1> DEFINE Same(m) == so[k + m] = first[k] \o then[m]
           T == {m \in 0 .. n : Same(m)}
<1>8. 0 \in T
  <2>1. so[k + 0] = so[k] /\ then[0] = <<>>
    BY <1>1, <1>5 DEF PartsUpTo
  <2>2. first[k] \o <<>> = first[k]
    BY <1>6, NoneAndOne
  <2>3. so[k + 0] = first[k] \o then[0]
    BY <1>7, <2>1, <2>2, Zenon
  <2>4. Same(0) /\ 0 \in 0 .. n
    BY <1>1, <2>3
  <2> HIDE DEF Same
  <2> QED
    BY <2>4
<1>9. ASSUME NEW m \in 0 .. n - 1, m \in T PROVE m + 1 \in T
  <2>1. /\ m + 1 \in 1 .. n /\ (m + 1) - 1 = m /\ m + 1 \in 0 .. n /\ m \in 0 .. n
        /\ k + (m + 1) \in 1 .. k + n /\ (k + (m + 1)) - 1 = k + m
    BY <1>1
  <2>2. so[k + (m + 1)] = so[k + m] \o PartsOf(both[k + (m + 1)])
    BY <1>3, <2>1 DEF PartsUpTo
  <2>3. then[m + 1] = then[m] \o PartsOf(two[m + 1])
    BY <1>5, <2>1 DEF PartsUpTo
  <2>4. both[k + (m + 1)] = two[m + 1]
    BY <1>1, <2>1
  <2>5. IsSequence(PartsOf(two[m + 1]))
    BY <1>1, <2>1, PartsOfMessage DEF AllParted
  <2>6. (first[k] \o then[m]) \o PartsOf(two[m + 1]) = first[k] \o (then[m] \o PartsOf(two[m + 1]))
    <3>1. IsSequence(first[k]) /\ IsSequence(then[m])
      BY <1>6, <2>1
    <3> DEFINE a == first[k]
               b == then[m]
               p == PartsOf(two[m + 1])
    <3>2. IsSequence(a) /\ IsSequence(b) /\ IsSequence(p)
      BY <2>5, <3>1
    <3> HIDE DEF T, a, b, p
    <3>3. (a \o b) \o p = a \o (b \o p)
      BY <3>2, JoinedThree
    <3> QED
      BY <3>3 DEF a, b, p
  <2>7. so[k + m] = first[k] \o then[m]
    BY <1>9
  <2>8. so[k + (m + 1)] = first[k] \o then[m + 1]
    BY <2>2, <2>3, <2>4, <2>6, <2>7, Zenon
  <2>9. Same(m + 1)
    BY <2>8
  <2> HIDE DEF Same
  <2> QED
    BY <2>1, <2>9
<1> HIDE DEF T
<1>10. so[k + n] = first[k] \o then[n]
  <2>1. 0 .. n \subseteq T
    BY <1>1, <1>8, <1>9, Induction
  <2>2. n \in T
    BY <1>1, <2>1
  <2> QED
    BY <2>2 DEF T
<1>11. n \in 0 .. n
  BY <1>1
<1>12. IsSequence(Parts(one)) /\ IsSequence(Parts(two))
  BY <1>4, <1>5, <1>6, <1>11
<1> QED
  BY <1>3, <1>4, <1>5, <1>10, <1>12, Joined DEF both

(* Parts of an earlier message come earlier.                               *)
LEMMA PartsApart ==
  ASSUME NEW out, AllParted(out), NEW m \in DOMAIN out, NEW n \in DOMAIN out, m < n,
         NEW a \in ToSet(PartsOf(out[m])), NEW b \in ToSet(PartsOf(out[n]))
  PROVE  \E i, j \in DOMAIN Parts(out) : i < j /\ Parts(out)[i] = a /\ Parts(out)[j] = b
<1> DEFINE len == Len(out)
<1>1. len \in Nat /\ DOMAIN out = 1 .. len
  BY AppendedToAny DEF AllParted
<1>2. PICK so : PartsUpTo(so, out, len) /\ so[len] = Parts(out)
  BY <1>1, PartsSteps
<1>3. len \in 0 .. Len(out)
  BY <1>1
<1>4. \A k \in 0 .. len : IsSequence(so[k])
  BY <1>2, <1>3, PartsSequence
<1> HIDE DEF len
<1>5. ASSUME NEW k \in 1 .. len
      PROVE  /\ so[k] = so[k - 1] \o PartsOf(out[k])
             /\ IsSequence(so[k - 1]) /\ IsSequence(so[k]) /\ IsSequence(PartsOf(out[k]))
  <2>1. k - 1 \in 0 .. len /\ k \in 0 .. len
    BY <1>1
  <2>2. IsSequence(PartsOf(out[k]))
    BY <1>1, PartsOfMessage DEF AllParted
  <2> QED
    BY <1>2, <1>4, <2>1, <2>2 DEF PartsUpTo
(* Longer and longer, and alike as far as they go.                         *)
<1> DEFINE Begins(a1, a2) == Len(a1) <= Len(a2) /\ \A i \in DOMAIN a1 : i \in DOMAIN a2 /\ a2[i] = a1[i]
<1>6. ASSUME NEW k \in 0 .. len, NEW l \in Nat, k + l <= len PROVE Begins(so[k], so[k + l])
  <2> DEFINE T == {x \in 0 .. l : Begins(so[k], so[k + x])}
  <2>1. 0 \in T
    <3>1. k + 0 = k /\ Len(so[k]) \in Nat
      BY <1>4, AppendedToAny
    <3> QED
      BY <3>1
  <2>2. ASSUME NEW x \in 0 .. l - 1, x \in T PROVE x + 1 \in T
    <3>1. k + (x + 1) \in 1 .. len /\ (k + (x + 1)) - 1 = k + x /\ x + 1 \in 0 .. l /\ k + x \in 0 .. len
      BY <1>1, <1>6
    <3> DEFINE a1 == so[k + x]
               a2 == so[k + (x + 1)]
               p == PartsOf(out[k + (x + 1)])
    <3>2. a2 = a1 \o p /\ IsSequence(a1) /\ IsSequence(p)
      BY <1>5, <3>1
    <3>3. Begins(so[k], a1) /\ IsSequence(so[k])
      BY <1>4, <2>2
    <3> HIDE DEF a1, a2, p
    <3>4. Len(a1) \in Nat /\ Len(p) \in Nat /\ Len(a2) = Len(a1) + Len(p)
          /\ DOMAIN a1 = 1 .. Len(a1) /\ DOMAIN a2 = 1 .. Len(a1) + Len(p)
          /\ \A i \in DOMAIN a1 : a2[i] = a1[i]
      BY <3>2, Joined
    <3>5. Len(so[k]) \in Nat
      BY <3>3, AppendedToAny
    <3>6. Begins(so[k], a2)
      BY <3>3, <3>4, <3>5
    <3> QED
      BY <3>1, <3>6 DEF a2
  <2> HIDE DEF T
  <2>3. 0 .. l \subseteq T
    BY <2>1, <2>2, Induction
  <2>4. l \in T
    BY <2>3
  <2> QED
    BY <2>4 DEF T
<1>7. m \in 1 .. len /\ n \in 1 .. len /\ n - 1 \in 0 .. len /\ m \in 0 .. len /\ n \in 0 .. len
      /\ m \in Nat /\ n \in Nat
  BY <1>1
<1>8. PICK x \in DOMAIN PartsOf(out[m]) : PartsOf(out[m])[x] = a
  BY DEF ToSet
<1>9. PICK y \in DOMAIN PartsOf(out[n]) : PartsOf(out[n])[y] = b
  BY DEF ToSet
<1>10. \E i \in DOMAIN so[m] : so[m][i] = a
  <2> DEFINE s1 == so[m - 1]
             p == PartsOf(out[m])
  <2>1. so[m] = s1 \o p /\ IsSequence(s1) /\ IsSequence(p) /\ x \in DOMAIN p /\ p[x] = a
    BY <1>5, <1>7, <1>8
  <2> HIDE DEF s1, p
  <2>2. Len(s1) + x \in DOMAIN so[m] /\ so[m][Len(s1) + x] = a
    BY <2>1, Joined
  <2> QED
    BY <2>2
<1>11. PICK i \in DOMAIN so[m] : so[m][i] = a
  BY <1>10
<1>12. i \in DOMAIN so[n - 1]
  <2>1. (n - 1) - m \in Nat /\ m + ((n - 1) - m) <= len /\ m + ((n - 1) - m) = n - 1
    BY <1>1, <1>7
  <2>2. Begins(so[m], so[n - 1])
    BY <1>6, <1>7, <2>1
  <2> QED
    BY <1>11, <2>2
<1>13. \E j \in DOMAIN so[n] : so[n][j] = b /\ i < j
  <2> DEFINE s1 == so[n - 1]
             p == PartsOf(out[n])
  <2>1. so[n] = s1 \o p /\ IsSequence(s1) /\ IsSequence(p) /\ y \in DOMAIN p /\ p[y] = b /\ i \in DOMAIN s1
    BY <1>5, <1>7, <1>9, <1>12
  <2> HIDE DEF s1, p
  <2>2. Len(s1) + y \in DOMAIN so[n] /\ so[n][Len(s1) + y] = b /\ i < Len(s1) + y
    BY <2>1, Joined
  <2> QED
    BY <2>2
<1>14. PICK j \in DOMAIN so[n] : so[n][j] = b /\ i < j
  BY <1>13
<1>15. Begins(so[m], so[len]) /\ Begins(so[n], so[len])
  <2>1. ASSUME NEW k \in 1 .. len PROVE Begins(so[k], so[len])
    <3>1. len - k \in Nat /\ k + (len - k) <= len /\ k + (len - k) = len /\ k \in 0 .. len
      BY <1>1
    <3> QED
      BY <1>6, <3>1
  <2> QED
    BY <1>7, <2>1
<1> QED
  BY <1>2, <1>11, <1>14, <1>15
-----------------------------------------------------------------------------
(* The order of parts.                                                     *)

Shared(calls, one, two) ==
  (\E c \in DOMAIN calls : calls[c].item = one) /\ (\E c \in DOMAIN calls : calls[c].item = two)

(* In one of the groups of calls.                                          *)
MadeTogether(groups, one, two) == \E calls \in groups : Shared(calls, one, two)

(* A part of a later item may come first.                                  *)
MayPrecede(read, groups, a, b) ==
  \/ b.as = "image" /\ read[a.item].kind = "output"
  \/ /\ a.as = "call" /\ b.as = "output" /\ read[b.item].kind = "web_search"
     /\ MadeTogether(groups, a.item, b.item)

MayFollow(read, groups, a, b) == a # b /\ (a.item > b.item => MayPrecede(read, groups, a, b))

InOrder(parts, read, groups) == \A i, j \in DOMAIN parts :
  i < j => MayFollow(read, groups, parts[i], parts[j])

Across(S, T, read, groups) == \A a \in S, b \in T : MayFollow(read, groups, a, b)

LEMMA ToSetJoined ==
  ASSUME NEW s1, NEW s2, IsSequence(s1), IsSequence(s2)
  PROVE  ToSet(s1 \o s2) = ToSet(s1) \union ToSet(s2)
<1> DEFINE both == s1 \o s2
<1>0. /\ Len(s1) \in Nat /\ Len(s2) \in Nat
      /\ DOMAIN s1 = 1 .. Len(s1) /\ DOMAIN s2 = 1 .. Len(s2)
      /\ DOMAIN both = 1 .. Len(s1) + Len(s2)
      /\ \A i \in DOMAIN s1 : both[i] = s1[i]
      /\ \A i \in DOMAIN s2 : both[Len(s1) + i] = s2[i]
      /\ \A i \in DOMAIN both :
           \/ i \in DOMAIN s1 /\ both[i] = s1[i]
           \/ i > Len(s1) /\ i - Len(s1) \in DOMAIN s2 /\ both[i] = s2[i - Len(s1)]
  BY Joined
<1> HIDE DEF both
<1>1. /\ \A i \in DOMAIN s1 : i \in DOMAIN both
      /\ \A i \in DOMAIN s2 : Len(s1) + i \in DOMAIN both
  BY <1>0
<1>2. ToSet(both) = ToSet(s1) \union ToSet(s2)
  BY <1>0, <1>1 DEF ToSet
<1> QED
  BY <1>2 DEF both

LEMMA ToSetNoneAndOne == ToSet(<<>>) = {} /\ \A x : ToSet(<<x>>) = {x}
BY NoneAndOne DEF ToSet

LEMMA InOrderJoined ==
  ASSUME NEW s1, NEW s2, IsSequence(s1), IsSequence(s2), NEW read, NEW groups
  PROVE  InOrder(s1 \o s2, read, groups) <=>
           /\ InOrder(s1, read, groups) /\ InOrder(s2, read, groups)
           /\ Across(ToSet(s1), ToSet(s2), read, groups)
<1> DEFINE both == s1 \o s2
<1>1. /\ Len(s1) \in Nat /\ Len(s2) \in Nat
      /\ DOMAIN s1 = 1 .. Len(s1) /\ DOMAIN s2 = 1 .. Len(s2)
      /\ DOMAIN both = 1 .. Len(s1) + Len(s2)
      /\ \A i \in DOMAIN s1 : both[i] = s1[i]
      /\ \A i \in DOMAIN s2 : both[Len(s1) + i] = s2[i]
      /\ \A i \in DOMAIN both :
           \/ i \in DOMAIN s1 /\ both[i] = s1[i]
           \/ i > Len(s1) /\ i - Len(s1) \in DOMAIN s2 /\ both[i] = s2[i - Len(s1)]
  BY Joined
<1> HIDE DEF both
<1> DEFINE F(a, b) == MayFollow(read, groups, a, b)
<1> HIDE DEF F
<1>2. ASSUME \A i, j \in DOMAIN both : i < j => F(both[i], both[j])
      PROVE  /\ \A i, j \in DOMAIN s1 : i < j => F(s1[i], s1[j])
             /\ \A i, j \in DOMAIN s2 : i < j => F(s2[i], s2[j])
             /\ \A i \in DOMAIN s1, j \in DOMAIN s2 : F(s1[i], s2[j])
  <2>1. \A i, j \in DOMAIN s1 : i < j => F(s1[i], s1[j])
    BY <1>1, <1>2
  <2>2. \A i \in DOMAIN s2 : Len(s1) + i \in DOMAIN both
    BY <1>1
  <2>3. \A i, j \in DOMAIN s2 : i < j => Len(s1) + i < Len(s1) + j
    BY <1>1
  <2>4. \A i, j \in DOMAIN s2 : i < j => F(s2[i], s2[j])
    BY <1>1, <1>2, <2>2, <2>3
  <2>5. \A i \in DOMAIN s1, j \in DOMAIN s2 : i < Len(s1) + j /\ i \in DOMAIN both
    BY <1>1
  <2>6. \A i \in DOMAIN s1, j \in DOMAIN s2 : F(s1[i], s2[j])
    BY <1>1, <1>2, <2>2, <2>5
  <2> QED
    BY <2>1, <2>4, <2>6
<1>3. ASSUME \A i, j \in DOMAIN s1 : i < j => F(s1[i], s1[j]),
             \A i, j \in DOMAIN s2 : i < j => F(s2[i], s2[j]),
             \A i \in DOMAIN s1, j \in DOMAIN s2 : F(s1[i], s2[j]),
             NEW i \in DOMAIN both, NEW j \in DOMAIN both, i < j
      PROVE  F(both[i], both[j])
  <2>1. CASE i \in DOMAIN s1 /\ j \in DOMAIN s1
    BY <1>1, <1>3, <2>1
  <2>2. CASE i \in DOMAIN s1 /\ j - Len(s1) \in DOMAIN s2 /\ both[j] = s2[j - Len(s1)]
    BY <1>1, <1>3, <2>2
  <2>3. CASE i > Len(s1)
    <3>1. j > Len(s1) /\ i \in Nat /\ j \in Nat
      BY <1>1, <1>3, <2>3
    <3>2. ~(i \in DOMAIN s1) /\ ~(j \in DOMAIN s1)
      BY <1>1, <2>3, <3>1
    <3>3. /\ i - Len(s1) \in DOMAIN s2 /\ both[i] = s2[i - Len(s1)]
          /\ j - Len(s1) \in DOMAIN s2 /\ both[j] = s2[j - Len(s1)]
      BY <1>1, <3>2
    <3>4. i - Len(s1) < j - Len(s1)
      BY <1>1, <1>3, <3>1
    <3> QED
      BY <1>3, <3>3, <3>4
  <2> QED
    BY <1>1, <2>1, <2>2, <2>3
<1>4. (\A i \in DOMAIN s1, j \in DOMAIN s2 : F(s1[i], s2[j])) <=> Across(ToSet(s1), ToSet(s2), read, groups)
  BY DEF Across, ToSet, F
<1>5. \A s0 : InOrder(s0, read, groups) <=> \A i, j \in DOMAIN s0 : i < j => F(s0[i], s0[j])
  BY DEF InOrder, F
<1>6. InOrder(both, read, groups) <=>
           /\ InOrder(s1, read, groups) /\ InOrder(s2, read, groups)
           /\ Across(ToSet(s1), ToSet(s2), read, groups)
  BY <1>2, <1>3, <1>4, <1>5
<1> QED
  BY <1>6 DEF both

(* At most one part, of the item at a place.                               *)
Few(parts, place) == parts = <<>> \/ \E as : parts = <<Part(place, as)>>

LEMMA FewParts ==
  ASSUME NEW parts, NEW place, Few(parts, place)
  PROVE  /\ IsSequence(parts) /\ \A a \in ToSet(parts) : a.item = place
         /\ \A read, groups : InOrder(parts, read, groups)
<1>1. CASE parts = <<>>
  BY <1>1, NoneAndOne, ToSetNoneAndOne DEF InOrder
<1>2. CASE \E as : parts = <<Part(place, as)>>
  <2>1. PICK as : parts = <<Part(place, as)>>
    BY <1>2
  <2>2. IsSequence(parts) /\ DOMAIN parts = {1} /\ ToSet(parts) = {Part(place, as)}
    BY <2>1, NoneAndOne, ToSetNoneAndOne
  <2>3. Part(place, as).item = place
    BY DEF Part
  <2>4. \A i, j \in {1} : ~(i < j)
    OBVIOUS
  <2>5. \A read, groups : InOrder(parts, read, groups)
    BY <2>2, <2>4 DEF InOrder
  <2> QED
    BY <2>2, <2>3, <2>5
<1> QED
  BY <1>1, <1>2 DEF Few

(* What was in order still is, with more items and calls.                  *)
Onward(read, groups, now, more, place) ==
  /\ \A k \in 1 .. place - 1 : now[k] = read[k]
  /\ \A one, two : MadeTogether(groups, one, two) => MadeTogether(more, one, two)

Below(S, place) == \A a \in S : a.item \in 1 .. place - 1

LEMMA StillAcross ==
  ASSUME NEW S, NEW T, NEW read, NEW groups, NEW now, NEW more, NEW place,
         Across(S, T, read, groups), Below(S, place), Below(T, place), Onward(read, groups, now, more, place)
  PROVE  Across(S, T, now, more)
BY DEF Across, MayFollow, MayPrecede, Below, Onward

LEMMA StillInOrder ==
  ASSUME NEW parts, NEW read, NEW groups, NEW now, NEW more, NEW place,
         InOrder(parts, read, groups), Below(ToSet(parts), place), Onward(read, groups, now, more, place)
  PROVE  InOrder(parts, now, more)
<1>1. \A i \in DOMAIN parts : parts[i].item \in 1 .. place - 1
  BY DEF Below, ToSet
<1> QED
  BY <1>1 DEF InOrder, MayFollow, MayPrecede, Onward

(* An item adds up to two parts, one of them before parts it may precede.  *)
InsertedWell(A, B, X, Y, now, more, place) ==
  LET all == A \o X \o B \o Y
  IN  /\ InOrder(all, now, more) /\ Below(ToSet(all), place + 1)
      /\ ToSet(all) = ToSet(A \o B) \union ToSet(X) \union ToSet(Y)

LEMMA Inserted ==
  ASSUME NEW A, NEW B, NEW X, NEW Y, NEW read, NEW groups, NEW now, NEW more, NEW place \in Nat \ {0},
         IsSequence(A), IsSequence(B), Few(X, place), Few(Y, place),
         InOrder(A \o B, read, groups), Below(ToSet(A \o B), place), Onward(read, groups, now, more, place),
         X = <<>> \/ X # Y,
         \A x \in ToSet(X), b \in ToSet(B) : MayPrecede(now, more, x, b)
  PROVE  InsertedWell(A, B, X, Y, now, more, place)
<1>1. /\ IsSequence(X) /\ \A a \in ToSet(X) : a.item = place
      /\ IsSequence(Y) /\ \A a \in ToSet(Y) : a.item = place
      /\ InOrder(X, now, more) /\ InOrder(Y, now, more)
  BY FewParts
<1>2. /\ InOrder(A, read, groups) /\ InOrder(B, read, groups) /\ Across(ToSet(A), ToSet(B), read, groups)
      /\ ToSet(A \o B) = ToSet(A) \union ToSet(B)
  BY InOrderJoined, ToSetJoined
<1>3. Below(ToSet(A), place) /\ Below(ToSet(B), place)
  BY <1>2 DEF Below
<1>4. InOrder(A, now, more) /\ InOrder(B, now, more) /\ Across(ToSet(A), ToSet(B), now, more)
  BY <1>2, <1>3, StillAcross, StillInOrder
<1>5. ASSUME NEW S, NEW T, Below(S, place), \A a \in T : a.item = place PROVE Across(S, T, now, more)
  <2>1. ASSUME NEW a \in S, NEW b \in T PROVE a # b /\ ~(a.item > b.item)
    <3>1. a.item \in 1 .. place - 1 /\ b.item = place
      BY <1>5 DEF Below
    <3>2. a.item < place /\ a.item \in Nat
      BY <3>1
    <3> QED
      BY <3>1, <3>2
  <2> QED
    BY <2>1 DEF Across, MayFollow
<1>6. Across(ToSet(X), ToSet(B), now, more)
  <2>1. \A a \in ToSet(X), b \in ToSet(B) : a # b
    <3> SUFFICES ASSUME NEW a \in ToSet(X), NEW b \in ToSet(B) PROVE a # b
      OBVIOUS
    <3>1. a.item = place /\ b.item \in 1 .. place - 1
      BY <1>1, <1>3 DEF Below
    <3>2. place \notin 1 .. place - 1
      OBVIOUS
    <3> QED
      BY <3>1, <3>2
  <2> QED
    BY <2>1 DEF Across, MayFollow
<1>7. Across(ToSet(X), ToSet(Y), now, more)
  <2>1. ASSUME NEW a \in ToSet(X), NEW b \in ToSet(Y) PROVE a # b /\ ~(a.item > b.item)
    <3>1. X # <<>> /\ Y # <<>>
      BY <2>1, ToSetNoneAndOne
    <3>2. PICK x, y : X = <<Part(place, x)>> /\ Y = <<Part(place, y)>>
      BY <3>1 DEF Few
    <3>3. a = Part(place, x) /\ b = Part(place, y)
      BY <2>1, <3>2, ToSetNoneAndOne
    <3>4. a # b
      BY <3>1, <3>2, <3>3
    <3> QED
      BY <1>1, <3>4
  <2> QED
    BY <2>1 DEF Across, MayFollow
<1> DEFINE AX == A \o X
           AXB == AX \o B
<1>8. IsSequence(AX) /\ ToSet(AX) = ToSet(A) \union ToSet(X)
  BY <1>1, Joined, ToSetJoined
<1>9. InOrder(AX, now, more)
  <2>1. Across(ToSet(A), ToSet(X), now, more)
    BY <1>1, <1>3, <1>5
  <2> QED
    BY <1>1, <1>4, <2>1, InOrderJoined
<1> HIDE DEF AX
<1>10. IsSequence(AXB) /\ ToSet(AXB) = ToSet(A) \union ToSet(X) \union ToSet(B)
  <2>1. IsSequence(AXB) /\ ToSet(AXB) = ToSet(AX) \union ToSet(B)
    BY <1>8, Joined, ToSetJoined
  <2> QED
    BY <1>8, <2>1
<1>11. InOrder(AXB, now, more)
  <2>1. Across(ToSet(AX), ToSet(B), now, more)
    BY <1>4, <1>6, <1>8 DEF Across
  <2> QED
    BY <1>4, <1>8, <1>9, <2>1, InOrderJoined
<1> HIDE DEF AXB
<1>12. InOrder(AXB \o Y, now, more)
  <2>1. Across(ToSet(A), ToSet(Y), now, more) /\ Across(ToSet(B), ToSet(Y), now, more)
    BY <1>1, <1>3, <1>5
  <2>2. Across(ToSet(AXB), ToSet(Y), now, more)
    BY <1>7, <1>10, <2>1 DEF Across
  <2> QED
    BY <1>1, <1>10, <1>11, <2>2, InOrderJoined
<1>13. ToSet(AXB \o Y) = ToSet(A \o B) \union ToSet(X) \union ToSet(Y)
  <2>1. ToSet(AXB \o Y) = ToSet(AXB) \union ToSet(Y)
    BY <1>1, <1>10, ToSetJoined
  <2> QED
    BY <1>2, <1>10, <2>1
<1>14. Below(ToSet(AXB \o Y), place + 1)
  <2>1. ASSUME NEW a \in ToSet(AXB \o Y) PROVE a.item \in 1 .. (place + 1) - 1
    <3>1. CASE a \in ToSet(A \o B)
      <4>1. a.item \in 1 .. place - 1
        BY <3>1 DEF Below
      <4> QED
        BY <4>1
    <3>2. CASE a \in ToSet(X) \union ToSet(Y)
      <4>1. a.item = place
        BY <1>1, <3>2
      <4> QED
        BY <4>1
    <3> QED
      BY <1>13, <3>1, <3>2
  <2> QED
    BY <2>1 DEF Below
<1> QED
  BY <1>12, <1>13, <1>14 DEF AXB, AX, InsertedWell
-----------------------------------------------------------------------------
(* What an item is told as.                                                *)

PendingParts(p) == p.reasoning \o p.text \o CallParts(p.calls)

AsOf(X, Y) == {a.as : a \in ToSet(X) \union ToSet(Y)}

LEMMA AsOfParts ==
  ASSUME NEW place, NEW one, NEW two
  PROVE  LET x == <<Part(place, one)>> y == <<Part(place, two)>>
         IN  /\ AsOf(<<>>, <<>>) = {} /\ AsOf(x, <<>>) = {one} /\ AsOf(<<>>, y) = {two} /\ AsOf(x, y) = {one, two}
             /\ Few(x, place) /\ Few(y, place) /\ Few(<<>>, place)
             /\ x = y => one = two
<1> DEFINE a == Part(place, one)
           b == Part(place, two)
<1>1. a.as = one /\ b.as = two
  BY DEF Part
<1>2. Few(<<a>>, place) /\ Few(<<b>>, place) /\ Few(<<>>, place)
  BY DEF Few
<1>3. <<a>> = <<b>> => a = b
  OBVIOUS
<1> HIDE DEF a, b
<1>4. ToSet(<<>>) = {} /\ ToSet(<<a>>) = {a} /\ ToSet(<<b>>) = {b}
  BY ToSetNoneAndOne
<1>5. /\ AsOf(<<>>, <<>>) = {} /\ AsOf(<<a>>, <<>>) = {one} /\ AsOf(<<>>, <<b>>) = {two}
      /\ AsOf(<<a>>, <<b>>) = {one, two}
  BY <1>1, <1>4 DEF AsOf
<1> QED
  BY <1>1, <1>2, <1>3, <1>5 DEF a, b

LEMMA CallPartsAppended ==
  ASSUME NEW calls, IsSequence(calls), NEW call
  PROVE  CallParts(Append(calls, call)) = CallParts(calls) \o <<Part(call.item, "call")>>
<1> DEFINE n == Len(calls)
           more == Append(calls, call)
           last == <<Part(call.item, "call")>>
           before == CallParts(calls)
           after == CallParts(more)
<1>1. /\ IsSequence(more) /\ n \in Nat /\ Len(more) = n + 1 /\ DOMAIN calls = 1 .. n /\ DOMAIN more = 1 .. n + 1
      /\ more[n + 1] = call /\ \A i \in 1 .. n : more[i] = calls[i]
  BY AppendedToAny
<1>2. IsSequence(last) /\ Len(last) = 1 /\ DOMAIN last = {1} /\ last[1] = Part(call.item, "call")
  BY NoneAndOne
<1> HIDE DEF more, n, last
<1>3. /\ IsSequence(before) /\ DOMAIN before = DOMAIN calls
      /\ \A c \in DOMAIN calls : before[c] = Part(calls[c].item, "call")
  BY CallPartsOf
<1>4. /\ IsSequence(after) /\ DOMAIN after = DOMAIN more
      /\ \A c \in DOMAIN more : after[c] = Part(more[c].item, "call")
  BY <1>1, CallPartsOf
<1> HIDE DEF before, after
<1>5. Len(before) = n /\ Len(before) \in Nat
  <2>1. Len(before) \in Nat /\ DOMAIN before = 1 .. Len(before)
    BY <1>3, AppendedToAny
  <2> QED
    BY <1>1, <1>3, <2>1
<1> DEFINE both == before \o last
<1>6. /\ IsSequence(both) /\ DOMAIN both = 1 .. n + 1
      /\ \A i \in 1 .. n : both[i] = before[i]
      /\ both[n + 1] = last[1]
  <2>1. /\ IsSequence(both) /\ DOMAIN both = 1 .. Len(before) + Len(last)
        /\ \A i \in DOMAIN before : both[i] = before[i]
        /\ \A i \in DOMAIN last : both[Len(before) + i] = last[i]
    BY <1>2, <1>3, Joined
  <2> HIDE DEF both
  <2> QED
    BY <1>1, <1>2, <1>3, <1>5, <2>1
<1> HIDE DEF both
<1>7. \A i \in 1 .. n + 1 : both[i] = after[i]
  <2>1. \A i \in 1 .. n + 1 : i \in 1 .. n \/ i = n + 1
    BY <1>1
  <2> QED
    BY <1>1, <1>2, <1>3, <1>4, <1>6, <2>1
<1>8. both = after
  BY <1>1, <1>4, <1>6, <1>7, SameSequence
<1> QED
  BY <1>8 DEF both, after, before, last, more
-----------------------------------------------------------------------------
(* The parts of what goes out.                                             *)

LEMMA PartsFrom ==
  ASSUME NEW out, AllParted(out), NEW a \in ToSet(Parts(out))
  PROVE  \E m \in DOMAIN out : a \in ToSet(PartsOf(out[m]))
<1> DEFINE n == Len(out)
           from(S) == \A b \in S : \E m \in DOMAIN out : b \in ToSet(PartsOf(out[m]))
<1>1. n \in Nat /\ DOMAIN out = 1 .. n
  BY AppendedToAny DEF AllParted
<1>2. PICK so : PartsUpTo(so, out, n) /\ so[n] = Parts(out)
  BY <1>1, PartsSteps
<1>3. \A m \in 0 .. n : IsSequence(so[m])
  <2>1. n \in 0 .. Len(out)
    BY <1>1
  <2> QED
    BY <1>2, <2>1, PartsSequence
<1> HIDE DEF n
<1> DEFINE T == {m \in 0 .. n : from(ToSet(so[m]))}
<1>4. 0 \in T
  BY <1>1, <1>2, ToSetNoneAndOne DEF PartsUpTo
<1>5. ASSUME NEW m \in 0 .. n - 1, m \in T PROVE m + 1 \in T
  <2>1. m + 1 \in 1 .. n /\ (m + 1) - 1 = m /\ m + 1 \in 0 .. n /\ m \in 0 .. n /\ m + 1 \in DOMAIN out
    BY <1>1
  <2>2. so[m + 1] = so[m] \o PartsOf(out[m + 1])
    BY <1>2, <2>1 DEF PartsUpTo
  <2>3. IsSequence(PartsOf(out[m + 1])) /\ IsSequence(so[m])
    BY <1>3, <2>1, PartsOfMessage DEF AllParted
  <2>4. ToSet(so[m + 1]) = ToSet(so[m]) \union ToSet(PartsOf(out[m + 1]))
    BY <2>2, <2>3, ToSetJoined
  <2>5. from(ToSet(so[m])) /\ from(ToSet(PartsOf(out[m + 1])))
    BY <1>5, <2>1
  <2>6. from(ToSet(so[m + 1]))
    BY <2>4, <2>5
  <2> HIDE DEF from
  <2> QED
    BY <2>1, <2>6
<1> HIDE DEF T
<1>6. n \in T
  <2>1. 0 .. n \subseteq T
    BY <1>1, <1>4, <1>5, Induction
  <2> QED
    BY <1>1, <2>1
<1> QED
  BY <1>2, <1>6 DEF T

(* A message that calls nothing has no parts but its own.                  *)
LEMMA PartsUncalled ==
  ASSUME NEW m, IsSequence(m.parts), m.calls = <<>>
  PROVE  Parted(m) /\ AllParted(<<m>>) /\ Parts(<<m>>) = m.parts /\ PartsOf(m) = m.parts
<1>1. Parted(m)
  BY NoneAndOne DEF Parted
<1>2. CallParts(m.calls) = <<>>
  <2>1. IsSequence(CallParts(<<>>)) /\ DOMAIN CallParts(<<>>) = {}
    BY CallPartsOf, NoneAndOne
  <2> QED
    BY <2>1, NoneAndOne, SameSequence
<1>3. PartsOf(m) = m.parts
  BY <1>1, <1>2, PartsOfMessage, NoneAndOne
<1>4. AllParted(<<m>>)
  BY <1>1, NoneAndOne DEF AllParted
<1> QED
  BY <1>1, <1>3, <1>4, PartsNoneAndOne

LEMMA AllPartedNone == AllParted(<<>>) /\ Parts(<<>>) = <<>>
BY NoneAndOne, PartsNoneAndOne DEF AllParted

(* What is pending: sequences, and results that tell of searches.          *)
Pended(p) ==
  /\ Whole(p) /\ IsSequence(p.reasoning) /\ IsSequence(p.text) /\ IsSequence(p.calls)
  /\ AllParted(p.results)

LEMMA FlushedParts ==
  ASSUME NEW p, Pended(p)
  PROVE  /\ AllParted(Flush(p)) /\ IsSequence(PendingParts(p))
         /\ Parts(Flush(p)) = PendingParts(p) \o Parts(p.results)
<1> DEFINE head == Head1(p)
           own == p.reasoning \o p.text
<1>1. IsSequence(own)
  BY Joined DEF Pended
<1>2. head.parts = own /\ head.calls = p.calls
  BY DEF Head1, Message
<1>3. Parted(head)
  BY <1>1, <1>2 DEF Parted, Pended
<1>4. PartsOf(head) = own \o CallParts(p.calls) /\ IsSequence(PartsOf(head))
  BY <1>2, <1>3, PartsOfMessage
<1>5. PendingParts(p) = PartsOf(head)
  BY <1>4 DEF PendingParts
<1>6. /\ p = Nothing => Flush(p) = <<>>
      /\ p # Nothing => Flush(p) = <<head>> \o p.results
  BY FlushParts
<1> HIDE DEF head, own
<1>7. AllParted(<<head>>) /\ Parts(<<head>>) = PartsOf(head)
  BY <1>3, PartsNoneAndOne, NoneAndOne DEF AllParted
<1>8. AllParted(p.results)
  BY DEF Pended
<1>9. CASE p # Nothing
  BY <1>4, <1>5, <1>6, <1>7, <1>8, <1>9, AllPartedJoined, PartsJoined
<1>10. CASE p = Nothing
  <2>1. CallParts(<<>>) = <<>>
    <3>1. IsSequence(CallParts(<<>>)) /\ DOMAIN CallParts(<<>>) = {}
      BY CallPartsOf, NoneAndOne
    <3> QED
      BY <3>1, NoneAndOne, SameSequence
  <2>2. PendingParts(p) = <<>> /\ p.results = <<>>
    BY <1>10, <2>1, NothingWhole, NoneAndOne DEF PendingParts
  <2> QED
    BY <1>6, <1>10, <2>2, AllPartedNone, NoneAndOne
<1> QED
  BY <1>9, <1>10

LEMMA NothingPended == Pended(Nothing) /\ PendingParts(Nothing) = <<>> /\ Parts(Nothing.results) = <<>>
<1>1. CallParts(<<>>) = <<>>
  <2>1. IsSequence(CallParts(<<>>)) /\ DOMAIN CallParts(<<>>) = {}
    BY CallPartsOf, NoneAndOne
  <2> QED
    BY <2>1, NoneAndOne, SameSequence
<1>2. PendingParts(Nothing) = <<>>
  BY <1>1, NothingWhole, NoneAndOne DEF PendingParts
<1>3. Pended(Nothing)
  BY NothingWhole, NoneAndOne, AllPartedNone DEF Pended
<1> QED
  BY <1>2, <1>3, NothingWhole, AllPartedNone

(* The parts of messages, of what is pending and of images, in that order. *)
InPieces(told, p, last) ==
  /\ IsSequence(Parts(told)) /\ IsSequence(PendingParts(p))
  /\ IsSequence(Parts(p.results)) /\ IsSequence(Parts(last))
  /\ AllParted(told \o Flush(p)) /\ AllParted(told \o Flush(p) \o last)
  /\ Parts(told \o Flush(p)) = Parts(told) \o PendingParts(p) \o Parts(p.results)
  /\ Parts(told \o Flush(p) \o last) =
       Parts(told) \o PendingParts(p) \o Parts(p.results) \o Parts(last)

LEMMA OutParts ==
  ASSUME NEW told, NEW p, NEW last, AllParted(told), Pended(p), AllParted(last)
  PROVE  InPieces(told, p, last)
<1> DEFINE f == Flush(p)
           P1 == Parts(told)
           P2 == PendingParts(p)
           P3 == Parts(p.results)
<1>1. AllParted(f) /\ IsSequence(P2) /\ Parts(f) = P2 \o P3
  BY FlushedParts
<1>2. IsSequence(P1) /\ IsSequence(P3) /\ IsSequence(Parts(last))
  BY PartsJoined DEF Pended
<1> HIDE DEF f
<1>3. AllParted(told \o f) /\ Parts(told \o f) = P1 \o Parts(f)
  BY <1>1, AllPartedJoined, PartsJoined
<1>4. P1 \o (P2 \o P3) = (P1 \o P2) \o P3
  BY <1>1, <1>2, JoinedThree
<1>5. AllParted(told \o f \o last) /\ Parts(told \o f \o last) = Parts(told \o f) \o Parts(last)
  BY <1>3, AllPartedJoined, PartsJoined
<1> HIDE DEF P1, P2, P3
<1>6. Parts(told \o f) = P1 \o P2 \o P3
  BY <1>1, <1>3, <1>4
<1>7. Parts(told \o f \o last) = P1 \o P2 \o P3 \o Parts(last)
  BY <1>5, <1>6
<1> QED
  BY <1>1, <1>2, <1>3, <1>5, <1>6, <1>7 DEF InPieces, f, P1, P2, P3
-----------------------------------------------------------------------------
(* The parts an item adds, and where.                                      *)

(* The parts of what waits are those of searches that are called and of    *)
(* images.                                                                 *)
Waits(told, p, last, read) ==
  /\ AllParted(told) /\ IsSequence(p.reasoning) /\ IsSequence(p.text)
  /\ \A r \in DOMAIN p.results : \E k \in DOMAIN read :
       /\ p.results[r].parts = <<Part(k, "output")>>
       /\ read[k].kind = "web_search" /\ \E c \in DOMAIN p.calls : p.calls[c].item = k
  /\ \A i \in DOMAIN last : \E k : last[i].parts = <<Part(k, "image")>>

PartsPending == Waits(messages, pending, images, history)

Queued(p, last) ==
  /\ Whole(p) /\ IsSequence(p.calls) /\ IsSequence(p.results) /\ IsSequence(last)
  /\ \A r \in DOMAIN p.results : p.results[r].calls = <<>>
  /\ \A i \in DOMAIN last : last[i].calls = <<>>
  /\ last # <<>> => p = Nothing

AllDeclared == pc # "tools" => \A tool \in ToSet(request.tools) : Named(tool) \in DOMAIN names.byKey

(* With the pending message, and what follows it.                          *)
TellsOn(item, X, Y) ==
  /\ messages' = Said /\ images' = <<>>
  /\ PendingParts(pending') = PendingParts(pending) \o X
  /\ \/ Y = <<>> /\ pending'.results = pending.results
     \/ /\ Y = <<Part(Place, "output")>> /\ item.kind = "web_search" /\ pending'.calls # pending.calls
        /\ \E id, name : pending'.results = Append(pending.results, ToolMessage(Place, id, name))
  /\ \/ pending'.calls = pending.calls /\ (X = <<>> \/ pending.results = <<>>)
     \/ X = <<Part(Place, "call")>> /\ \E call : Adds(call) /\ call.item = Place

(* Behind it, as messages or as what is pending next.                      *)
TellsBehind(X, Y) ==
  /\ \E own : messages' = Said \o Flush(pending) \o own /\ AllParted(own) /\ Parts(own) = X
  /\ images' = <<>>
  /\ PendingParts(pending') = Y /\ pending'.calls = <<>> /\ pending'.results = <<>>
  /\ X = <<>> \/ Y = <<>>

(* Before the images, and with one of its own.                             *)
TellsOutput(item, X, Y) ==
  /\ item.kind = "output" /\ pending' = Nothing
  /\ \E own : messages' = messages \o Flush(pending) \o own /\ AllParted(own) /\ Parts(own) = X
  /\ \/ Y = <<>> /\ images' = images
     \/ Y = <<Part(Place, "image")>> /\ images' = Append(images, ImageMessage(Place))

TellsAs(item, X, Y) ==
  /\ Few(X, Place) /\ Few(Y, Place) /\ (X = <<>> \/ X # Y)
  /\ AsOf(X, Y) \in Forms(request, item)
  /\ Whole(pending') /\ IsSequence(pending'.reasoning) /\ IsSequence(pending'.text)
  /\ TellsOn(item, X, Y) \/ TellsBehind(X, Y) \/ TellsOutput(item, X, Y)

LEMMA WaitingPended ==
  ASSUME NEW told, NEW p, NEW last, NEW read, Waits(told, p, last, read), Queued(p, last)
  PROVE  Pended(p) /\ AllParted(last) /\ AllParted(told)
<1>1. \A m : IsSequence(m.parts) /\ m.calls = <<>> => Parted(m)
  BY PartsUncalled
<1>2. \A x : IsSequence(<<x>>)
  BY NoneAndOne
<1>3. \A r \in DOMAIN p.results : Parted(p.results[r])
  BY <1>1, <1>2 DEF Queued, Waits
<1>4. \A i \in DOMAIN last : Parted(last[i])
  BY <1>1, <1>2 DEF Queued, Waits
<1>5. AllParted(p.results) /\ AllParted(last)
  BY <1>3, <1>4 DEF AllParted, Queued
<1> QED
  BY <1>5 DEF Pended, Waits, Queued

LEMMA PendingIsPended ==
  ASSUME Typed, PartsPending
  PROVE  Pended(pending) /\ AllParted(images) /\ AllParted(messages) /\ Queued(pending, images)
<1>1. Queued(pending, images)
  BY DEF Typed, Queued, Whole, WellTold
<1> QED
  BY <1>1, WaitingPended DEF PartsPending

LEMMA OneMessageParts ==
  ASSUME NEW m, Few(m.parts, Place), m.calls = <<>>
  PROVE  AllParted(<<m>>) /\ Parts(<<m>>) = m.parts
<1>1. IsSequence(m.parts)
  BY FewParts
<1> QED
  BY <1>1, PartsUncalled

LEMMA MarkerParts == AllParted(<<MarkerMessage(Place)>>) /\ Parts(<<MarkerMessage(Place)>>) = <<Part(Place, "marker")>>
<1> DEFINE m == MarkerMessage(Place)
<1>1. m.parts = <<Part(Place, "marker")>> /\ m.calls = <<>>
  BY MessageFields DEF MarkerMessage
<1> HIDE DEF m
<1>2. Few(m.parts, Place)
  BY <1>1 DEF Few
<1>3. AllParted(<<m>>) /\ Parts(<<m>>) = m.parts
  BY <1>1, <1>2, OneMessageParts
<1> QED
  BY <1>1, <1>3 DEF m

(* An item that becomes messages of its own.                               *)
LEMMA SeparatelyTells ==
  ASSUME NEW item, NEW own, NEW X, Separately(own, Said), images' = <<>>,
         AllParted(own), Parts(own) = X, Few(X, Place), AsOf(X, <<>>) \in Forms(request, item)
  PROVE  \E Y : TellsAs(item, X, Y)
<1>1. messages' = Said \o Flush(pending) \o own /\ pending' = Nothing
  BY DEF Separately
<1>2. TellsBehind(X, <<>>)
  BY <1>1, NothingWhole, NothingPended DEF TellsBehind
<1>3. X = <<>> \/ X # <<>>
  OBVIOUS
<1>4. Few(<<>>, Place)
  BY DEF Few
<1>5. Whole(pending') /\ IsSequence(pending'.reasoning) /\ IsSequence(pending'.text)
  BY <1>1, NothingWhole, NoneAndOne
<1> QED
  BY <1>2, <1>3, <1>4, <1>5 DEF TellsAs

LEMMA UncalledPending ==
  ASSUME NEW p, IsSequence(p.reasoning), IsSequence(p.text), p.calls = <<>>
  PROVE  PendingParts(p) = p.reasoning \o p.text
<1>1. CallParts(<<>>) = <<>>
  <2>1. IsSequence(CallParts(<<>>)) /\ DOMAIN CallParts(<<>>) = {}
    BY CallPartsOf, NoneAndOne
  <2> QED
    BY <2>1, NoneAndOne, SameSequence
<1> DEFINE own == p.reasoning \o p.text
<1>2. IsSequence(own)
  BY Joined
<1>3. PendingParts(p) = own \o <<>>
  BY <1>1 DEF PendingParts
<1> HIDE DEF own
<1>4. PendingParts(p) = own
  BY <1>2, <1>3, NoneAndOne
<1> QED
  BY <1>4 DEF own

LEMMA OpenParts ==
  ASSUME Typed, PartsPending, NEW part, IsSequence(part)
  PROVE  LET told == [Open EXCEPT !.text = part]
             thought == [Open EXCEPT !.reasoning = @ \o part]
         IN  \A m \in {told, thought} :
               /\ Whole(m) /\ m.calls = <<>> /\ m.results = <<>>
               /\ IsSequence(m.reasoning) /\ IsSequence(m.text)
               /\ SplitBefore(pending) => PendingParts(m) = part
               /\ ~SplitBefore(pending) =>
                    /\ PendingParts(m) = PendingParts(pending) \o part
                    /\ pending.calls = <<>> /\ pending.results = <<>>
<1> DEFINE o == Open
<1>1. /\ Whole(o) /\ o.calls = <<>> /\ o.results = <<>> /\ o.text = <<>>
      /\ IsSequence(o.reasoning)
      /\ SplitBefore(pending) => o.reasoning = <<>>
      /\ ~SplitBefore(pending) => o = pending
  <2>1. CASE SplitBefore(pending)
    BY <2>1, NothingWhole, NoneAndOne DEF Open
  <2>2. CASE ~SplitBefore(pending)
    BY <2>2, OpenWhole DEF Open, SplitBefore, PartsPending, Waits
  <2> QED
    BY <2>1, <2>2
<1> HIDE DEF o
<1> DEFINE both == o.reasoning \o part
<1>4. IsSequence(both) /\ IsSequence(<<>>)
  BY <1>1, Joined, NoneAndOne
<1> HIDE DEF both
<1> DEFINE told == [o EXCEPT !.text = part]
           thought == [o EXCEPT !.reasoning = both]
<1>2. /\ Whole(told) /\ told.calls = <<>> /\ told.results = <<>>
      /\ told.reasoning = o.reasoning /\ told.text = part
  BY <1>1 DEF Whole
<1>3. /\ Whole(thought) /\ thought.calls = <<>> /\ thought.results = <<>>
      /\ thought.reasoning = both /\ thought.text = <<>>
  BY <1>1 DEF Whole
<1> HIDE DEF told, thought
<1>5. PendingParts(told) = both /\ PendingParts(thought) = both
  <2>1. PendingParts(told) = both
    BY <1>1, <1>2, UncalledPending DEF both
  <2>2. PendingParts(thought) = both \o <<>>
    BY <1>3, <1>4, UncalledPending
  <2> QED
    BY <1>4, <2>1, <2>2, NoneAndOne
<1>6. ~SplitBefore(pending) => PendingParts(pending) = o.reasoning /\ pending.calls = <<>> /\ pending.results = <<>>
  <2>1. PendingParts(o) = o.reasoning \o o.text
    BY <1>1, <1>4, UncalledPending
  <2>2. o.reasoning \o <<>> = o.reasoning
    BY <1>1, NoneAndOne
  <2> QED
    BY <1>1, <2>1, <2>2
<1>7. /\ SplitBefore(pending) => both = part
      /\ ~SplitBefore(pending) => both = PendingParts(pending) \o part
  BY <1>1, <1>6, NoneAndOne DEF both
<1>8. \A m \in {told, thought} :
               /\ Whole(m) /\ m.calls = <<>> /\ m.results = <<>>
               /\ IsSequence(m.reasoning) /\ IsSequence(m.text)
               /\ SplitBefore(pending) => PendingParts(m) = part
               /\ ~SplitBefore(pending) =>
                    /\ PendingParts(m) = PendingParts(pending) \o part
                    /\ pending.calls = <<>> /\ pending.results = <<>>
  BY <1>1, <1>2, <1>3, <1>4, <1>5, <1>6, <1>7
<1> QED
  BY <1>8 DEF told, thought, both, o

LEMMA MergeTells ==
  ASSUME Typed, PartsPending, NEW item, NEW part, NEW m, Merge(m), images' = <<>>,
         m \in {[Open EXCEPT !.text = part], [Open EXCEPT !.reasoning = @ \o part]},
         Few(part, Place), AsOf(part, <<>>) \in Forms(request, item)
  PROVE  \E X, Y : TellsAs(item, X, Y)
<1>1. IsSequence(part)
  BY FewParts
<1>2. /\ Whole(m) /\ m.calls = <<>> /\ m.results = <<>>
      /\ IsSequence(m.reasoning) /\ IsSequence(m.text)
      /\ SplitBefore(pending) => PendingParts(m) = part
      /\ ~SplitBefore(pending) =>
           /\ PendingParts(m) = PendingParts(pending) \o part
           /\ pending.calls = <<>> /\ pending.results = <<>>
  BY <1>1, OpenParts
<1>3. pending' = m /\ messages' = IF SplitBefore(pending) THEN Said \o Flush(pending) ELSE Said
  BY DEF Merge
<1>4. Few(<<>>, Place) /\ AsOf(<<>>, part) \in Forms(request, item)
  BY DEF Few, AsOf
<1>5. CASE SplitBefore(pending)
  <2>1. IsSequence(Said \o Flush(pending))
    <3>1. AllParted(messages) /\ AllParted(images) /\ AllParted(Flush(pending))
      BY PendingIsPended, FlushedParts
    <3>2. AllParted(Said)
      BY <3>1, AllPartedJoined DEF Said
    <3>3. AllParted(Said \o Flush(pending))
      BY <3>1, <3>2, AllPartedJoined
    <3> QED
      BY <3>3 DEF AllParted
  <2>2. messages' = Said \o Flush(pending) \o <<>>
    BY <1>3, <1>5, <2>1, NoneAndOne
  <2>3. AllParted(<<>>) /\ Parts(<<>>) = <<>>
    BY AllPartedNone
  <2>4. TellsBehind(<<>>, part)
    BY <1>2, <1>3, <1>5, <2>2, <2>3 DEF TellsBehind
  <2>5. TellsAs(item, <<>>, part)
    BY <1>2, <1>3, <1>4, <2>4 DEF TellsAs
  <2> QED
    BY <2>5
<1>6. CASE ~SplitBefore(pending)
  <2>1. TellsOn(item, part, <<>>)
    BY <1>2, <1>3, <1>6 DEF TellsOn
  <2>2. TellsAs(item, part, <<>>)
    BY <1>2, <1>3, <1>4, <2>1 DEF TellsAs
  <2> QED
    BY <2>2
<1> QED
  BY <1>5, <1>6
-----------------------------------------------------------------------------
(* Item by item.                                                           *)

(* A call is told after all that was pending.                              *)
LEMMA AddedCallParts ==
  ASSUME Typed, PartsPending, NEW call, NEW p,
         p.reasoning = pending.reasoning, p.text = pending.text, p.calls = Append(pending.calls, call)
  PROVE  PendingParts(p) = PendingParts(pending) \o <<Part(call.item, "call")>>
<1> DEFINE own == pending.reasoning \o pending.text
           calls == CallParts(pending.calls)
           last == <<Part(call.item, "call")>>
<1>1. IsSequence(own)
  BY Joined DEF PartsPending, Waits
<1>2. IsSequence(calls) /\ IsSequence(last)
  BY CallPartsOf, NoneAndOne DEF Typed
<1>3. CallParts(p.calls) = calls \o last
  BY CallPartsAppended DEF Typed
<1>4. PendingParts(pending) = own \o calls
  BY DEF PendingParts
<1>5. PendingParts(p) = own \o CallParts(p.calls)
  BY DEF PendingParts
<1> HIDE DEF own, calls, last
<1>6. own \o (calls \o last) = (own \o calls) \o last
  BY <1>1, <1>2, JoinedThree
<1>7. PendingParts(p) = PendingParts(pending) \o last
  BY <1>3, <1>4, <1>5, <1>6
<1> QED
  BY <1>7 DEF last

LEMMA MessageTells ==
  ASSUME Typed, PartsPending, NEW item \in request.items, ReadMessage(item)
  PROVE  \E X, Y : TellsAs(item, X, Y)
<1> DEFINE part == <<Part(Place, "text")>>
<1>1. item.kind = "message" /\ images' = <<>>
  BY DEF ReadMessage
<1>2. Few(part, Place) /\ AsOf(part, <<>>) = {"text"}
  BY AsOfParts
<1>3. {"text"} \in Forms(request, item)
  BY <1>1 DEF Forms
<1>4. CASE ReasoningSentBack /\ item.role = "assistant"
  <2>1. Merge([Open EXCEPT !.text = part])
    BY <1>4 DEF ReadMessage
  <2> HIDE DEF part
  <2> QED
    BY <1>1, <1>2, <1>3, <2>1, MergeTells
<1>5. CASE ~(ReasoningSentBack /\ item.role = "assistant")
  <2> DEFINE m == Message(item.role, part)
  <2>1. Separately(<<m>>, Said)
    BY <1>5 DEF ReadMessage
  <2> HIDE DEF part
  <2>2. m.parts = part /\ m.calls = <<>>
    BY MessageFields
  <2> HIDE DEF m
  <2>3. AllParted(<<m>>) /\ Parts(<<m>>) = part
    BY <1>2, <2>2, OneMessageParts
  <2> QED
    BY <1>1, <1>2, <1>3, <2>1, <2>3, SeparatelyTells
<1> QED
  BY <1>4, <1>5

LEMMA ReasoningTells ==
  ASSUME Typed, PartsPending, NEW item \in request.items, ReadReasoning(item)
  PROVE  \E X, Y : TellsAs(item, X, Y)
<1> DEFINE part == IF item.readable THEN <<Part(Place, "reasoning")>> ELSE <<>>
<1>1. item.kind = "reasoning" /\ images' = <<>>
  BY DEF ReadReasoning
<1>2. /\ Few(part, Place) /\ Few(<<>>, Place)
      /\ AsOf(part, <<>>) = IF item.readable THEN {"reasoning"} ELSE {}
      /\ AsOf(<<>>, <<>>) = {}
  BY AsOfParts
<1>3. Forms(request, item) = {IF item.readable /\ request.mode # "drop" THEN {"reasoning"} ELSE {}}
  BY <1>1 DEF Forms
<1>4. request.mode \in {"drop", "assistant-content", "reasoning-content"}
  BY InboundAssumption DEF Typed, Modes
<1>5. CASE ReasoningSentBack
  <2>1. Merge([Open EXCEPT !.reasoning = @ \o part])
    BY <1>5 DEF ReadReasoning, ReasoningSentBack
  <2> HIDE DEF part
  <2>2. AsOf(part, <<>>) \in Forms(request, item)
    BY <1>2, <1>3, <1>5 DEF ReasoningSentBack
  <2> QED
    BY <1>1, <1>2, <2>1, <2>2, MergeTells
<1>6. CASE ~ReasoningSentBack /\ request.mode = "assistant-content" /\ item.readable
  <2> DEFINE m == Message("assistant", part)
  <2>1. Separately(<<m>>, Said)
    BY <1>6 DEF ReadReasoning
  <2> HIDE DEF part
  <2>2. m.parts = part /\ m.calls = <<>>
    BY MessageFields
  <2> HIDE DEF m
  <2>3. AllParted(<<m>>) /\ Parts(<<m>>) = part
    BY <1>2, <2>2, OneMessageParts
  <2>4. AsOf(part, <<>>) \in Forms(request, item)
    BY <1>2, <1>3, <1>6
  <2> QED
    BY <1>1, <1>2, <2>1, <2>3, <2>4, SeparatelyTells
<1>7. CASE ~ReasoningSentBack /\ ~(request.mode = "assistant-content" /\ item.readable)
  <2>1. Separately(<<>>, Said)
    BY <1>7 DEF ReadReasoning
  <2>2. AsOf(<<>>, <<>>) \in Forms(request, item)
    BY <1>2, <1>3, <1>4, <1>7 DEF ReasoningSentBack
  <2> QED
    BY <1>1, <1>2, <2>1, <2>2, AllPartedNone, SeparatelyTells
<1> QED
  BY <1>5, <1>6, <1>7

LEMMA CallTells ==
  ASSUME Typed, PartsPending, AllDeclared, pc # "tools", NEW item \in request.items, ReadCall(item)
  PROVE  \E X, Y : TellsAs(item, X, Y)
<1> DEFINE one == <<Part(Place, "call")>>
           two == <<Part(Place, "marker")>>
<1>1. item.kind = "call" /\ images' = <<>>
  BY DEF ReadCall
<1>2. /\ Few(one, Place) /\ Few(two, Place) /\ Few(<<>>, Place)
      /\ AsOf(one, <<>>) = {"call"} /\ AsOf(two, <<>>) = {"marker"}
  BY AsOfParts
<1>3. Forms(request, item) =
        IF Declared(request, item.tool) /\ item.valid THEN {{"call"}} ELSE {{"call"}, {"marker"}}
  BY <1>1 DEF Forms
<1>4. CASE Renderable(item)
  <2> DEFINE name == RenderedName(item.tool)
             call == Call(item.id, name)
  <2>1. messages' = Said /\ pending' = [pending EXCEPT !.calls = Append(@, call)]
    BY <1>4 DEF ReadCall
  <2>2. call.item = Place
    BY CallFields
  <2> HIDE DEF call, name
  <2>3. /\ Whole(pending') /\ pending'.reasoning = pending.reasoning /\ pending'.text = pending.text
        /\ pending'.results = pending.results /\ Adds(call)
    BY <2>1 DEF Typed, Whole, Adds
  <2>4. PendingParts(pending') = PendingParts(pending) \o one
    BY <2>2, <2>3, AddedCallParts DEF Adds
  <2>5. TellsOn(item, one, <<>>)
    BY <1>1, <2>1, <2>2, <2>3, <2>4 DEF TellsOn
  <2>6. TellsAs(item, one, <<>>)
    BY <1>2, <1>3, <2>3, <2>5 DEF TellsAs, PartsPending, Waits
  <2> QED
    BY <2>6
<1>5. CASE ~Renderable(item)
  <2>1. Separately(<<MarkerMessage(Place)>>, Said)
    BY <1>5 DEF ReadCall
  <2>2. ~(Declared(request, item.tool) /\ item.valid)
    <3> SUFFICES ASSUME Declared(request, item.tool), item.valid PROVE FALSE
      OBVIOUS
    <3>1. PICK other \in ToSet(request.tools) : Named(other) \in {item.tool, AsFunction(item.tool)}
      BY DEF Declared
    <3>2. Named(other) \in DOMAIN names.byKey
      BY <3>1 DEF AllDeclared
    <3> QED
      BY <1>5, <3>1, <3>2 DEF Renderable, HasRegisteredTool
  <2>3. AsOf(two, <<>>) \in Forms(request, item)
    BY <1>2, <1>3, <2>2
  <2> QED
    BY <1>1, <1>2, <2>1, <2>3, MarkerParts, SeparatelyTells
<1> QED
  BY <1>4, <1>5

LEMMA SearchTells ==
  ASSUME Typed, PartsPending, NEW item \in request.items, ReadSearch(item)
  PROVE  \E X, Y : TellsAs(item, X, Y)
<1> DEFINE name == HostedName("web_search")
           call == Call(item.id, name)
           one == <<Part(Place, "call")>>
           two == <<Part(Place, "output")>>
<1>1. item.kind = "web_search" /\ images' = <<>> /\ messages' = Said
  BY DEF ReadSearch
<1>2. /\ Few(one, Place) /\ Few(two, Place) /\ Few(<<>>, Place) /\ one # two
      /\ AsOf(one, two) = {"call", "output"} /\ AsOf(<<>>, <<>>) = {}
  <2>1. "call" # "output"
    OBVIOUS
  <2> QED
    BY <2>1, AsOfParts
<1>3. Forms(request, item) = {IF item.cached THEN {"call", "output"} ELSE {}}
  BY <1>1 DEF Forms
<1>4. CASE ~item.cached
  <2>1. pending' = pending
    BY <1>4 DEF ReadSearch
  <2>2. PendingParts(pending) \o <<>> = PendingParts(pending)
    BY PendingIsPended, FlushedParts, NoneAndOne
  <2>3. TellsOn(item, <<>>, <<>>)
    BY <1>1, <2>1, <2>2 DEF TellsOn
  <2>4. TellsAs(item, <<>>, <<>>)
    BY <1>2, <1>3, <1>4, <2>1, <2>3 DEF TellsAs, PartsPending, Waits, Typed, Whole
  <2> QED
    BY <2>4
<1>5. CASE item.cached
  <2>1. pending' = [pending EXCEPT !.calls = Append(@, call), !.results = Append(@, ToolMessage(Place, item.id, name))]
    BY <1>5 DEF ReadSearch
  <2>2. call.item = Place
    BY CallFields
  <2> HIDE DEF call, name
  <2>3. /\ Whole(pending') /\ pending'.reasoning = pending.reasoning /\ pending'.text = pending.text
        /\ pending'.results = Append(pending.results, ToolMessage(Place, item.id, name)) /\ Adds(call)
    BY <2>1 DEF Typed, Whole, Adds
  <2>4. PendingParts(pending') = PendingParts(pending) \o one
    BY <2>2, <2>3, AddedCallParts DEF Adds
  <2>5. pending'.calls # pending.calls
    <3>1. Len(pending'.calls) = Len(pending.calls) + 1 /\ Len(pending.calls) \in Nat
      BY <2>3, AppendedToAny DEF Adds, Typed
    <3> QED
      BY <3>1
  <2>6. TellsOn(item, one, two)
    BY <1>1, <2>2, <2>3, <2>4, <2>5 DEF TellsOn
  <2>7. TellsAs(item, one, two)
    BY <1>2, <1>3, <1>5, <2>3, <2>6 DEF TellsAs, PartsPending, Waits
  <2> QED
    BY <2>7
<1> QED
  BY <1>4, <1>5

(* An output is told as it is, or as a marker.                             *)
LEMMA OutputMessageParts ==
  ASSUME NEW item
  PROVE  LET own == <<OutputMessage(item)>>
             as == IF Answers(item) THEN "output" ELSE "marker"
         IN  AllParted(own) /\ Parts(own) = <<Part(Place, as)>>
<1>1. CASE Answers(item)
  <2> DEFINE m == ToolMessage(Place, item.id, rendered[item.id])
  <2>1. OutputMessage(item) = m
    BY <1>1 DEF OutputMessage
  <2>2. m.parts = <<Part(Place, "output")>> /\ m.calls = <<>>
    BY DEF ToolMessage, Message
  <2> HIDE DEF m
  <2>3. Few(m.parts, Place)
    BY <2>2 DEF Few
  <2>4. AllParted(<<m>>) /\ Parts(<<m>>) = m.parts
    BY <2>2, <2>3, OneMessageParts
  <2> QED
    BY <1>1, <2>1, <2>2, <2>4
<1>2. CASE ~Answers(item)
  BY <1>2, MarkerParts DEF OutputMessage
<1> QED
  BY <1>1, <1>2

LEMMA OutputTells ==
  ASSUME Typed, PartsPending, NEW item \in request.items, ReadOutput(item)
  PROVE  \E X, Y : TellsAs(item, X, Y)
<1> DEFINE as == IF Answers(item) THEN "output" ELSE "marker"
           own == <<OutputMessage(item)>>
           one == <<Part(Place, as)>>
           two == <<Part(Place, "image")>>
           bears == Answers(item) /\ item.image
           more == IF bears THEN two ELSE <<>>
<1>1. /\ item.kind = "output" /\ messages' = messages \o Flush(pending) \o own /\ pending' = Nothing
      /\ images' = IF bears THEN Append(images, ImageMessage(Place)) ELSE images
  BY DEF ReadOutput, Separately
<1>2. AllParted(own) /\ Parts(own) = one
  BY OutputMessageParts
<1>3. /\ Few(one, Place) /\ Few(more, Place) /\ one # more
      /\ AsOf(one, more) = IF bears THEN {as, "image"} ELSE {as}
  <2>1. as # "image"
    OBVIOUS
  <2>2. one # <<>>
    BY NoneAndOne
  <2> HIDE DEF as
  <2>3. /\ Few(one, Place) /\ Few(two, Place) /\ Few(<<>>, Place)
        /\ AsOf(one, <<>>) = {as} /\ AsOf(one, two) = {as, "image"} /\ (one = two => as = "image")
    <3>1. \A a : LET x == <<Part(Place, a)>>
                 IN  /\ Few(x, Place) /\ Few(two, Place) /\ Few(<<>>, Place)
                     /\ AsOf(x, <<>>) = {a} /\ AsOf(x, two) = {a, "image"} /\ (x = two => a = "image")
      BY AsOfParts
    <3> HIDE DEF two
    <3> QED
      BY <3>1
  <2> HIDE DEF one, two, bears
  <2> QED
    BY <2>1, <2>2, <2>3
<1>4. AsOf(one, more) \in Forms(request, item)
  <2>1. Forms(request, item) = {IF item.image THEN {"output", "image"} ELSE {"output"}, {"marker"}}
    BY <1>1 DEF Forms
  <2> QED
    BY <1>3, <2>1
<1> HIDE DEF own, one, bears
<1>5. TellsOutput(item, one, more)
  BY <1>1, <1>2 DEF TellsOutput
<1>6. Whole(pending') /\ IsSequence(pending'.reasoning) /\ IsSequence(pending'.text)
  BY <1>1, NothingWhole, NoneAndOne
<1> HIDE DEF more
<1>7. TellsAs(item, one, more)
  BY <1>3, <1>4, <1>5, <1>6 DEF TellsAs
<1> QED
  BY <1>7

LEMMA ReadTells ==
  ASSUME Typed, PartsPending, AllDeclared, pc # "tools", ReadItem
  PROVE  \E item \in request.items : ReadsAs(item) /\ \E X, Y : TellsAs(item, X, Y)
<1>1. PICK item \in request.items : ReadsAs(item)
  BY ReadShape
<1>2. \/ ReadMessage(item) \/ ReadReasoning(item) \/ ReadCall(item) \/ ReadSearch(item)
      \/ ReadOutput(item) \/ ReadToolSearchOutput(item) \/ ReadOther(item)
  BY <1>1, ItemIsRead DEF ReadsAs
<1>3. CASE ReadToolSearchOutput(item)
  <2> DEFINE as == IF Answers(item) THEN "output" ELSE "marker"
             own == <<OutputMessage(item)>>
             one == <<Part(Place, as)>>
  <2>1. item.kind = "tool_search_output" /\ Separately(own, Said) /\ images' = <<>>
    BY <1>3 DEF ReadToolSearchOutput
  <2>2. AllParted(own) /\ Parts(own) = one
    BY OutputMessageParts
  <2> HIDE DEF own
  <2>3. Few(one, Place) /\ AsOf(one, <<>>) = {as}
    BY AsOfParts
  <2>4. AsOf(one, <<>>) \in Forms(request, item)
    BY <2>1, <2>3 DEF Forms
  <2> HIDE DEF one
  <2>5. \E Y : TellsAs(item, one, Y)
    BY <2>1, <2>2, <2>3, <2>4, SeparatelyTells
  <2> QED
    BY <1>1, <2>5
<1>4. CASE ReadOther(item)
  <2> DEFINE one == <<Part(Place, "marker")>>
  <2>1. item.kind = "other" /\ Separately(<<MarkerMessage(Place)>>, Said) /\ images' = <<>>
    BY <1>4 DEF ReadOther
  <2>2. Few(one, Place) /\ AsOf(one, <<>>) = {"marker"}
    BY AsOfParts
  <2>3. AsOf(one, <<>>) \in Forms(request, item)
    BY <2>1, <2>2 DEF Forms
  <2>4. \E Y : TellsAs(item, one, Y)
    BY <2>1, <2>2, <2>3, MarkerParts, SeparatelyTells
  <2> QED
    BY <1>1, <2>4
<1> QED
  BY <1>1, <1>2, <1>3, <1>4, MessageTells, ReasoningTells, CallTells, SearchTells, OutputTells
-----------------------------------------------------------------------------
(* Where the parts of an item go among those of the items before it.       *)

(* Images wait alone, so their parts come last or before what is pending.  *)
LEMMA ImagesAlone ==
  ASSUME Typed, PartsPending
  PROVE  LET P1 == Parts(messages)
             P2 == PendingParts(pending)
             P3 == Parts(pending.results)
             P4 == Parts(images)
         IN  /\ IsSequence(P1) /\ IsSequence(P2) /\ IsSequence(P3) /\ IsSequence(P4)
             /\ Parts(Outgoing) = P1 \o P2 \o P3 \o P4
             /\ Parts(Outgoing) = (P1 \o P4) \o P2 \o P3
             /\ AllParted(Said) /\ Parts(Said) = P1 \o P4 /\ AllParted(Outgoing)
             /\ AllParted(messages \o Flush(pending)) /\ Parts(messages \o Flush(pending)) = P1 \o P2 \o P3
             /\ AllParted(Said \o Flush(pending)) /\ Parts(Said \o Flush(pending)) = (P1 \o P4) \o P2 \o P3
<1> DEFINE P1 == Parts(messages)
           P2 == PendingParts(pending)
           P3 == Parts(pending.results)
           P4 == Parts(images)
           out == messages \o Flush(pending) \o images
<1>1. Pended(pending) /\ AllParted(images) /\ AllParted(messages) /\ (images # <<>> => pending = Nothing)
  BY PendingIsPended DEF Queued
<1>2. /\ IsSequence(P1) /\ IsSequence(P2) /\ IsSequence(P3) /\ IsSequence(P4)
      /\ AllParted(messages \o Flush(pending)) /\ AllParted(out)
      /\ Parts(messages \o Flush(pending)) = P1 \o P2 \o P3
      /\ Parts(out) = P1 \o P2 \o P3 \o P4
  <2>1. InPieces(messages, pending, images)
    BY <1>1, OutParts
  <2> QED
    BY <2>1, Zenon DEF InPieces
<1> DEFINE so == messages \o images
<1>3. AllParted(so) /\ Parts(so) = P1 \o P4
  BY <1>1, AllPartedJoined, PartsJoined
<1> HIDE DEF so
<1>4. AllParted(so \o Flush(pending)) /\ Parts(so \o Flush(pending)) = Parts(so) \o P2 \o P3
  <2>1. InPieces(so, pending, images)
    BY <1>1, <1>3, OutParts
  <2> QED
    BY <2>1, Zenon DEF InPieces
<1>7. so = Said /\ out = Outgoing
  BY DEF so, Said, Outgoing
<1> HIDE DEF out
<1>5. P4 = <<>> \/ (P2 = <<>> /\ P3 = <<>>)
  <2>1. images = <<>> => P4 = <<>>
    BY AllPartedNone
  <2>2. pending = Nothing => P2 = <<>> /\ P3 = <<>>
    BY NothingPended
  <2> HIDE DEF P2, P3, P4
  <2> QED
    BY <1>1, <2>1, <2>2
<1> HIDE DEF P1, P2, P3, P4
<1>6. P1 \o P2 \o P3 \o P4 = (P1 \o P4) \o P2 \o P3
  <2>1. CASE P4 = <<>>
    <3>1. P1 \o P4 = P1
      BY <1>2, <2>1, NoneAndOne
    <3> DEFINE all == P1 \o P2 \o P3
    <3>2. IsSequence(all)
      <4>1. IsSequence(P1 \o P2)
        BY <1>2, Joined
      <4> QED
        BY <1>2, <4>1, Joined
    <3>3. (P1 \o P4) \o P2 \o P3 = all
      BY <3>1
    <3> HIDE DEF all
    <3>4. all \o P4 = all
      BY <2>1, <3>2, NoneAndOne
    <3> QED
      BY <3>3, <3>4 DEF all
  <2>2. CASE P2 = <<>> /\ P3 = <<>>
    <3>1. P1 \o P2 = P1 /\ P1 \o P3 = P1
      BY <1>2, <2>2, NoneAndOne
    <3> DEFINE all == P1 \o P4
    <3>2. IsSequence(all)
      BY <1>2, Joined
    <3>3. P1 \o P2 \o P3 \o P4 = all
      BY <3>1
    <3> HIDE DEF all
    <3>4. all \o P2 = all /\ all \o P3 = all
      BY <2>2, <3>2, NoneAndOne
    <3> QED
      BY <3>3, <3>4 DEF all
  <2> QED
    BY <1>5, <2>1, <2>2
<1>8. Parts(so \o Flush(pending)) = (P1 \o P4) \o P2 \o P3
  BY <1>3, <1>4, Zenon
<1> QED
  BY <1>2, <1>3, <1>4, <1>6, <1>7, <1>8, Zenon DEF P1, P2, P3, P4

LEMMA ReadWaits ==
  ASSUME Typed, PartsPending, NEW item, ReadsAs(item), NEW X, NEW Y, TellsAs(item, X, Y)
  PROVE  PartsPending'
<1>1. /\ AllParted(messages) /\ AllParted(images) /\ AllParted(Flush(pending)) /\ AllParted(Said)
      /\ AllParted(Said \o Flush(pending)) /\ AllParted(messages \o Flush(pending))
  BY PendingIsPended, ImagesAlone, FlushedParts
<1>2. IsSequence(pending'.reasoning) /\ IsSequence(pending'.text)
  BY DEF TellsAs
<1>3. AllParted(messages')
  <2>1. CASE TellsOn(item, X, Y)
    BY <1>1, <2>1 DEF TellsOn
  <2>2. CASE TellsBehind(X, Y)
    BY <1>1, <2>2, AllPartedJoined DEF TellsBehind
  <2>3. CASE TellsOutput(item, X, Y)
    BY <1>1, <2>3, AllPartedJoined DEF TellsOutput
  <2> QED
    BY <2>1, <2>2, <2>3 DEF TellsAs
<1>4. \A i \in DOMAIN images' : \E k : images'[i].parts = <<Part(k, "image")>>
  <2>1. CASE images' = <<>>
    BY <2>1, NoneAndOne
  <2>2. CASE images' = images
    BY <2>2 DEF PartsPending, Waits
  <2>3. CASE images' = Append(images, ImageMessage(Place))
    <3> DEFINE new == ImageMessage(Place)
    <3>1. new.parts = <<Part(Place, "image")>>
      BY MessageFields DEF ImageMessage
    <3> HIDE DEF new
    <3>2. /\ Len(images) \in Nat /\ DOMAIN images = 1 .. Len(images) /\ DOMAIN images' = 1 .. Len(images) + 1
          /\ images'[Len(images) + 1] = new /\ \A i \in 1 .. Len(images) : images'[i] = images[i]
      BY <1>1, <2>3, AppendedToAny DEF AllParted, new
    <3>3. \A i \in DOMAIN images' : i \in DOMAIN images \/ i = Len(images) + 1
      BY <3>2
    <3> QED
      BY <3>1, <3>2, <3>3 DEF PartsPending, Waits
  <2> QED
    BY <2>1, <2>2, <2>3 DEF TellsAs, TellsOn, TellsBehind, TellsOutput
<1>5. \A r \in DOMAIN pending'.results : \E k \in DOMAIN history' :
        /\ pending'.results[r].parts = <<Part(k, "output")>>
        /\ history'[k].kind = "web_search" /\ \E c \in DOMAIN pending'.calls : pending'.calls[c].item = k
  <2>1. CASE pending'.results = <<>>
    BY <2>1, NoneAndOne
  <2>2. /\ \A k \in DOMAIN history : k \in DOMAIN history' /\ history'[k] = history[k]
        /\ Place \in DOMAIN history' /\ history'[Place] = item
    BY HistoryRead DEF ReadsAs
  <2>3. CASE TellsOn(item, X, Y)
    <3>1. /\ \A k : CalledPending(k) => \E c \in DOMAIN pending'.calls : pending'.calls[c].item = k
          /\ pending'.calls # pending.calls => \E c \in DOMAIN pending'.calls : pending'.calls[c].item = Place
      <4>1. CASE pending'.calls = pending.calls
        BY <4>1 DEF CalledPending
      <4>2. ASSUME NEW call, Adds(call), call.item = Place
            PROVE  /\ \A k : CalledPending(k) => \E c \in DOMAIN pending'.calls : pending'.calls[c].item = k
                   /\ \E c \in DOMAIN pending'.calls : pending'.calls[c].item = Place
        <5>1. /\ Len(pending.calls) \in Nat /\ DOMAIN pending.calls = 1 .. Len(pending.calls)
              /\ DOMAIN pending'.calls = 1 .. Len(pending.calls) + 1
              /\ pending'.calls[Len(pending.calls) + 1] = call
              /\ \A c \in 1 .. Len(pending.calls) : pending'.calls[c] = pending.calls[c]
          BY <4>2, AppendedToAny DEF Typed, Adds
        <5>2. \A c \in DOMAIN pending.calls : c \in DOMAIN pending'.calls
          BY <5>1
        <5>3. Len(pending.calls) + 1 \in DOMAIN pending'.calls
          BY <5>1
        <5> QED
          BY <4>2, <5>1, <5>2, <5>3 DEF CalledPending
      <4> QED
        BY <2>3, <4>1, <4>2 DEF TellsOn
    <3>2. CASE pending'.results = pending.results
      BY <2>2, <3>1, <3>2 DEF PartsPending, Waits, CalledPending
    <3>3. CASE /\ item.kind = "web_search" /\ pending'.calls # pending.calls
               /\ \E id, name : pending'.results = Append(pending.results, ToolMessage(Place, id, name))
      <4>1. PICK id, name : pending'.results = Append(pending.results, ToolMessage(Place, id, name))
        BY <3>3
      <4> DEFINE new == ToolMessage(Place, id, name)
                 results == pending.results
      <4>2. new.parts = <<Part(Place, "output")>>
        BY DEF ToolMessage, Message
      <4> HIDE DEF new
      <4>3. /\ Len(results) \in Nat /\ DOMAIN results = 1 .. Len(results)
            /\ DOMAIN pending'.results = 1 .. Len(results) + 1
            /\ pending'.results[Len(results) + 1] = new
            /\ \A i \in 1 .. Len(results) : pending'.results[i] = results[i]
        BY <4>1, AppendedToAny DEF Typed, WellTold, new
      <4>4. \A i \in DOMAIN pending'.results : i \in DOMAIN results \/ i = Len(results) + 1
        BY <4>3
      <4>5. ASSUME NEW r \in DOMAIN results
            PROVE  \E k \in DOMAIN history' :
                      /\ pending'.results[r].parts = <<Part(k, "output")>>
                      /\ history'[k].kind = "web_search" /\ \E c \in DOMAIN pending'.calls : pending'.calls[c].item = k
        <5>1. PICK k \in DOMAIN history : /\ results[r].parts = <<Part(k, "output")>>
                                         /\ history[k].kind = "web_search" /\ CalledPending(k)
          BY DEF PartsPending, Waits, CalledPending
        <5>2. pending'.results[r] = results[r]
          BY <4>3
        <5> HIDE DEF results
        <5> QED
          BY <2>2, <3>1, <5>1, <5>2
      <4> QED
        BY <2>2, <3>1, <3>3, <4>2, <4>3, <4>4, <4>5
    <3> QED
      BY <2>3, <3>2, <3>3 DEF TellsOn
  <2>4. CASE TellsBehind(X, Y) \/ TellsOutput(item, X, Y)
    BY <2>1, <2>4, NothingWhole DEF TellsBehind, TellsOutput
  <2> QED
    BY <2>3, <2>4 DEF TellsAs
<1> QED
  BY <1>2, <1>3, <1>4, <1>5 DEF PartsPending, Waits

(* The groups of calls there may be: of each message, and what is pending. *)
CallGroups(told, calls) == {told[m].calls : m \in DOMAIN told} \union {calls}

HasGroup(told, calls) == \E m \in DOMAIN told : told[m].calls = calls

LEMMA FlushedGroup ==
  ASSUME NEW before, NEW p, NEW own, Pended(p), IsSequence(before), IsSequence(own), p.calls # <<>>
  PROVE  HasGroup(before \o Flush(p) \o own, p.calls)
<1> DEFINE head == Head1(p)
           f == Flush(p)
           results == p.results
<1>1. p # Nothing
  BY NothingWhole
<1>2. f = <<head>> \o results /\ head.calls = p.calls
  BY <1>1, FlushParts
<1>3. IsSequence(results)
  BY DEF Pended, AllParted
<1> HIDE DEF head, results
<1>4. IsWithin(head, before \o (<<head>> \o results) \o own)
  BY <1>3, WithinJoined
<1> HIDE DEF f
<1>5. HasGroup(before \o f \o own, p.calls)
  BY <1>2, <1>4 DEF HasGroup, IsWithin
<1> QED
  BY <1>5 DEF f

LEMMA ReadGroups ==
  ASSUME Typed, PartsPending, NEW item, ReadsAs(item), NEW X, NEW Y, TellsAs(item, X, Y),
         NEW one, NEW two, MadeTogether(CallGroups(messages, pending.calls), one, two)
  PROVE  MadeTogether(CallGroups(messages', pending'.calls), one, two)
<1>1. PICK calls \in CallGroups(messages, pending.calls) : Shared(calls, one, two)
  BY DEF MadeTogether
<1>2. CASE calls = pending.calls
  <2>1. pending.calls # <<>>
    BY <1>1, <1>2, NoneAndOne DEF Shared
  <2>2. AllParted(Said) /\ AllParted(messages) /\ Pended(pending)
    BY ImagesAlone, PendingIsPended
  <2>3. CASE TellsBehind(X, Y)
    <3>1. PICK own : messages' = Said \o Flush(pending) \o own /\ AllParted(own)
      BY <2>3 DEF TellsBehind
    <3>2. HasGroup(messages', pending.calls)
      <4>1. IsSequence(Said) /\ IsSequence(own)
        BY <2>2, <3>1 DEF AllParted
      <4> QED
        BY <2>1, <2>2, <3>1, <4>1, FlushedGroup
    <3> QED
      BY <1>1, <1>2, <3>2 DEF MadeTogether, CallGroups, HasGroup
  <2>4. CASE TellsOutput(item, X, Y)
    <3>1. PICK own : messages' = messages \o Flush(pending) \o own /\ AllParted(own)
      BY <2>4 DEF TellsOutput
    <3>2. HasGroup(messages', pending.calls)
      <4>1. IsSequence(messages) /\ IsSequence(own)
        BY <2>2, <3>1 DEF AllParted
      <4> QED
        BY <2>1, <2>2, <3>1, <4>1, FlushedGroup
    <3> QED
      BY <1>1, <1>2, <3>2 DEF MadeTogether, CallGroups, HasGroup
  <2>5. CASE TellsOn(item, X, Y)
    <3>1. CASE pending'.calls = pending.calls
      BY <1>1, <1>2, <3>1 DEF MadeTogether, CallGroups
    <3>2. ASSUME NEW call, Adds(call) PROVE Shared(pending'.calls, one, two)
      <4>1. /\ Len(pending.calls) \in Nat /\ DOMAIN pending.calls = 1 .. Len(pending.calls)
            /\ DOMAIN pending'.calls = 1 .. Len(pending.calls) + 1
            /\ \A c \in 1 .. Len(pending.calls) : pending'.calls[c] = pending.calls[c]
        BY <3>2, AppendedToAny DEF Typed, Adds
      <4>2. \A c \in DOMAIN pending.calls : c \in DOMAIN pending'.calls
        BY <4>1
      <4> QED
        BY <1>1, <1>2, <4>1, <4>2 DEF Shared
    <3> QED
      BY <2>5, <3>1, <3>2 DEF TellsOn, MadeTogether, CallGroups
  <2> QED
    BY <2>3, <2>4, <2>5 DEF TellsAs
<1>3. CASE \E m \in DOMAIN messages : calls = messages[m].calls
  <2>1. PICK m \in DOMAIN messages : calls = messages[m].calls
    BY <1>3
  <2>2. PICK more : messages' = messages \o more /\ Calls(more, pending.calls)
    BY ReadCallsOnly
  <2>3. m \in DOMAIN messages' /\ messages'[m] = messages[m]
    <3>1. IsSequence(messages) /\ IsSequence(more)
      BY <2>2 DEF Typed, WellTold, Calls
    <3>2. /\ DOMAIN messages = 1 .. Len(messages) /\ Len(messages) \in Nat /\ Len(more) \in Nat
          /\ DOMAIN messages' = 1 .. Len(messages) + Len(more) /\ messages'[m] = messages[m]
      BY <2>2, <3>1, Joined
    <3> QED
      BY <3>2
  <2>4. calls \in CallGroups(messages', pending'.calls)
    BY <2>1, <2>3 DEF CallGroups
  <2> QED
    BY <1>1, <2>4 DEF MadeTogether
<1> QED
  BY <1>1, <1>2, <1>3 DEF CallGroups

(* Between which parts those of an item go.                                *)
Between(A, B, X, Y, before, after) ==
  /\ IsSequence(A) /\ IsSequence(B)
  /\ before = A \o B /\ after = A \o X \o B \o Y

Precedes(X, B, read, groups) == \A x \in ToSet(X), b \in ToSet(B) : MayPrecede(read, groups, x, b)

LEMMA ReadOnBetween ==
  ASSUME Typed, PartsPending, NEW item, ReadsAs(item), NEW X, NEW Y, TellsAs(item, X, Y),
         TellsOn(item, X, Y), Typed', PartsPending'
  PROVE  \E A, B : /\ Between(A, B, X, Y, Parts(Outgoing), Parts(Outgoing'))
                   /\ Precedes(X, B, history', CallGroups(messages', pending'.calls))
<1> DEFINE P1 == Parts(messages)
           P2 == PendingParts(pending)
           P3 == Parts(pending.results)
           P4 == Parts(images)
           A == P1 \o P4 \o P2
<1>1. /\ IsSequence(P1) /\ IsSequence(P2) /\ IsSequence(P3) /\ IsSequence(P4)
      /\ Parts(Outgoing) = (P1 \o P4) \o P2 \o P3
      /\ AllParted(Said) /\ Parts(Said) = P1 \o P4
  BY ImagesAlone
<1>2. IsSequence(X) /\ IsSequence(Y) /\ \A a \in ToSet(X) \union ToSet(Y) : a.item = Place
  BY FewParts DEF TellsAs
<1>3. IsSequence(P1 \o P4) /\ IsSequence(A)
  <2>1. IsSequence(P1 \o P4)
    BY <1>1, Joined
  <2> HIDE DEF P1, P2, P4
  <2> QED
    BY <1>1, <2>1, Joined
<1>4. Parts(pending'.results) = P3 \o Y
  <2>1. CASE Y = <<>> /\ pending'.results = pending.results
    BY <1>1, <2>1, NoneAndOne
  <2>2. CASE /\ Y = <<Part(Place, "output")>>
             /\ \E id, name : pending'.results = Append(pending.results, ToolMessage(Place, id, name))
    <3>1. PICK id, name : pending'.results = Append(pending.results, ToolMessage(Place, id, name))
      BY <2>2
    <3> DEFINE m == ToolMessage(Place, id, name)
               results == pending.results
    <3>2. m.parts = Y /\ m.calls = <<>>
      BY <2>2 DEF ToolMessage, Message
    <3>3. pending'.results = Append(results, m)
      BY <3>1
    <3> HIDE DEF m
    <3>4. AllParted(<<m>>) /\ Parts(<<m>>) = Y
      BY <1>2, <3>2, PartsUncalled
    <3>5. AllParted(results)
      BY PendingIsPended DEF Pended
    <3>6. pending'.results = results \o <<m>>
      BY <3>3, <3>5, AppendIsJoined DEF AllParted
    <3>7. Parts(results \o <<m>>) = Parts(results) \o Parts(<<m>>)
      BY <3>4, <3>5, PartsJoined
    <3> QED
      BY <3>4, <3>6, <3>7
  <2> QED
    BY <2>1, <2>2 DEF TellsOn
<1>5. /\ Parts(messages') = P1 \o P4 /\ PendingParts(pending') = P2 \o X /\ Parts(images') = <<>>
  BY <1>1, AllPartedNone DEF TellsOn
<1>6. Parts(Outgoing') = (P1 \o P4) \o (P2 \o X) \o (P3 \o Y) \o <<>>
  <2>1. Queued(pending', images')
    BY DEF Typed, Queued, Whole, WellTold
  <2>2. Waits(messages', pending', images', history')
    BY DEF PartsPending
  <2>3. Pended(pending') /\ AllParted(images') /\ AllParted(messages')
    BY <2>1, <2>2, WaitingPended
  <2>4. InPieces(messages', pending', images')
    BY <2>3, OutParts
  <2>5. Outgoing' = messages' \o Flush(pending') \o images'
    BY DEF Outgoing
  <2>6. Parts(Outgoing') = Parts(messages') \o PendingParts(pending') \o Parts(pending'.results) \o Parts(images')
    BY <2>4, <2>5 DEF InPieces
  <2> HIDE DEF P1, P2, P3, P4
  <2> QED
    BY <1>4, <1>5, <2>6, Zenon
<1>7. Precedes(X, P3, history', CallGroups(messages', pending'.calls))
  <2>1. CASE X = <<>>
    BY <2>1, ToSetNoneAndOne DEF Precedes
  <2>2. CASE pending.results = <<>>
    BY <2>2, AllPartedNone, ToSetNoneAndOne DEF Precedes
  <2>3. CASE X = <<Part(Place, "call")>> /\ \E call : Adds(call) /\ call.item = Place
    <3>1. PICK call : Adds(call) /\ call.item = Place
      BY <2>3
    <3> SUFFICES ASSUME NEW x \in ToSet(X), NEW b \in ToSet(P3)
                 PROVE  MayPrecede(history', CallGroups(messages', pending'.calls), x, b)
      BY DEF Precedes
    <3>2. x.as = "call" /\ x.item = Place
      BY <2>3, ToSetNoneAndOne DEF Part
    <3>3. AllParted(pending.results)
      BY PendingIsPended DEF Pended
    <3>4. PICK r \in DOMAIN pending.results : b \in ToSet(PartsOf(pending.results[r]))
      BY <3>3, PartsFrom
    <3>5. PICK k \in DOMAIN history : /\ pending.results[r].parts = <<Part(k, "output")>>
                                      /\ history[k].kind = "web_search" /\ CalledPending(k)
      BY DEF PartsPending, Waits, CalledPending
    <3>6. PartsOf(pending.results[r]) = <<Part(k, "output")>>
      <4>1. pending.results[r].calls = <<>> /\ IsSequence(pending.results[r].parts)
        BY <3>5, NoneAndOne DEF Typed
      <4> QED
        BY <3>5, <4>1, PartsUncalled
    <3>7. b.as = "output" /\ b.item = k
      BY <3>4, <3>6, ToSetNoneAndOne DEF Part
    <3>8. history'[k] = history[k]
      BY HistoryRead DEF ReadsAs
    <3>9. Shared(pending'.calls, Place, k)
      <4>1. /\ Len(pending.calls) \in Nat /\ DOMAIN pending.calls = 1 .. Len(pending.calls)
            /\ DOMAIN pending'.calls = 1 .. Len(pending.calls) + 1
            /\ pending'.calls[Len(pending.calls) + 1] = call
            /\ \A c \in 1 .. Len(pending.calls) : pending'.calls[c] = pending.calls[c]
        BY <3>1, AppendedToAny DEF Typed, Adds
      <4>2. Len(pending.calls) + 1 \in DOMAIN pending'.calls /\ \A c \in DOMAIN pending.calls : c \in DOMAIN pending'.calls
        BY <4>1
      <4> QED
        BY <3>1, <3>5, <4>1, <4>2 DEF Shared, CalledPending
    <3> QED
      BY <3>2, <3>5, <3>7, <3>8, <3>9 DEF MayPrecede, MadeTogether, CallGroups
  <2> QED
    BY <2>1, <2>2, <2>3 DEF TellsOn
<1> DEFINE P14 == P1 \o P4
<1>8. Parts(Outgoing) = A \o P3
  BY <1>1
<1>9. Parts(Outgoing') = A \o X \o P3 \o Y
  <2> HIDE DEF P1, P2, P3, P4
  <2>1. IsSequence(P14) /\ Parts(Outgoing') = P14 \o (P2 \o X) \o (P3 \o Y) \o <<>>
    BY <1>3, <1>6
  <2>2. A = P14 \o P2
    OBVIOUS
  <2> HIDE DEF P14, A
  <2>3. IsSequence(P14) /\ IsSequence(P2) /\ IsSequence(X) /\ IsSequence(P3) /\ IsSequence(Y)
    BY <1>1, <1>2, <2>1
  <2>5. JoinsAgain(P14, P2, X, P3, Y)
    BY <2>3, JoinedAgain
  <2>4. P14 \o (P2 \o X) \o (P3 \o Y) \o <<>> = (P14 \o P2) \o X \o P3 \o Y
    BY <2>5, Zenon DEF JoinsAgain
  <2> QED
    BY <2>1, <2>2, <2>4
<1> HIDE DEF A, P3
<1>10. Between(A, P3, X, Y, Parts(Outgoing), Parts(Outgoing'))
  BY <1>1, <1>3, <1>8, <1>9 DEF Between
<1> QED
  BY <1>7, <1>10

LEMMA OutNow ==
  ASSUME Typed', PartsPending'
  PROVE  /\ Parts(Outgoing') = Parts(messages') \o PendingParts(pending') \o Parts(pending'.results) \o Parts(images')
         /\ AllParted(messages') /\ AllParted(images')
<1>1. Queued(pending', images')
  BY DEF Typed, Queued, Whole, WellTold
<1>2. Waits(messages', pending', images', history')
  BY DEF PartsPending
<1>3. Pended(pending') /\ AllParted(images') /\ AllParted(messages')
  BY <1>1, <1>2, WaitingPended
<1>4. InPieces(messages', pending', images')
  BY <1>3, OutParts
<1>5. Outgoing' = messages' \o Flush(pending') \o images'
  BY DEF Outgoing
<1>6. Parts(Outgoing') = Parts(messages') \o PendingParts(pending') \o Parts(pending'.results) \o Parts(images')
  BY <1>4, <1>5 DEF InPieces
<1> QED
  BY <1>3, <1>6

Goes(X, Y, before, after, read, groups) ==
  \E A, B : Between(A, B, X, Y, before, after) /\ Precedes(X, B, read, groups)

LEMMA ReadBehindBetween ==
  ASSUME Typed, PartsPending, NEW item, ReadsAs(item), NEW X, NEW Y, TellsAs(item, X, Y),
         TellsBehind(X, Y), Typed', PartsPending'
  PROVE  Goes(X, Y, Parts(Outgoing), Parts(Outgoing'), history', CallGroups(messages', pending'.calls))
<1> DEFINE A == Parts(Outgoing)
           flushed == Said \o Flush(pending)
<1>1. AllParted(flushed) /\ Parts(flushed) = A /\ AllParted(Outgoing)
  BY ImagesAlone
<1>2. IsSequence(A)
  BY <1>1, PartsJoined
<1>3. IsSequence(X) /\ IsSequence(Y)
  BY FewParts DEF TellsAs
<1>4. PICK own : messages' = flushed \o own /\ AllParted(own) /\ Parts(own) = X
  BY DEF TellsBehind
<1> HIDE DEF flushed, A
<1>5. Parts(messages') = A \o X
  BY <1>1, <1>4, PartsJoined
<1>6. PendingParts(pending') = Y /\ Parts(pending'.results) = <<>> /\ Parts(images') = <<>>
  BY AllPartedNone DEF TellsBehind
<1>7. Parts(Outgoing') = A \o X \o Y \o <<>> \o <<>>
  BY <1>5, <1>6, OutNow
<1>8. A \o X \o Y \o <<>> \o <<>> = A \o X \o <<>> \o Y /\ A = A \o <<>>
  <2> DEFINE AX == A \o X
             AXY == AX \o Y
  <2>1. IsSequence(AX)
    BY <1>2, <1>3, Joined
  <2> HIDE DEF AX
  <2>2. IsSequence(AXY)
    BY <1>3, <2>1, Joined
  <2> HIDE DEF AXY
  <2>3. AXY \o <<>> = AXY /\ AX \o <<>> = AX /\ A \o <<>> = A
    BY <1>2, <2>1, <2>2, NoneAndOne
  <2> QED
    BY <2>3 DEF AXY, AX
<1>9. Between(A, <<>>, X, Y, A, Parts(Outgoing'))
  BY <1>2, <1>7, <1>8, NoneAndOne DEF Between
<1>10. \A read, groups : Precedes(X, <<>>, read, groups)
  BY ToSetNoneAndOne DEF Precedes
<1> QED
  BY <1>9, <1>10 DEF Goes, A

LEMMA ReadOutputBetween ==
  ASSUME Typed, PartsPending, NEW item, ReadsAs(item), NEW X, NEW Y, TellsAs(item, X, Y),
         TellsOutput(item, X, Y), Typed', PartsPending'
  PROVE  Goes(X, Y, Parts(Outgoing), Parts(Outgoing'), history', CallGroups(messages', pending'.calls))
<1> DEFINE flushed == messages \o Flush(pending)
           A == Parts(flushed)
           B == Parts(images)
           groups == CallGroups(messages', pending'.calls)
<1>1. AllParted(flushed) /\ Parts(Outgoing) = A \o B /\ AllParted(images)
  <2>1. AllParted(flushed) /\ A = Parts(messages) \o PendingParts(pending) \o Parts(pending.results)
    BY ImagesAlone
  <2>2. Parts(Outgoing) = Parts(messages) \o PendingParts(pending) \o Parts(pending.results) \o B
    BY ImagesAlone
  <2> QED
    BY <2>1, <2>2, PendingIsPended
<1>2. IsSequence(A) /\ IsSequence(B)
  BY <1>1, PartsJoined
<1>3. IsSequence(X) /\ IsSequence(Y) /\ \A a \in ToSet(X) : a.item = Place
  BY FewParts DEF TellsAs
<1>4. PICK own : messages' = flushed \o own /\ AllParted(own) /\ Parts(own) = X
  BY DEF TellsOutput
<1> HIDE DEF flushed
<1>5. Parts(messages') = A \o X
  BY <1>1, <1>4, PartsJoined
<1>6. PendingParts(pending') = <<>> /\ Parts(pending'.results) = <<>>
  BY NothingPended DEF TellsOutput
<1>7. Parts(images') = B \o Y
  <2>1. CASE Y = <<>> /\ images' = images
    BY <1>2, <2>1, NoneAndOne
  <2>2. CASE Y = <<Part(Place, "image")>> /\ images' = Append(images, ImageMessage(Place))
    <3> DEFINE m == ImageMessage(Place)
               last == images
    <3>1. m.parts = Y /\ m.calls = <<>>
      BY <2>2, MessageFields DEF ImageMessage
    <3>2. images' = Append(last, m)
      BY <2>2
    <3> HIDE DEF m
    <3>3. AllParted(<<m>>) /\ Parts(<<m>>) = Y
      BY <1>3, <3>1, PartsUncalled
    <3>4. images' = last \o <<m>>
      BY <1>1, <3>2, AppendIsJoined DEF AllParted
    <3>5. Parts(last \o <<m>>) = Parts(last) \o Parts(<<m>>)
      BY <1>1, <3>3, PartsJoined
    <3> QED
      BY <3>3, <3>4, <3>5
  <2> QED
    BY <2>1, <2>2 DEF TellsOutput
<1>8. Precedes(X, B, history', groups)
  <2> SUFFICES ASSUME NEW x \in ToSet(X), NEW b \in ToSet(B)
               PROVE  MayPrecede(history', groups, x, b)
    BY DEF Precedes
  <2>1. x.item = Place /\ history'[Place] = item /\ item.kind = "output"
    BY <1>3, HistoryRead DEF ReadsAs, TellsOutput
  <2>2. PICK i \in DOMAIN images : b \in ToSet(PartsOf(images[i]))
    BY <1>1, PartsFrom
  <2>3. PICK k : images[i].parts = <<Part(k, "image")>>
    BY DEF PartsPending, Waits
  <2>4. PartsOf(images[i]) = <<Part(k, "image")>>
    <3>1. images[i].calls = <<>> /\ IsSequence(images[i].parts)
      BY <2>3, NoneAndOne DEF Typed
    <3> QED
      BY <2>3, <3>1, PartsUncalled
  <2>5. b.as = "image"
    BY <2>2, <2>4, ToSetNoneAndOne DEF Part
  <2> QED
    BY <2>1, <2>5 DEF MayPrecede
<1> HIDE DEF A, B
<1>9. Parts(Outgoing') = A \o X \o <<>> \o <<>> \o (B \o Y)
  BY <1>5, <1>6, <1>7, OutNow
<1>10. A \o X \o <<>> \o <<>> \o (B \o Y) = A \o X \o B \o Y
  <2> DEFINE AX == A \o X
  <2>1. IsSequence(AX)
    BY <1>2, <1>3, Joined
  <2> HIDE DEF AX
  <2>2. AX \o <<>> = AX
    BY <2>1, NoneAndOne
  <2>3. (AX \o B) \o Y = AX \o (B \o Y)
    BY <1>2, <1>3, <2>1, JoinedThree
  <2> QED
    BY <2>2, <2>3 DEF AX
<1>11. Between(A, B, X, Y, Parts(Outgoing), Parts(Outgoing'))
  BY <1>1, <1>2, <1>9, <1>10 DEF Between
<1> QED
  BY <1>8, <1>11 DEF Goes
-----------------------------------------------------------------------------
(* The invariant behind HistoryKept.                                       *)

(* What the item at a place has become.                                    *)
Became(parts, place) == {a.as : a \in {b \in ToSet(parts) : b.item = place}}

Complete(parts, read, asked) == \A k \in DOMAIN read : Became(parts, k) \in Forms(asked, read[k])

OrderKept ==
  /\ InOrder(Parts(Outgoing), history, CallGroups(messages, pending.calls))
  /\ pc # "ended" => Below(ToSet(Parts(Outgoing)), Place)
  /\ Complete(Parts(Outgoing), history, request)

Ordered == PartsPending /\ OrderKept /\ AllDeclared

(* Only the item at a new place has become the new parts.                  *)
NewParts(before, after, X, Y, place) ==
  ToSet(after) = ToSet(before) \union ToSet(X) \union ToSet(Y) /\ Few(X, place) /\ Few(Y, place)

LEMMA BecomesNoOther ==
  ASSUME NEW before, NEW after, NEW X, NEW Y, NEW place, NewParts(before, after, X, Y, place)
  PROVE  \A k : k # place => Became(after, k) = Became(before, k)
<1>1. \A a \in ToSet(X) \union ToSet(Y) : a.item = place
  BY FewParts DEF NewParts
<1> SUFFICES ASSUME NEW k, k # place PROVE Became(after, k) = Became(before, k)
  OBVIOUS
<1>2. {b \in ToSet(after) : b.item = k} = {b \in ToSet(before) : b.item = k}
  BY <1>1 DEF NewParts
<1> QED
  BY <1>2 DEF Became

LEMMA BecomesMore ==
  ASSUME NEW before, NEW after, NEW X, NEW Y, NEW place \in Nat \ {0}, Below(ToSet(before), place),
         NewParts(before, after, X, Y, place)
  PROVE  Became(after, place) = AsOf(X, Y)
<1>1. \A a \in ToSet(X) \union ToSet(Y) : a.item = place
  BY FewParts DEF NewParts
<1>2. \A a \in ToSet(before) : a.item # place
  <2>1. place \notin 1 .. place - 1
    OBVIOUS
  <2> QED
    BY <2>1 DEF Below
<1>3. {b \in ToSet(after) : b.item = place} = ToSet(X) \union ToSet(Y)
  BY <1>1, <1>2 DEF NewParts
<1> QED
  BY <1>3 DEF Became, AsOf

LEMMA ReadOrdered ==
  ASSUME Typed, Ordered, pc = "input", ReadItem, UNCHANGED pc, Typed'
  PROVE  Ordered'
<1> DEFINE before == Parts(Outgoing)
           after == Parts(Outgoing')
           groups == CallGroups(messages, pending.calls)
           more == CallGroups(messages', pending'.calls)
<1>1. PartsPending /\ AllDeclared
  BY DEF Ordered
<1>2. PICK item \in request.items : ReadsAs(item) /\ \E X, Y : TellsAs(item, X, Y)
  BY <1>1, ReadTells
<1>3. PICK X, Y : TellsAs(item, X, Y)
  BY <1>2
<1>4. PartsPending'
  BY <1>1, <1>2, <1>3, ReadWaits
<1>5. Goes(X, Y, before, after, history', more)
  <2>1. CASE TellsOn(item, X, Y)
    BY <1>1, <1>2, <1>3, <1>4, <2>1, ReadOnBetween DEF Goes
  <2>2. CASE TellsBehind(X, Y)
    BY <1>1, <1>2, <1>3, <1>4, <2>2, ReadBehindBetween
  <2>3. CASE TellsOutput(item, X, Y)
    BY <1>1, <1>2, <1>3, <1>4, <2>3, ReadOutputBetween
  <2> QED
    BY <1>3, <2>1, <2>2, <2>3 DEF TellsAs
<1>6. /\ Len(history) \in Nat /\ DOMAIN history = 1 .. Len(history) /\ Place = Len(history) + 1
      /\ DOMAIN history' = 1 .. Place /\ history'[Place] = item
      /\ \A k \in DOMAIN history : history'[k] = history[k]
      /\ \A k \in DOMAIN history' : k \in DOMAIN history \/ k = Place
      /\ Len(history') = Place /\ Place \notin DOMAIN history
  BY <1>2, HistoryRead DEF ReadsAs
<1>7. Place \in Nat \ {0} /\ Place' = Place + 1 /\ 1 .. Place - 1 = DOMAIN history
  <2>1. Place' = Len(history') + 1
    BY DEF Place
  <2> QED
    BY <1>6, <2>1
<1>8. Onward(history, groups, history', more, Place)
  <2>1. \A one, two : MadeTogether(groups, one, two) => MadeTogether(more, one, two)
    BY <1>1, <1>2, <1>3, ReadGroups
  <2> HIDE DEF groups, more
  <2> QED
    BY <1>6, <1>7, <2>1 DEF Onward
<1>9. InOrder(before, history, groups) /\ Below(ToSet(before), Place) /\ Complete(before, history, request)
  BY DEF Ordered, OrderKept
<1>10. Few(X, Place) /\ Few(Y, Place) /\ (X = <<>> \/ X # Y) /\ AsOf(X, Y) \in Forms(request, item)
  BY <1>3 DEF TellsAs
<1> HIDE DEF before, after, groups, more
<1>11. PICK A, B : Between(A, B, X, Y, before, after) /\ Precedes(X, B, history', more)
  BY <1>5 DEF Goes
<1>12. /\ InOrder(after, history', more) /\ Below(ToSet(after), Place + 1)
       /\ ToSet(after) = ToSet(before) \union ToSet(X) \union ToSet(Y)
  <2>1. /\ IsSequence(A) /\ IsSequence(B) /\ before = A \o B /\ after = A \o X \o B \o Y
        /\ \A x \in ToSet(X), b \in ToSet(B) : MayPrecede(history', more, x, b)
    BY <1>11 DEF Between, Precedes
  <2>2. InOrder(A \o B, history, groups) /\ Below(ToSet(A \o B), Place)
    BY <1>9, <2>1
  <2>3. InsertedWell(A, B, X, Y, history', more, Place)
    BY <1>7, <1>8, <1>10, <2>1, <2>2, Inserted
  <2> QED
    BY <2>1, <2>3 DEF InsertedWell
<1>13. Complete(after, history', request')
  <2>1. request' = request
    BY <1>2 DEF ReadsAs
  <2>0. NewParts(before, after, X, Y, Place)
    BY <1>10, <1>12 DEF NewParts
  <2>2. /\ \A k : k # Place => Became(after, k) = Became(before, k)
        /\ Became(after, Place) = AsOf(X, Y)
    BY <1>7, <1>9, <2>0, BecomesMore, BecomesNoOther
  <2>3. ASSUME NEW k \in DOMAIN history' PROVE Became(after, k) \in Forms(request, history'[k])
    <3>1. CASE k = Place
      BY <1>6, <1>10, <2>2, <3>1
    <3>2. CASE k \in DOMAIN history
      BY <1>6, <1>9, <2>2, <3>2 DEF Complete
    <3> QED
      BY <1>6, <3>1, <3>2
  <2> QED
    BY <2>1, <2>3 DEF Complete
<1>14. OrderKept'
  BY <1>7, <1>12, <1>13 DEF OrderKept, after, more
<1>15. AllDeclared'
  <2>1. DOMAIN names.byKey \subseteq DOMAIN names'.byKey
    BY RecordedKept DEF Widens, Registry
  <2>2. request' = request
    BY <1>2 DEF ReadsAs
  <2> QED
    BY <1>1, <2>1, <2>2 DEF AllDeclared
<1> QED
  BY <1>4, <1>14, <1>15 DEF Ordered

(* Groups are only ever added.                                             *)
GroupsStay(told, calls, now, more) == \A one, two :
  MadeTogether(CallGroups(told, calls), one, two) => MadeTogether(CallGroups(now, more), one, two)

LEMMA OutgoingHasGroup ==
  ASSUME Typed, PartsPending, NEW calls \in CallGroups(messages, pending.calls), calls # <<>>
  PROVE  HasGroup(Outgoing, calls)
<1>0. Pended(pending) /\ IsSequence(messages) /\ IsSequence(images)
  BY PendingIsPended DEF AllParted
<1>1. CASE calls = pending.calls
  BY <1>0, <1>1, FlushedGroup DEF Outgoing
<1>2. CASE \E m \in DOMAIN messages : calls = messages[m].calls
  <2> DEFINE flushed == Flush(pending)
             more == flushed \o images
  <2>1. IsSequence(flushed) /\ IsSequence(more)
    <3>1. IsSequence(flushed)
      BY <1>0, FlushedParts DEF AllParted
    <3> HIDE DEF flushed
    <3> QED
      BY <1>0, <3>1, Joined
  <2>2. Outgoing = messages \o more
    BY <1>0, <2>1, JoinedThree DEF Outgoing
  <2> HIDE DEF more
  <2>3. /\ DOMAIN messages = 1 .. Len(messages) /\ Len(messages) \in Nat /\ Len(more) \in Nat
        /\ DOMAIN (messages \o more) = 1 .. Len(messages) + Len(more)
        /\ \A m \in DOMAIN messages : (messages \o more)[m] = messages[m]
    BY <1>0, <2>1, Joined
  <2>4. \A m \in DOMAIN messages : m \in DOMAIN (messages \o more)
    BY <2>3
  <2> QED
    BY <1>2, <2>2, <2>3, <2>4 DEF HasGroup
<1> QED
  BY <1>1, <1>2 DEF CallGroups

LEMMA EndGroups ==
  ASSUME Typed, PartsPending, EndInput
  PROVE  /\ messages' = Outgoing \/ (Outgoing = <<>> /\ messages' = <<Message("user", <<>>)>>)
         /\ GroupsStay(messages, pending.calls, messages', pending'.calls)
<1>1. messages' = IF Outgoing = <<>> THEN <<Message("user", <<>>)>> ELSE Outgoing
  BY DEF EndInput, Outgoing
<1>3. ASSUME NEW one, NEW two, MadeTogether(CallGroups(messages, pending.calls), one, two)
      PROVE  MadeTogether(CallGroups(messages', pending'.calls), one, two)
  <2>1. PICK calls \in CallGroups(messages, pending.calls) : Shared(calls, one, two)
    BY <1>3 DEF MadeTogether
  <2>2. calls # <<>>
    BY <2>1, NoneAndOne DEF Shared
  <2>3. HasGroup(Outgoing, calls)
    BY <2>1, <2>2, OutgoingHasGroup
  <2>4. Outgoing # <<>>
    BY <2>3, NoneAndOne DEF HasGroup
  <2>5. HasGroup(messages', calls)
    BY <1>1, <2>3, <2>4
  <2> QED
    BY <2>1, <2>5 DEF HasGroup, CallGroups, MadeTogether
<1> QED
  BY <1>1, <1>3 DEF GroupsStay

LEMMA StaysOrdered ==
  ASSUME NEW parts, NEW read, NEW told, NEW calls, NEW now, NEW more,
         InOrder(parts, read, CallGroups(told, calls)), GroupsStay(told, calls, now, more)
  PROVE  InOrder(parts, read, CallGroups(now, more))
BY DEF InOrder, MayFollow, MayPrecede, GroupsStay

LEMMA EndOrdered ==
  ASSUME Typed, Ordered, EndInput, pc = "input", pc' = "posted", Typed'
  PROVE  Ordered'
<1>1. /\ UNCHANGED <<request, history, names>> /\ pending' = Nothing /\ images' = <<>>
  BY DEF EndInput, SameNames
<1>2. /\ messages' = Outgoing \/ (Outgoing = <<>> /\ messages' = <<Message("user", <<>>)>>)
      /\ GroupsStay(messages, pending.calls, messages', pending'.calls)
  BY EndGroups DEF Ordered
<1>3. AllParted(messages') /\ Parts(messages') = Parts(Outgoing)
  <2>1. CASE messages' = Outgoing
    BY <2>1, ImagesAlone DEF Ordered
  <2>2. CASE Outgoing = <<>> /\ messages' = <<Message("user", <<>>)>>
    <3> DEFINE m == Message("user", <<>>)
    <3>1. m.parts = <<>> /\ m.calls = <<>>
      BY MessageFields
    <3> HIDE DEF m
    <3>2. AllParted(<<m>>) /\ Parts(<<m>>) = <<>>
      BY <3>1, NoneAndOne, PartsUncalled
    <3> QED
      BY <2>2, <3>2, AllPartedNone DEF m
  <2> QED
    BY <1>2, <2>1, <2>2
<1>4. PartsPending'
  BY <1>1, <1>3, NothingWhole, NoneAndOne DEF PartsPending, Waits
<1>5. Parts(Outgoing') = Parts(Outgoing)
  <2> DEFINE parts == Parts(Outgoing)
  <2>1. Parts(messages') = parts /\ IsSequence(parts)
    BY <1>3, ImagesAlone, PartsJoined DEF Ordered
  <2>2. PendingParts(pending') = <<>> /\ Parts(pending'.results) = <<>> /\ Parts(images') = <<>>
    BY <1>1, NothingPended, AllPartedNone
  <2> HIDE DEF parts
  <2>3. Parts(Outgoing') = parts \o <<>> \o <<>> \o <<>>
    BY <1>4, <2>1, <2>2, OutNow
  <2>4. parts \o <<>> \o <<>> \o <<>> = parts
    BY <2>1, NoneAndOne
  <2> QED
    BY <2>3, <2>4 DEF parts
<1>6. InOrder(Parts(Outgoing), history, CallGroups(messages', pending'.calls))
  BY <1>2, StaysOrdered DEF Ordered, OrderKept
<1>7. OrderKept'
  BY <1>1, <1>5, <1>6 DEF Ordered, OrderKept, Place
<1>8. AllDeclared'
  BY <1>1 DEF Ordered, AllDeclared
<1> QED
  BY <1>4, <1>7, <1>8 DEF Ordered

LEMMA FollowUpOwnParts ==
  LET both == <<Asking, Giving>>
      X == <<Part(Place, "call")>>
      Y == <<Part(Place, "output")>>
  IN  AllParted(both) /\ Parts(both) = X \o Y
<1> DEFINE X == <<Part(Place, "call")>>
           Y == <<Part(Place, "output")>>
           call == Call(NoID, HostedName("web_search"))
<1>1. /\ Asking.parts = <<>> /\ Asking.calls = <<call>> /\ call.item = Place
      /\ Giving.parts = Y /\ Giving.calls = <<>>
  BY DEF Asking, Giving, Message, ToolMessage, Call
<1> HIDE DEF call
<1>2. /\ IsSequence(<<call>>) /\ IsSequence(<<>>) /\ IsSequence(Y)
      /\ DOMAIN <<call>> = {1} /\ <<call>>[1] = call
  BY NoneAndOne
<1>3. CallParts(<<call>>) = X
  <2> DEFINE parts == CallParts(<<call>>)
  <2>1. IsSequence(parts) /\ DOMAIN parts = {1} /\ parts[1] = Part(Place, "call")
    BY <1>1, <1>2, CallPartsOf
  <2>2. IsSequence(X) /\ DOMAIN X = {1} /\ X[1] = Part(Place, "call")
    BY NoneAndOne
  <2> HIDE DEF parts, X
  <2>3. DOMAIN parts = DOMAIN X /\ \A i \in DOMAIN parts : parts[i] = X[i]
    BY <2>1, <2>2
  <2>4. parts = X
    BY <2>1, <2>2, <2>3, SameSequence
  <2> QED
    BY <2>4 DEF parts
<1>4. IsSequence(X)
  BY NoneAndOne
<1>5. Parted(Asking) /\ Parted(Giving)
  BY <1>1, <1>2 DEF Parted
<1> HIDE DEF X, Y
<1>6. PartsOf(Asking) = X /\ PartsOf(Giving) = Y
  <2>1. PartsOf(Asking) = <<>> \o X
    BY <1>1, <1>3, <1>5, PartsOfMessage
  <2>2. PartsOf(Giving) = Y
    BY <1>1, <1>2, PartsUncalled
  <2> QED
    BY <1>4, <2>1, <2>2, NoneAndOne
<1>7. AllParted(<<Asking>>) /\ AllParted(<<Giving>>)
  BY <1>5, NoneAndOne DEF AllParted
<1>8. Parts(<<Asking>>) = X /\ Parts(<<Giving>>) = Y
  BY <1>5, <1>6, PartsNoneAndOne
<1>9. AllParted(<<Asking>> \o <<Giving>>) /\ Parts(<<Asking>> \o <<Giving>>) = X \o Y
  <2> DEFINE one == <<Asking>>
             two == <<Giving>>
  <2>1. AllParted(one) /\ AllParted(two) /\ Parts(one) = X /\ Parts(two) = Y
    BY <1>7, <1>8
  <2> HIDE DEF one, two
  <2>2. AllParted(one \o two) /\ Parts(one \o two) = Parts(one) \o Parts(two)
    BY <2>1, AllPartedJoined, PartsJoined
  <2>3. AllParted(one \o two) /\ Parts(one \o two) = X \o Y
    BY <2>1, <2>2
  <2> QED
    BY <2>3 DEF one, two
<1>10. \A a, b : <<a>> \o <<b>> = <<a, b>>
  BY TwoJoined
<1> QED
  BY <1>9, <1>10 DEF X, Y

LEMMA FollowUpOrdered ==
  ASSUME Typed, Ordered, FollowUp, pending = Nothing, images = <<>>, Typed'
  PROVE  Ordered'
<1> DEFINE X == <<Part(Place, "call")>>
           Y == <<Part(Place, "output")>>
           both == <<Asking, Giving>>
           before == Parts(Outgoing)
           after == Parts(Outgoing')
           groups == CallGroups(messages, pending.calls)
           more == CallGroups(messages', pending'.calls)
<1>1. /\ UNCHANGED <<request, names, sent, history, pending, images, rendered>>
      /\ messages' = messages \/ messages' = messages \o both
      /\ pc = "searching" /\ pc' = "ended"
  BY FollowUpTold DEF FollowUp
<1>2. AllParted(both) /\ Parts(both) = X \o Y
  BY FollowUpOwnParts
<1>3. PartsPending /\ AllDeclared /\ AllParted(messages)
  BY DEF Ordered, PartsPending, Waits
<1>4. InOrder(before, history, groups) /\ Below(ToSet(before), Place) /\ Complete(before, history, request)
  BY <1>1 DEF Ordered, OrderKept
<1>5. AllDeclared'
  BY <1>1 DEF Ordered, AllDeclared
<1>6. CASE messages' = messages
  <2>1. Outgoing' = Outgoing
    BY <1>1, <1>6 DEF Outgoing
  <2>2. OrderKept'
    BY <1>1, <1>4, <1>6, <2>1 DEF OrderKept
  <2>3. PartsPending'
    BY <1>1, <1>3, <1>6 DEF PartsPending
  <2> QED
    BY <1>5, <2>2, <2>3 DEF Ordered
<1>7. CASE messages' = messages \o both
  <2> HIDE DEF both
  <2>1. AllParted(messages') /\ Parts(messages') = Parts(messages) \o (X \o Y)
    <3>1. AllParted(both) /\ Parts(both) = X \o Y /\ messages' = messages \o both
      BY <1>2, <1>7 DEF both
    <3> HIDE DEF X, Y
    <3>2. AllParted(messages \o both) /\ Parts(messages \o both) = Parts(messages) \o Parts(both)
      BY <1>3, <3>1, AllPartedJoined, PartsJoined
    <3> QED
      BY <3>1, <3>2
  <2>2. PartsPending'
    <3>1. AllParted(messages') /\ Waits(messages, pending, images, history)
      BY <1>3, <2>1 DEF PartsPending
    <3>2. Waits(messages', pending, images, history)
      BY <3>1, Zenon DEF Waits
    <3> QED
      BY <1>1, <3>2 DEF PartsPending
  <2>3. /\ PendingParts(pending) = <<>> /\ Parts(pending.results) = <<>> /\ Parts(images) = <<>>
    BY NothingPended, AllPartedNone
  <2>4. IsSequence(X) /\ IsSequence(Y) /\ IsSequence(Parts(messages)) /\ X # Y
        /\ Few(X, Place) /\ Few(Y, Place)
    <3>1. IsSequence(X) /\ IsSequence(Y) /\ IsSequence(Parts(messages))
      BY <1>3, NoneAndOne, PartsJoined
    <3>2. X # Y /\ Few(X, Place) /\ Few(Y, Place)
      BY AsOfParts
    <3> QED
      BY <3>1, <3>2
  <2> DEFINE A == Parts(messages)
  <2> HIDE DEF X, Y, A
  <2>5. before = A
    <3>1. before = A \o <<>> \o <<>> \o <<>>
      BY <1>3, <2>3, ImagesAlone DEF A
    <3> QED
      BY <2>4, <3>1, NoneAndOne DEF A
  <2>6. after = A \o X \o <<>> \o Y
    <3>1. after = A \o (X \o Y) \o <<>> \o <<>> \o <<>>
      BY <1>1, <2>1, <2>2, <2>3, OutNow DEF A
    <3> HIDE DEF before, after
    <3> DEFINE AX == A \o X
               AXY == AX \o Y
    <3>2. AXY = A \o (X \o Y)
      BY <2>4, JoinedThree DEF A
    <3>3. IsSequence(AX)
      BY <2>4, Joined DEF A
    <3> HIDE DEF AX
    <3>4. IsSequence(AXY)
      BY <2>4, <3>3, Joined
    <3> HIDE DEF AXY
    <3>5. AXY \o <<>> = AXY /\ AX \o <<>> = AX
      BY <3>3, <3>4, NoneAndOne
    <3>6. after = AXY
      BY <3>1, <3>2, <3>5
    <3> QED
      BY <3>5, <3>6 DEF AXY, AX
  <2>7. Onward(history, groups, history', more, Place)
    <3>1. ASSUME NEW one, NEW two, MadeTogether(groups, one, two) PROVE MadeTogether(more, one, two)
      <4>1. PICK calls \in groups : Shared(calls, one, two)
        BY <3>1 DEF MadeTogether
      <4>2. calls \in more
        <5>1. CASE calls = pending.calls
          BY <1>1, <5>1 DEF CallGroups
        <5>2. CASE \E m \in DOMAIN messages : calls = messages[m].calls
          <6>1. IsSequence(messages) /\ IsSequence(both)
            BY <1>2, <1>3 DEF AllParted
          <6>2. /\ DOMAIN messages = 1 .. Len(messages) /\ Len(messages) \in Nat /\ Len(both) \in Nat
                /\ DOMAIN messages' = 1 .. Len(messages) + Len(both)
                /\ \A m \in DOMAIN messages : messages'[m] = messages[m]
            BY <1>7, <6>1, Joined
          <6>3. \A m \in DOMAIN messages : m \in DOMAIN messages'
            BY <6>2
          <6> QED
            BY <5>2, <6>2, <6>3 DEF CallGroups
        <5> QED
          BY <4>1, <5>1, <5>2 DEF CallGroups
      <4> QED
        BY <4>1, <4>2 DEF MadeTogether
    <3> HIDE DEF groups, more
    <3> QED
      BY <1>1, <3>1 DEF Onward
  <2> HIDE DEF before, after, groups, more
  <2>8. Len(history) \in Nat /\ DOMAIN history = 1 .. Len(history)
    BY AppendedToAny DEF Typed
  <2>9. Place \in Nat \ {0} /\ Place \notin DOMAIN history
    BY <2>8 DEF Place
  <2>10. /\ IsSequence(A) /\ IsSequence(<<>>) /\ A \o <<>> = A
         /\ \A x \in ToSet(X), b \in ToSet(<<>>) : MayPrecede(history', more, x, b)
    BY <2>4, NoneAndOne, ToSetNoneAndOne DEF A
  <2>11. InOrder(A \o <<>>, history, groups) /\ Below(ToSet(A \o <<>>), Place)
    BY <1>4, <2>5, <2>10
  <2>12. InsertedWell(A, <<>>, X, Y, history', more, Place)
    BY <2>4, <2>7, <2>9, <2>10, <2>11, Inserted
  <2>13. InOrder(after, history', more) /\ ToSet(after) = ToSet(before) \union ToSet(X) \union ToSet(Y)
    BY <2>5, <2>6, <2>10, <2>12 DEF InsertedWell
  <2>14. Complete(after, history', request')
    <3>0. NewParts(before, after, X, Y, Place)
      BY <2>4, <2>13 DEF NewParts
    <3>1. \A k : k # Place => Became(after, k) = Became(before, k)
      BY <3>0, BecomesNoOther
    <3> QED
      BY <1>1, <1>4, <2>9, <3>1 DEF Complete
  <2>15. OrderKept'
    BY <1>1, <2>13, <2>14 DEF OrderKept, after, more
  <2> QED
    BY <1>5, <2>2, <2>15 DEF Ordered
<1> QED
  BY <1>1, <1>6, <1>7

LEMMA DeclareOrdered ==
  ASSUME Typed, Ordered, TranslateTools, pc = "tools", pc' = "input"
  PROVE  Ordered'
<1> DEFINE all == WithTools(Registry, request.tools)
<1>1. names' = all.names /\ UNCHANGED <<request, history, pending, images, rendered, messages>>
  BY DEF TranslateTools
<1>2. request.tools \in Seq(Tools)
  BY InboundAssumption DEF Typed
<1>3. \A tool \in ToSet(request.tools) : Named(tool) \in DOMAIN all.names.byKey
  BY <1>2, WithToolsGiven DEF Typed
<1> HIDE DEF all
<1>4. AllDeclared'
  BY <1>1, <1>3 DEF AllDeclared
<1>5. Outgoing' = Outgoing /\ Place' = Place
  BY <1>1 DEF Outgoing, Place
<1>6. OrderKept'
  BY <1>1, <1>5 DEF Ordered, OrderKept
<1>7. PartsPending'
  BY <1>1 DEF Ordered, PartsPending
<1> QED
  BY <1>4, <1>6, <1>7 DEF Ordered

LEMMA InitOrdered ==
  ASSUME Init
  PROVE  Ordered
<1>1. /\ history = <<>> /\ pending = Nothing /\ images = <<>> /\ pc = "tools"
      /\ messages = <<Message("system", <<>>)>> \/ messages = <<>>
  BY DEF Init, InitTranslation
<1>2. AllParted(messages) /\ Parts(messages) = <<>>
  <2>1. CASE messages = <<>>
    BY <2>1, AllPartedNone
  <2>2. CASE messages = <<Message("system", <<>>)>>
    <3> DEFINE m == Message("system", <<>>)
    <3>1. m.parts = <<>> /\ m.calls = <<>>
      BY MessageFields
    <3> HIDE DEF m
    <3>2. AllParted(<<m>>) /\ Parts(<<m>>) = <<>>
      BY <3>1, NoneAndOne, PartsUncalled
    <3> QED
      BY <2>2, <3>2 DEF m
  <2> QED
    BY <1>1, <2>1, <2>2
<1>3. PartsPending
  BY <1>1, <1>2, NothingWhole, NoneAndOne DEF PartsPending, Waits
<1>4. Typed
  BY InitTyped
<1>5. Parts(Outgoing) = <<>>
  <2>1. PendingParts(pending) = <<>> /\ Parts(pending.results) = <<>> /\ Parts(images) = <<>>
    BY <1>1, NothingPended, AllPartedNone
  <2>2. Parts(Outgoing) = <<>> \o <<>> \o <<>> \o <<>>
    BY <1>2, <1>3, <1>4, <2>1, ImagesAlone
  <2>3. <<>> \o <<>> \o <<>> \o <<>> = <<>>
    BY NoneAndOne
  <2> QED
    BY <2>2, <2>3
<1>6. DOMAIN history = {} /\ DOMAIN Parts(Outgoing) = {} /\ ToSet(Parts(Outgoing)) = {}
  BY <1>1, <1>5, NoneAndOne, ToSetNoneAndOne
<1>7. OrderKept
  BY <1>6 DEF OrderKept, InOrder, Below, Complete
<1> QED
  BY <1>1, <1>3, <1>7 DEF Ordered, AllDeclared

LEMMA SameOrdered ==
  ASSUME Ordered, UNCHANGED translation, pc' = "ended" \/ pc # "ended",
         pc' # "tools" => pc # "tools"
  PROVE  Ordered'
<1>1. Outgoing' = Outgoing /\ Place' = Place
  BY DEF translation, Outgoing, Place
<1>2. OrderKept'
  BY <1>1 DEF translation, Ordered, OrderKept
<1>3. AllDeclared'
  BY DEF translation, Ordered, AllDeclared
<1>4. PartsPending'
  BY DEF translation, Ordered, PartsPending
<1> QED
  BY <1>2, <1>3, <1>4 DEF Ordered

LEMMA NextOrdered ==
  ASSUME Translated, Ordered, [Next]_vars
  PROVE  Ordered'
<1>1. Typed /\ Rest /\ Typed'
  BY NextTranslated DEF Translated
<1>2. CASE Declare
  BY <1>1, <1>2, DeclareOrdered DEF Declare
<1>3. CASE ReadNext
  BY <1>1, <1>3, ReadOrdered DEF ReadNext
<1>4. CASE Post
  BY <1>1, <1>4, EndOrdered DEF Post
<1>5. CASE FollowUp
  <2>1. pending = Nothing /\ images = <<>>
    BY <1>1, <1>5 DEF FollowUp, Rest, Reading
  <2> QED
    BY <1>1, <1>5, <2>1, FollowUpOrdered
<1>6. CASE UpstreamCalls \/ UpstreamEnds \/ Search \/ LateExcerpt \/ ClientGoes \/ Answered \/ UNCHANGED vars
  <2>1. UNCHANGED translation
    BY <1>6 DEF UpstreamCalls, UpstreamEnds, Search, LateExcerpt, ClientGoes, Answered, vars
  <2>2. (pc' = "ended" \/ pc # "ended") /\ (pc' # "tools" => pc # "tools")
    BY <1>6 DEF UpstreamCalls, UpstreamEnds, Search, LateExcerpt, ClientGoes, Answered, vars
  <2> QED
    BY <2>1, <2>2, SameOrdered
<1> QED
  BY <1>2, <1>3, <1>4, <1>5, <1>6 DEF Next

(* Items in one group are called by the same messages.                     *)
LEMMA CalledAlike ==
  ASSUME NEW out, AllParted(out), NEW a, NEW b, NEW m \in DOMAIN out, Shared(out[m].calls, a, b),
         \A i, j \in DOMAIN Parts(out) : i < j => Parts(out)[i] # Parts(out)[j]
  PROVE  CallsOf(out, a) = {m} /\ CallsOf(out, b) = {m}
<1>1. \A n \in DOMAIN out : \A k : n \in CallsOf(out, k) => Part(k, "call") \in ToSet(PartsOf(out[n]))
  <2> SUFFICES ASSUME NEW n \in DOMAIN out, NEW k, n \in CallsOf(out, k)
               PROVE  Part(k, "call") \in ToSet(PartsOf(out[n]))
    OBVIOUS
  <2> DEFINE calls == out[n].calls
             own == out[n].parts
  <2>1. PICK c \in DOMAIN calls : calls[c].item = k
    BY DEF CallsOf
  <2>2. IsSequence(calls) /\ IsSequence(own) /\ PartsOf(out[n]) = own \o CallParts(calls)
    BY PartsOfMessage DEF AllParted, Parted
  <2> HIDE DEF calls, own
  <2>3. IsSequence(CallParts(calls)) /\ Part(k, "call") \in ToSet(CallParts(calls))
    BY <2>1, <2>2, CallPartsOf DEF ToSet
  <2> QED
    BY <2>2, <2>3, ToSetJoined
<1>2. \A k : m \in CallsOf(out, k) => CallsOf(out, k) = {m}
  <2> SUFFICES ASSUME NEW k, m \in CallsOf(out, k), NEW n \in CallsOf(out, k), n # m PROVE FALSE
    OBVIOUS
  <2>1. n \in DOMAIN out
    BY DEF CallsOf
  <2>2. n < m \/ m < n
    <3>1. Len(out) \in Nat /\ DOMAIN out = 1 .. Len(out)
      BY AppendedToAny DEF AllParted
    <3> QED
      BY <2>1, <3>1
  <2>3. \E i, j \in DOMAIN Parts(out) : i < j /\ Parts(out)[i] = Part(k, "call") /\ Parts(out)[j] = Part(k, "call")
    BY <1>1, <2>1, <2>2, PartsApart
  <2> QED
    BY <2>3
<1>3. m \in CallsOf(out, a) /\ m \in CallsOf(out, b)
  BY DEF Shared, CallsOf
<1> QED
  BY <1>2, <1>3

(* Whatever the history, its items are told once each and in order, each   *)
(* as what it may become.                                                  *)
THEOREM HistoryToldInOrder == Spec => []HistoryKept
<1>1. Init => Ordered
  BY InitOrdered
<1>2. Spec => []Ordered
  BY <1>1, NextOrdered, TranslationInvariant, PTL DEF Spec
<1>3. ASSUME Translated, Ordered PROVE HistoryKept
  <2> DEFINE out == Outgoing
             parts == Parts(out)
             groups == CallGroups(messages, pending.calls)
  <2>1. Typed /\ PartsPending
    BY <1>3 DEF Translated, Ordered
  <2>2. InOrder(parts, history, groups) /\ Complete(parts, history, request)
    BY <1>3 DEF Ordered, OrderKept
  <2>3. AllParted(out)
    BY <2>1, ImagesAlone
  <2>4. \A calls \in groups : calls # <<>> => HasGroup(out, calls)
    BY <2>1, OutgoingHasGroup
  <2> HIDE DEF out, parts, groups
  <2>5. \A i, j \in DOMAIN parts : i < j => parts[i] # parts[j]
    BY <2>2 DEF InOrder, MayFollow
  <2>6. ASSUME NEW a, NEW b, MadeTogether(groups, a, b) PROVE CallsOf(out, a) = CallsOf(out, b)
    <3>1. PICK calls \in groups : Shared(calls, a, b)
      BY <2>6 DEF MadeTogether
    <3>2. calls # <<>>
      BY <3>1, NoneAndOne DEF Shared
    <3>3. PICK m \in DOMAIN out : out[m].calls = calls
      BY <2>4, <3>2 DEF HasGroup
    <3>4. CallsOf(out, a) = {m} /\ CallsOf(out, b) = {m}
      <4>1. Shared(out[m].calls, a, b)
        BY <3>1, <3>3
      <4>2. \A i, j \in DOMAIN Parts(out) : i < j => Parts(out)[i] # Parts(out)[j]
        BY <2>5 DEF parts
      <4> QED
        BY <2>3, <4>1, <4>2, CalledAlike
    <3> QED
      BY <3>4
  <2>7. \A i, j \in DOMAIN parts : i < j /\ parts[i].item > parts[j].item =>
          \/ parts[j].as = "image" /\ history[parts[i].item].kind = "output"
          \/ /\ parts[i].as = "call" /\ parts[j].as = "output"
             /\ history[parts[j].item].kind = "web_search"
             /\ CallsOf(out, parts[i].item) = CallsOf(out, parts[j].item)
    BY <2>2, <2>6 DEF InOrder, MayFollow, MayPrecede
  <2>8. \A k \in DOMAIN history :
          {parts[i].as : i \in {j \in DOMAIN parts : parts[j].item = k}} \in Forms(request, history[k])
    <3>1. \A k : {parts[i].as : i \in {j \in DOMAIN parts : parts[j].item = k}} = Became(parts, k)
      BY DEF Became, ToSet
    <3> QED
      BY <2>2, <3>1 DEF Complete
  <2> QED
    BY <2>5, <2>7, <2>8, Zenon DEF HistoryKept, out, parts
<1> QED
  BY <1>2, <1>3, TranslationInvariant, PTL
=============================================================================
