----------------------------- MODULE MCNl80211 -----------------------------
(* The parser fed with dumps of two stations, the second of which reports  *)
(* less than the first, with messages that are skipped or cut off, bare    *)
(* streams and synthetic frames.                                           *)
EXTENDS Nl80211

CONSTANTS near, far

MCMac == {near, far}
MCByte == {0, 7, 200, 255}
MCCount == {5}
MCQueueSizes == {0, MAX_Q + 1}

Attr(type, value) == [type |-> type, value |-> value]
Signal(b) == Attr("SIGNAL", b)
Rate(b) == Attr("TX_BITRATE", <<Attr("MCS", b)>>)

\* near reports everything; far has no signal, or nothing but its address.
NearAttrs == <<Attr("MAC", near),
               Attr("STA_INFO", <<Signal(200), Attr("TX_RETRIES", 5), Rate(7)>>)>>
FarAttrs == {<<Attr("MAC", far), Attr("STA_INFO", <<Rate(0)>>)>>, <<Attr("MAC", far)>>}
NoStation == {<<>>, <<Attr("STA_INFO", <<Rate(7)>>)>>}
\* Attributes that come twice, and addresses that follow what they are about.
Repeated == <<Attr("STA_INFO", <<Signal(7), Rate(7), Rate(0)>>), Attr("MAC", far),
              Attr("STA_INFO", <<Signal(200)>>), Attr("MAC", near)>>
AnyAttrs == {NearAttrs, Repeated, <<Attr("STA_INFO", <<Signal(200)>>)>>}
              \cup FarAttrs \cup NoStation

Message(header, attrs) == [header |-> header, attrs |-> attrs]
Framed(messages) == [bare |-> FALSE, messages |-> messages]

MCBuffers ==
  {[bare |-> TRUE, attrs |-> attrs] : attrs \in AnyAttrs} \cup
  {Framed(<<Message("STATION", attrs)>>) : attrs \in AnyAttrs} \cup
  {Framed(<<Message("STATION", NearAttrs), Message("STATION", attrs)>>) : attrs \in AnyAttrs} \cup
  {Framed(<<Message("STATION", NearAttrs), Message(h, <<>>), Message("STATION", attrs)>>) :
     h \in {"SHORT", "CUT"}, attrs \in FarAttrs}

Synth(signal, mcs) == [mac |-> near, signal |-> signal, mcs |-> mcs, retries |-> 5]
MCFrames == {Synth(-56, 0), Synth(-300, NoMcs)}
=============================================================================
