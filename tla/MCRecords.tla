------------------------------- MODULE MCRecords -------------------------------
(* Configuration files: whole ones, the example of the README, and odd ones. *)
EXTENDS Records, TLC

Mem(k, v) == [key |-> k, val |-> v]
Id(ns, kind, w) == <<<<"ns", ns>>, <<kind, w>>>>
NodeOf(id, topicName, alias) == <<Mem("id", id), Mem("topic", topicName), Mem("alias", alias)>>
GroupOf(name, method, format, enable, nodes) ==
  <<Mem("name", name), Mem("enable", enable), Mem("method", method), Mem("intervalUSec", "3000"), Mem("topic", name),
    Mem("mqtt", "yes"), Mem("tcp", "no"), Mem("format", format), Mem("nodes", nodes)>>
SinCos == <<NodeOf(Id("3", "s", "sin"), "sin", ""), NodeOf(Id("3", "s", "cos"), "cos", "")>>
MinMax == <<NodeOf(Id("1", "i", "1456"), "min", "low"), NodeOf(Id("1", "i", "1457"), "max", "")>>
Odd == << <<Mem("id", Id("65537", "i", "1456")), Mem("t", "min"), Mem("alias", "")>>,
          <<Mem("alias", "x"), Mem("other", "y")>> >>
WholeFile == {"device-configuration", "server-configuration"} \cup DevicePaths \cup ServerPaths
File(name, method, async, map) ==
  [name |-> name, args |-> TRUE, readable |-> TRUE, syntax |-> TRUE, present |-> WholeFile,
   method |-> method, async |-> async, map |-> map]
Two == <<GroupOf("math", "poll", "kv", "yes", SinCos), GroupOf("camera", "poll", "json", "yes", <<MinMax[1]>>)>>
Both == <<GroupOf("math", "poll", "k", "yes", SinCos), GroupOf("camera", "even", "json", "yes", MinMax)>>
Short == <<SubSeq(GroupOf("camera", "poll", "json", "yes", Odd), 1, 5) \o <<Mem("f", "kv"), Mem("n", "camera"), Mem("nodes", Odd)>> >>

AmqpPaths == {"amqpRabbit", "amqp.enable", "amqp.ip", "amqp.port", "amqp.topicBase"}
ReadmeNodes == <<NodeOf(Id("1", "s", "sound_data"), "sound", ""), NodeOf(Id("1", "s", "temp_data"), "temp", "")>>
Readme ==
  [File("readme", "poll", FALSE, <<SelectSeq(GroupOf("test", "poll", "json", "yes", ReadmeNodes), LAMBDA e : e.key # "tcp")>>)
     EXCEPT !.present = WholeFile \ AmqpPaths]

MCDocuments ==
  {File("two", "poll", FALSE, Two), File("both", "poll", TRUE, Both), File("events", "ev", FALSE, Both),
   File("short", "poll", FALSE, Short),
   File("unknown", "poll", FALSE, <<<<Mem("comment", "x")>> \o Two[1]>>),
   File("noNode", "poll", FALSE, <<GroupOf("g", "poll", "kv", "yes", <<<<Mem("id", Id("1", "i", "1"))>> >>)>>),
   File("ids", "poll", FALSE, <<GroupOf("g", "poll", "kv", "yes", <<NodeOf(<<<<"i", "85">>>>, "a", "")>>)>>),
   [File("empty", "poll", FALSE, <<>>) EXCEPT !.present = {}],
   [File("syntax", "poll", FALSE, Two) EXCEPT !.syntax = FALSE],
   [File("none", "poll", FALSE, Two) EXCEPT !.readable = FALSE],
   [File("args", "poll", FALSE, Two) EXCEPT !.args = FALSE],
   Readme}
MCAbbreviations == [t |-> {"topic", "tcp"}, n |-> {"name", "nodes"}, f |-> {"format"}, m |-> {"method", "mqtt"}]
MCNumeral == ("1" :> 1) @@ ("3" :> 3) @@ ("85" :> 85) @@ ("1456" :> 1456) @@ ("1457" :> 1457) @@ ("65537" :> 65537)
MCReadings == {[type |-> "Int32", v |-> 1], [type |-> "UInt32", v |-> 6], [type |-> "String", v |-> 0], [type |-> "Failed", v |-> 0]}
================================================================================
