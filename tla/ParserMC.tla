------------------------------ MODULE ParserMC ------------------------------
(* The requests of the runs of Parser. *)
EXTENDS Parser

Ask1(topic, id, content) ==
  [topic |-> topic, id |-> id, subject |-> SubjectOf[topic], content |-> content]

AskState == [Ask1("states", GET, << >>) EXCEPT !.subject = STATE_]

Type(name) == <<StatisticsTypes[name]>>

(* One request of each callback, both subjects of states, the requests     *)
(* whose arguments are cached, and three that are refused.                 *)
EachCallback ==
  {Ask1(t, GET, << >>) : t \in Topics \ {"data", "polling", "statistics"}}
    \cup {AskState, Ask1("data", SEND, <<7>>), Ask1("polling", SET, <<8>>),
          Ask1("neighbours", DELETE, <<9>>), Ask1("discovery", START, <<5>>),
          Ask1("statistics", GET, Type("paths"))}
    \cup {Ask1("routing", SET, << >>), Ask1("address", STOP, << >>),
          Ask1("statistics", CLEAR, Type("paths"))}

(* For the runs about the answer timer: an answer that is published, and a *)
(* request that is refused.                                                *)
Few == {Ask1("address", GET, << >>), Ask1("routing", SET, <<3>>),
        Ask1("states", GET, << >>), Ask1("protocol", STOP, << >>)}

GetAndSet == {Ask1("address", GET, << >>), Ask1("address", SET, <<3>>)}
=============================================================================
