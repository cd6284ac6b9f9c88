------------------------- MODULE BlockMonitorProofs -------------------------
(* Proof that the polling chain of the block monitor neither breaks nor      *)
(* doubles, however long the node's chain and however many calls fail.       *)
EXTENDS BlockMonitor, SequenceTheorems, DataTheorems

(* Before main starts the monitor nothing is asked or scheduled. *)
QuietBeforeStart == ~ ran => ~ started /\ ~ src_id /\ asked = <<>>

MonitorInv == MonitorTypeOK /\ QuietBeforeStart /\ OneChain

LEMMA MonitorInitInv == MonitorInit => MonitorInv
  <1> SUFFICES ASSUME MonitorInit PROVE MonitorInv
    OBVIOUS
  <1>1. MonitorTypeOK
    <2>1. <<>> \in Seq(0 .. MaxHeight) /\ 0 \in 0 .. MaxHeight
          /\ 0 \in 0 .. MaxFailures
      BY MonitorAssumption
    <2>2. FALSE \in BOOLEAN
      OBVIOUS
    <2> QED
      BY <2>1, <2>2 DEF MonitorInit, MonitorTypeOK
  <1>2. QuietBeforeStart /\ OneChain
    BY DEF MonitorInit, QuietBeforeStart, OneChain
  <1> QED
    BY <1>1, <1>2 DEF MonitorInv

LEMMA MonitorStepInv == MonitorInv /\ [MonitorNext]_monitorVars => MonitorInv'
  <1> SUFFICES ASSUME MonitorInv, [MonitorNext]_monitorVars PROVE MonitorInv'
    OBVIOUS
  <1>a. /\ height \in 0 .. MaxHeight /\ MaxHeight \in Nat /\ MaxFailures \in Nat
        /\ currentBlock \in 0 .. MaxHeight
        /\ started \in BOOLEAN /\ src_id \in BOOLEAN /\ ran \in BOOLEAN
        /\ asked \in Seq(0 .. MaxHeight) /\ Len(asked) \in Nat
        /\ failures \in 0 .. MaxFailures
        /\ QuietBeforeStart /\ OneChain
    BY MonitorAssumption, LenProperties DEF MonitorInv, MonitorTypeOK
  <1>b. /\ started /\ src_id => Len(asked) = 0
        /\ started /\ ~ src_id => Len(asked) = 1
        /\ ~ started => ~ src_id /\ Len(asked) \in {0, 1}
    <2> DEFINE n == Len(asked)
    <2>1. n \in Nat
      BY <1>a
    <2>2. CASE started /\ src_id
      <3>1. n + 1 = 1
        BY <1>a, <2>2 DEF OneChain
      <3> QED
        BY <2>1, <2>2, <3>1
    <2>3. CASE started /\ ~ src_id
      <3>1. n + 0 = 1
        BY <1>a, <2>3 DEF OneChain
      <3> QED
        BY <2>1, <2>3, <3>1
    <2>4. CASE ~ started
      <3>1. n <= 1 /\ (IF src_id THEN 1 ELSE 0) = 0
        BY <1>a, <2>4 DEF OneChain
      <3>2. n \in {0, 1}
        BY <2>1, <3>1
      <3>3. ~ src_id
        BY <3>1
      <3> QED
        BY <2>4, <3>2, <3>3
    <2> QED
      BY <2>2, <2>3, <2>4
  <1>e. Len(asked) = 0 \/ Len(asked) = 1
    BY <1>a, <1>b, Zenon
  (* What is left to show of a step. *)
  <1>f. ASSUME MonitorTypeOK', QuietBeforeStart',
               started' /\ src_id' => Len(asked') = 0,
               started' /\ ~ src_id' => Len(asked') = 1,
               ~ started' => ~ src_id' /\ Len(asked') \in {0, 1}
        PROVE  MonitorInv'
    <2>1. CASE started' /\ src_id'
      BY <1>f, <2>1 DEF MonitorInv, OneChain
    <2>2. CASE started' /\ ~ src_id'
      BY <1>f, <2>2 DEF MonitorInv, OneChain
    <2>3. CASE ~ started'
      <3>1. Len(asked') <= 1
        BY <1>f, <2>3
      <3> QED
        BY <1>f, <2>3, <3>1 DEF MonitorInv, OneChain
    <2> QED
      BY <2>1, <2>2, <2>3
  (* A call made. *)
  <1>c. ASSUME AskBlockCount
        PROVE  asked' \in Seq(0 .. MaxHeight) /\ Len(asked') = Len(asked) + 1
    BY <1>a, <1>c, AppendProperties DEF AskBlockCount
  (* A call completed. *)
  <1>d. ASSUME NEW i \in DOMAIN asked, asked' = RemoveAt(asked, i)
        PROVE  /\ asked' \in Seq(0 .. MaxHeight) /\ Len(asked') = Len(asked) - 1
               /\ Len(asked) = 1 /\ ran
    <2>1. i \in 1 .. Len(asked)
      BY <1>a, <1>d, LenProperties
    <2>2. Len(RemoveAt(asked, i)) = Len(asked) - 1
          /\ RemoveAt(asked, i) \in Seq(0 .. MaxHeight)
      <3>1. /\ RemoveAt(asked, i) \in Seq(0 .. MaxHeight)
            /\ DOMAIN RemoveAt(asked, i) = 1 .. Len(asked) - 1
        BY <1>a, <2>1, RemoveAtElements
      <3>2. DOMAIN RemoveAt(asked, i) = 1 .. Len(RemoveAt(asked, i))
            /\ Len(RemoveAt(asked, i)) \in Nat /\ Len(asked) \in Nat
        BY <1>a, <3>1, LenProperties
      <3> QED
        BY <2>1, <3>1, <3>2
    <2>3. Len(asked) = 1
      BY <1>e, <2>1
    <2>4. ran
      BY <1>a, <2>1 DEF QuietBeforeStart
    <2> QED
      BY <1>d, <2>2, <2>3, <2>4
  <1>1. CASE NodeGrows
    <2>1. /\ height' \in 0 .. MaxHeight
          /\ UNCHANGED <<currentBlock, started, src_id, asked, failures, ran>>
      BY <1>1, <1>a DEF NodeGrows
    <2>2. MonitorTypeOK' /\ QuietBeforeStart'
      BY <1>a, <2>1 DEF MonitorTypeOK, QuietBeforeStart
    <2> QED
      BY <1>b, <1>f, <2>1, <2>2
  <1>2. CASE Start
    <2>1. Len(asked) = 0
      BY <1>2, <1>a DEF Start, QuietBeforeStart
    <2>2. asked' \in Seq(0 .. MaxHeight) /\ Len(asked') = 1
      BY <1>2, <1>c, <2>1 DEF Start
    <2>3. /\ started' = TRUE /\ ran' = TRUE /\ src_id' = FALSE
          /\ UNCHANGED <<height, currentBlock, failures>>
      BY <1>2 DEF Start
    <2>4. MonitorTypeOK' /\ QuietBeforeStart'
      BY <1>a, <2>2, <2>3 DEF MonitorTypeOK, QuietBeforeStart
    <2> QED
      BY <1>f, <2>2, <2>3, <2>4
  <1>3. CASE Stop
    <2>1. started /\ ran
      BY <1>3, <1>a DEF Stop, QuietBeforeStart
    <2>2. /\ started' = FALSE /\ src_id' = FALSE
          /\ UNCHANGED <<height, currentBlock, asked, failures, ran>>
      BY <1>3 DEF Stop
    <2>3. MonitorTypeOK' /\ QuietBeforeStart'
      BY <1>a, <2>1, <2>2 DEF MonitorTypeOK, QuietBeforeStart
    <2> QED
      BY <1>e, <1>f, <2>2, <2>3
  <1>4. CASE CheckBlock
    <2>1. started /\ ran /\ Len(asked) = 0
      BY <1>4, <1>a, <1>b DEF CheckBlock, QuietBeforeStart
    <2>2. asked' \in Seq(0 .. MaxHeight) /\ Len(asked') = 1
      BY <1>4, <1>c, <2>1 DEF CheckBlock
    <2>3. /\ src_id' = FALSE
          /\ UNCHANGED <<height, currentBlock, started, failures, ran>>
      BY <1>4 DEF CheckBlock
    <2>4. MonitorTypeOK' /\ QuietBeforeStart'
      BY <1>a, <2>1, <2>2, <2>3 DEF MonitorTypeOK, QuietBeforeStart
    <2> QED
      BY <1>f, <2>1, <2>2, <2>3, <2>4
  (* An answer, or a failure: the next timeout is set if the monitor runs. *)
  <1>5. ASSUME NEW i \in DOMAIN asked, asked' = RemoveAt(asked, i),
               src_id' = started, MonitorTypeOK', UNCHANGED <<started, ran>>
        PROVE  MonitorInv'
    <2>1. Len(asked') = 0 /\ ran
      BY <1>5, <1>a, <1>d
    <2>2. QuietBeforeStart'
      BY <1>5, <2>1 DEF QuietBeforeStart
    <2> QED
      BY <1>5, <1>f, <2>1, <2>2
  <1>6. ASSUME NEW i \in DOMAIN asked, OnBlockCountFailed(i)
        PROVE  MonitorInv'
    <2>1. /\ failures' \in 0 .. MaxFailures /\ src_id' = started
          /\ asked' = RemoveAt(asked, i)
          /\ UNCHANGED <<height, currentBlock, started, ran>>
      BY <1>6, <1>a DEF OnBlockCountFailed, Rearmed
    <2>2. MonitorTypeOK'
      BY <1>a, <1>d, <2>1 DEF MonitorTypeOK
    <2> QED
      BY <1>5, <2>1, <2>2
  <1>7. ASSUME NEW i \in DOMAIN asked, NEW block \in 0 .. MaxHeight,
               OnBlockCount(i, block)
        PROVE  MonitorInv'
    <2>1. /\ currentBlock' \in 0 .. MaxHeight /\ src_id' = started
          /\ asked' = RemoveAt(asked, i)
          /\ UNCHANGED <<height, failures, started, ran>>
      BY <1>7, <1>a DEF OnBlockCount, Seen, Rearmed
    <2>2. MonitorTypeOK'
      BY <1>a, <1>d, <2>1 DEF MonitorTypeOK
    <2> QED
      BY <1>5, <2>1, <2>2
  <1>8. CASE UNCHANGED monitorVars
    <2>1. UNCHANGED <<height, currentBlock, started, src_id, asked, failures,
                      ran>>
      BY <1>8 DEF monitorVars
    <2>2. MonitorTypeOK' /\ QuietBeforeStart'
      BY <1>a, <2>1 DEF MonitorTypeOK, QuietBeforeStart
    <2> QED
      BY <1>b, <1>f, <2>1, <2>2
  <1> QED
    BY <1>1, <1>2, <1>3, <1>4, <1>6, <1>7, <1>8 DEF MonitorNext, BlockCountEnds

LEMMA MonitorInvariant == MonitorSpec => []MonitorInv
  BY MonitorInitInv, MonitorStepInv, PTL DEF MonitorSpec

(* There is one call or one timeout while the monitor runs, whichever calls  *)
(* fail, and no timeout once it is stopped.                                  *)
THEOREM ChainIsOne == MonitorSpec => []OneChain
  <1>1. MonitorInv => OneChain
    BY DEF MonitorInv
  <1> QED
    BY <1>1, MonitorInvariant, PTL

(* Type correctness of the monitor.                                          *)
THEOREM MonitorTypes == MonitorSpec => []MonitorTypeOK
  <1>1. MonitorInv => MonitorTypeOK
    BY DEF MonitorInv
  <1> QED
    BY <1>1, MonitorInvariant, PTL
=============================================================================
