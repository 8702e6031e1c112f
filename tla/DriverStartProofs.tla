------------------------- MODULE DriverStartProofs -------------------------
(***************************************************************************)
(* Theorems about DriverStart: for any number of sockets and of places      *)
(* where the card may be, and any sequence of programs and channels.         *)
(***************************************************************************)
EXTENDS DriverStart, WellFoundedInduction, TLAPS

\* There is a highest among some sockets, and ch_open takes it.
LEMMA TakenIsHighest ==
    ASSUME NEW S \in SUBSET Sockets, S # {}
    PROVE  Taken(S) \in S /\ \A t \in S : Taken(S) >= t
  <1> DEFINE T == {NumSockets - 1 - s : s \in S}
             R == OpToRel(<, Nat)
  <1>1. NumSockets \in Nat \ {0} /\ \A s \in S : s \in 0 .. NumSockets - 1
    BY StartAssumption DEF StartAssumption, Sockets
  <1>2. T \subseteq Nat /\ T # {}
    BY <1>1
  <1>3. IsWellFoundedOn(R, Nat)
    BY NatLessThanWellFounded
  <1>4. PICK x \in T : \A y \in T : ~ (<<y, x>> \in R)
    BY <1>2, <1>3, WFMin, Zenon
  <1>5. \A y \in T : ~ (y < x)
    BY <1>2, <1>4 DEF OpToRel
  <1>6. PICK s \in S : x = NumSockets - 1 - s
    OBVIOUS
  <1>7. \A t \in S : s >= t
    BY <1>1, <1>5, <1>6
  <1> QED
    BY <1>7 DEF Taken

LEMMA InitIInv ==
    Init => IInv
  <1> SUFFICES ASSUME Init PROVE IInv
    OBVIOUS
  <1> USE StartAssumption DEF StartAssumption, Init
  <1>1. NumProbes \in Nat \ {0} /\ Positions \subseteq 0 .. NumProbes /\ MaxRuns \in Nat
    OBVIOUS
  <1>2. 0 \in 0 .. NumProbes - 1 /\ 0 \in 0 .. NumProbes /\ 0 \in 0 .. MaxRuns
    BY <1>1
  <1>3. {ready, mac, sipr, linked, altsysstack, keywords} \subseteq BOOLEAN
    OBVIOUS
  <1>4. {early, bare, stray, full} \subseteq BOOLEAN
    OBVIOUS
  <1>5. TypeOK
    BY <1>1, <1>2, <1>3, <1>4 DEF TypeOK, Programs
  <1>6. AddressNeedsMac /\ CleanStart
    BY DEF AddressNeedsMac, CleanStart
  <1>7. FoundOK /\ MacOK
    BY DEF FoundOK, MacOK, Programs, Configured, ClientSteps, NoCard
  <1>8. ProgramOK /\ ChannelsOK /\ SocketsOK
    BY DEF ProgramOK, ChannelsOK, SocketsOK, Sockets, ClientSocket
  <1> QED
    BY <1>5, <1>6, <1>7, <1>8 DEF IInv

\* A program is loaded.
LEMMA LoadKeeps ==
    ASSUME IInv, Load
    PROVE  IInv'
  <1> USE DEF Load, Run, chip, driver, history
  <1> USE StartAssumption DEF StartAssumption, IInv, NoCard
  <1>1. TypeOK'
    BY DEF TypeOK, Programs, Steps
  <1>2. AddressNeedsMac'
    BY DEF AddressNeedsMac
  <1>3. CleanStart'
    BY DEF CleanStart, FoundOK, ChannelsOK, Configured, ClientSteps
  <1>4. FoundOK'
    BY DEF FoundOK, TypeOK, ProgramOK, Programs, Configured, ClientSteps
  <1>5. MacOK'
    BY DEF MacOK, TypeOK, FoundOK, ProgramOK, Programs, Configured, ClientSteps
  <1>6. ProgramOK'
    BY DEF ProgramOK, TypeOK
  <1>7. ChannelsOK'
    BY DEF ChannelsOK, TypeOK, ProgramOK
  <1>8. SocketsOK'
    BY DEF SocketsOK, TypeOK, ClientSocket
  <1> QED
    BY <1>1, <1>2, <1>3, <1>4, <1>5, <1>6, <1>7, <1>8

\* dhcpc or tftp is executed.
LEMMA ExecKeeps ==
    ASSUME IInv, Exec
    PROVE  IInv'
  <1> USE DEF Exec, Run, chip, driver, history
  <1> USE StartAssumption DEF StartAssumption, IInv, NoCard
  <1>1. TypeOK'
    BY DEF TypeOK, Programs, Steps
  <1>2. AddressNeedsMac'
    BY DEF AddressNeedsMac
  <1>3. CleanStart'
    BY DEF CleanStart, FoundOK, ChannelsOK, Configured, ClientSteps
  <1>4. FoundOK'
    BY DEF FoundOK, TypeOK, ProgramOK, Programs, Configured, ClientSteps
  <1>5. MacOK'
    BY DEF MacOK, TypeOK, FoundOK, ProgramOK, Programs, Configured, ClientSteps
  <1>6. ProgramOK'
    BY DEF ProgramOK, TypeOK
  <1>7. ChannelsOK'
    BY DEF ChannelsOK, TypeOK, ProgramOK
  <1>8. SocketsOK'
    BY DEF SocketsOK, TypeOK, ClientSocket
  <1> QED
    BY <1>1, <1>2, <1>3, <1>4, <1>5, <1>6, <1>7, <1>8

\* The keyword OMR.
LEMMA OMRKeeps ==
    ASSUME IInv, OMR
    PROVE  IInv'
  <1> USE DEF OMR, Run, chip, driver, history
  <1> USE StartAssumption DEF StartAssumption, IInv, NoCard
  <1>1. TypeOK'
    BY DEF TypeOK, Programs, Steps
  <1>2. AddressNeedsMac'
    BY DEF AddressNeedsMac
  <1>3. CleanStart'
    BY DEF CleanStart, FoundOK, ChannelsOK, Configured, ClientSteps
  <1>4. FoundOK'
    BY DEF FoundOK, TypeOK, ProgramOK, Programs, Configured, ClientSteps
  <1>5. MacOK'
    BY DEF MacOK, TypeOK, FoundOK, ProgramOK, Programs, Configured, ClientSteps
  <1>6. ProgramOK'
    BY DEF ProgramOK, TypeOK
  <1>7. ChannelsOK'
    BY DEF ChannelsOK, TypeOK, ProgramOK
  <1>8. SocketsOK'
    BY DEF SocketsOK, TypeOK, ClientSocket
  <1> QED
    BY <1>1, <1>2, <1>3, <1>4, <1>5, <1>6, <1>7, <1>8

\* The keyword DHI: its program has found the card before.
LEMMA DHIKeeps ==
    ASSUME IInv, DHI
    PROVE  IInv'
  <1> USE DEF DHI, Run, chip, driver, history
  <1> USE StartAssumption DEF StartAssumption, IInv, NoCard
  <1>1. TypeOK'
    BY DEF TypeOK, Programs, Steps
  <1>2. AddressNeedsMac'
    BY DEF AddressNeedsMac
  <1>3. CleanStart'
    BY DEF CleanStart, FoundOK, ChannelsOK, Configured, ClientSteps
  <1>4. FoundOK'
    BY DEF FoundOK, TypeOK, ProgramOK, Programs, Configured, ClientSteps
  <1>5. MacOK'
    BY DEF MacOK, TypeOK, FoundOK, ProgramOK, Programs, Configured, ClientSteps
  <1>6. ProgramOK'
    BY DEF ProgramOK, TypeOK
  <1>7. ChannelsOK'
    BY DEF ChannelsOK, TypeOK, ProgramOK
  <1>8. SocketsOK'
    BY DEF SocketsOK, TypeOK, ClientSocket
  <1> QED
    BY <1>1, <1>2, <1>3, <1>4, <1>5, <1>6, <1>7, <1>8

\* The driver is linked: no channel was open before.
LEMMA LinkKeeps ==
    ASSUME IInv, Link
    PROVE  IInv'
  <1> USE DEF Link, Step, Continue, After, chip, driver, history
  <1> USE StartAssumption DEF StartAssumption, IInv, NoCard
  <1>1. TypeOK'
    BY DEF TypeOK, Programs, Steps
  <1>2. AddressNeedsMac'
    BY DEF AddressNeedsMac
  <1>3. CleanStart'
    BY DEF CleanStart, FoundOK, ChannelsOK, Configured, ClientSteps
  <1>4. FoundOK'
    BY DEF FoundOK, TypeOK, ProgramOK, Programs, Configured, ClientSteps
  <1>5. MacOK'
    BY DEF MacOK, TypeOK, FoundOK, ProgramOK, Programs, Configured, ClientSteps
  <1>6. ProgramOK'
    BY DEF ProgramOK, TypeOK
  <1>7. ChannelsOK'
    BY DEF ChannelsOK, TypeOK, ProgramOK
  <1>8. SocketsOK'
    BY DEF SocketsOK, TypeOK, ClientSocket
  <1> QED
    BY <1>1, <1>2, <1>3, <1>4, <1>5, <1>6, <1>7, <1>8

\* The tables are cleared: a channel that was open then was opened early.
LEMMA ClearTablesKeeps ==
    ASSUME IInv, ClearTables
    PROVE  IInv'
  <1> USE DEF ClearTables, Step, Continue, After, chip, driver, history
  <1> USE StartAssumption DEF StartAssumption, IInv, NoCard
  <1>1. TypeOK'
    BY DEF TypeOK, Programs, Steps
  <1>2. AddressNeedsMac'
    BY DEF AddressNeedsMac
  <1>3. CleanStart'
    BY DEF CleanStart, FoundOK, ChannelsOK, Configured, ClientSteps, ProgramOK
  <1>4. FoundOK'
    BY DEF FoundOK, TypeOK, ProgramOK, Programs, Configured, ClientSteps
  <1>5. MacOK'
    BY DEF MacOK, TypeOK, FoundOK, ProgramOK, Programs, Configured, ClientSteps
  <1>6. ProgramOK'
    BY DEF ProgramOK, TypeOK
  <1>7. ChannelsOK'
    BY DEF ChannelsOK, TypeOK, ProgramOK
  <1>8. SocketsOK'
    BY DEF SocketsOK, TypeOK, ClientSocket
  <1> QED
    BY <1>1, <1>2, <1>3, <1>4, <1>5, <1>6, <1>7, <1>8

\* The keywords are there.
LEMMA KeywordsKeeps ==
    ASSUME IInv, Keywords
    PROVE  IInv'
  <1> USE DEF Keywords, Step, Continue, After, chip, driver, history
  <1> USE StartAssumption DEF StartAssumption, IInv, NoCard
  <1>1. TypeOK'
    BY DEF TypeOK, Programs, Steps
  <1>2. AddressNeedsMac'
    BY DEF AddressNeedsMac
  <1>3. CleanStart'
    BY DEF CleanStart, FoundOK, ChannelsOK, Configured, ClientSteps
  <1>4. FoundOK'
    BY DEF FoundOK, TypeOK, ProgramOK, Programs, Configured, ClientSteps
  <1>5. MacOK'
    BY DEF MacOK, TypeOK, FoundOK, ProgramOK, Programs, Configured, ClientSteps
  <1>6. ProgramOK'
    BY DEF ProgramOK, TypeOK
  <1>7. ChannelsOK'
    BY DEF ChannelsOK, TypeOK, ProgramOK
  <1>8. SocketsOK'
    BY DEF SocketsOK, TypeOK, ClientSocket
  <1> QED
    BY <1>1, <1>2, <1>3, <1>4, <1>5, <1>6, <1>7, <1>8

\* The search goes on, or finds the card, or ends without.
LEMMA ProbeKeeps ==
    ASSUME IInv, Probe
    PROVE  IInv'
  <1> USE DEF Probe, ProbeEnds, Unconfigured, Continue, After, chip, driver, history
  <1> USE StartAssumption DEF StartAssumption, IInv, NoCard
  <1>1. TypeOK'
    BY DEF TypeOK, Programs, Steps
  <1>2. AddressNeedsMac'
    BY DEF AddressNeedsMac
  <1>3. CleanStart'
    BY DEF CleanStart, FoundOK, ChannelsOK, Configured, ClientSteps
  <1>4. FoundOK'
    BY DEF FoundOK, TypeOK, ProgramOK, Programs, Configured, ClientSteps
  <1>5. MacOK'
    BY DEF MacOK, TypeOK, FoundOK, ProgramOK, Programs, Configured, ClientSteps
  <1>6. ProgramOK'
    BY DEF ProgramOK, TypeOK
  <1>7. ChannelsOK'
    BY DEF ChannelsOK, TypeOK, ProgramOK
  <1>8. SocketsOK'
    BY DEF SocketsOK, TypeOK, ClientSocket
  <1> QED
    BY <1>1, <1>2, <1>3, <1>4, <1>5, <1>6, <1>7, <1>8

\* A reset takes both addresses.
LEMMA ResetKeeps ==
    ASSUME IInv, Reset
    PROVE  IInv'
  <1> USE DEF Reset, ResetChip, Written, OnCard, Step, Continue, After, chip, driver, history
  <1> USE StartAssumption DEF StartAssumption, IInv, NoCard
  <1>1. TypeOK'
    BY DEF TypeOK, Programs, Steps
  <1>2. AddressNeedsMac'
    BY DEF AddressNeedsMac
  <1>3. CleanStart'
    BY DEF CleanStart, FoundOK, ChannelsOK, Configured, ClientSteps
  <1>4. FoundOK'
    BY DEF FoundOK, TypeOK, ProgramOK, Programs, Configured, ClientSteps
  <1>5. MacOK'
    BY DEF MacOK, TypeOK, FoundOK, ProgramOK, Programs, Configured, ClientSteps
  <1>6. ProgramOK'
    BY DEF ProgramOK, TypeOK
  <1>7. ChannelsOK'
    BY DEF ChannelsOK, TypeOK, ProgramOK
  <1>8. SocketsOK'
    BY DEF SocketsOK, TypeOK, ClientSocket
  <1> QED
    BY <1>1, <1>2, <1>3, <1>4, <1>5, <1>6, <1>7, <1>8

\* The reset is over.
LEMMA WaitKeeps ==
    ASSUME IInv, Wait
    PROVE  IInv'
  <1> USE DEF Wait, Step, Continue, After, chip, driver, history
  <1> USE StartAssumption DEF StartAssumption, IInv, NoCard
  <1>1. TypeOK'
    BY DEF TypeOK, Programs, Steps
  <1>2. AddressNeedsMac'
    BY DEF AddressNeedsMac
  <1>3. CleanStart'
    BY DEF CleanStart, FoundOK, ChannelsOK, Configured, ClientSteps
  <1>4. FoundOK'
    BY DEF FoundOK, TypeOK, ProgramOK, Programs, Configured, ClientSteps
  <1>5. MacOK'
    BY DEF MacOK, TypeOK, FoundOK, ProgramOK, Programs, Configured, ClientSteps
  <1>6. ProgramOK'
    BY DEF ProgramOK, TypeOK
  <1>7. ChannelsOK'
    BY DEF ChannelsOK, TypeOK, ProgramOK
  <1>8. SocketsOK'
    BY DEF SocketsOK, TypeOK, ClientSocket
  <1> QED
    BY <1>1, <1>2, <1>3, <1>4, <1>5, <1>6, <1>7, <1>8

\* The memory is configured.
LEMMA MemoryConfigKeeps ==
    ASSUME IInv, MemoryConfig
    PROVE  IInv'
  <1> USE DEF MemoryConfig, Written, OnCard, Step, Continue, After, chip, driver, history
  <1> USE StartAssumption DEF StartAssumption, IInv, NoCard
  <1>1. TypeOK'
    BY DEF TypeOK, Programs, Steps
  <1>2. AddressNeedsMac'
    BY DEF AddressNeedsMac
  <1>3. CleanStart'
    BY DEF CleanStart, FoundOK, ChannelsOK, Configured, ClientSteps
  <1>4. FoundOK'
    BY DEF FoundOK, TypeOK, ProgramOK, Programs, Configured, ClientSteps
  <1>5. MacOK'
    BY DEF MacOK, TypeOK, FoundOK, ProgramOK, Programs, Configured, ClientSteps
  <1>6. ProgramOK'
    BY DEF ProgramOK, TypeOK
  <1>7. ChannelsOK'
    BY DEF ChannelsOK, TypeOK, ProgramOK
  <1>8. SocketsOK'
    BY DEF SocketsOK, TypeOK, ClientSocket
  <1> QED
    BY <1>1, <1>2, <1>3, <1>4, <1>5, <1>6, <1>7, <1>8

\* The MAC address is set.
LEMMA SetAddressKeeps ==
    ASSUME IInv, SetAddress
    PROVE  IInv'
  <1> USE DEF SetAddress, Written, OnCard, Step, Continue, After, chip, driver, history
  <1> USE StartAssumption DEF StartAssumption, IInv, NoCard
  <1>1. TypeOK'
    BY DEF TypeOK, Programs, Steps
  <1>2. AddressNeedsMac'
    BY DEF AddressNeedsMac
  <1>3. CleanStart'
    BY DEF CleanStart, FoundOK, ChannelsOK, Configured, ClientSteps
  <1>4. FoundOK'
    BY DEF FoundOK, TypeOK, ProgramOK, Programs, Configured, ClientSteps
  <1>5. MacOK'
    BY DEF MacOK, TypeOK, FoundOK, ProgramOK, Programs, Configured, ClientSteps
  <1>6. ProgramOK'
    BY DEF ProgramOK, TypeOK
  <1>7. ChannelsOK'
    BY DEF ChannelsOK, TypeOK, ProgramOK
  <1>8. SocketsOK'
    BY DEF SocketsOK, TypeOK, ClientSocket
  <1> QED
    BY <1>1, <1>2, <1>3, <1>4, <1>5, <1>6, <1>7, <1>8

\* DHCP takes socket 0.
LEMMA DhcpBeginKeeps ==
    ASSUME IInv, DhcpBegin
    PROVE  IInv'
  <1> USE DEF DhcpBegin, Written, OnCard, Step, Continue, After, chip, driver, history
  <1> USE StartAssumption DEF StartAssumption, IInv, NoCard
  <1>1. TypeOK'
    BY DEF TypeOK, Programs, Steps
  <1>2. AddressNeedsMac'
    BY DEF AddressNeedsMac
  <1>3. CleanStart'
    BY DEF CleanStart, FoundOK, ChannelsOK, Configured, ClientSteps
  <1>4. FoundOK'
    BY DEF FoundOK, TypeOK, ProgramOK, Programs, Configured, ClientSteps
  <1>5. MacOK'
    BY DEF MacOK, TypeOK, FoundOK, ProgramOK, Programs, Configured, ClientSteps
  <1>6. ProgramOK'
    BY DEF ProgramOK, TypeOK
  <1>7. ChannelsOK'
    BY DEF ChannelsOK, TypeOK, ProgramOK
  <1>8. SocketsOK'
    BY DEF SocketsOK, TypeOK, ClientSocket
  <1> QED
    BY <1>1, <1>2, <1>3, <1>4, <1>5, <1>6, <1>7, <1>8

\* tftp takes socket 0.
LEMMA TftpBeginKeeps ==
    ASSUME IInv, TftpBegin
    PROVE  IInv'
  <1> USE DEF TftpBegin, Written, OnCard, Step, Continue, After, chip, driver, history
  <1> USE StartAssumption DEF StartAssumption, IInv, NoCard
  <1>1. TypeOK'
    BY DEF TypeOK, Programs, Steps
  <1>2. AddressNeedsMac'
    BY DEF AddressNeedsMac
  <1>3. CleanStart'
    BY DEF CleanStart, FoundOK, ChannelsOK, Configured, ClientSteps
  <1>4. FoundOK'
    BY DEF FoundOK, TypeOK, ProgramOK, Programs, Configured, ClientSteps
  <1>5. MacOK'
    BY DEF MacOK, TypeOK, FoundOK, ProgramOK, Programs, Configured, ClientSteps
  <1>6. ProgramOK'
    BY DEF ProgramOK, TypeOK
  <1>7. ChannelsOK'
    BY DEF ChannelsOK, TypeOK, ProgramOK
  <1>8. SocketsOK'
    BY DEF SocketsOK, TypeOK, ClientSocket
  <1> QED
    BY <1>1, <1>2, <1>3, <1>4, <1>5, <1>6, <1>7, <1>8

\* A packet is given to the card.
LEMMA SendKeeps ==
    ASSUME IInv, Send
    PROVE  IInv'
  <1> USE DEF Send, Written, OnCard, Step, Continue, After, chip, driver, history
  <1> USE StartAssumption DEF StartAssumption, IInv, NoCard
  <1>1. TypeOK'
    BY DEF TypeOK, Programs, Steps
  <1>2. AddressNeedsMac'
    BY DEF AddressNeedsMac
  <1>3. CleanStart'
    BY DEF CleanStart, FoundOK, ChannelsOK, Configured, ClientSteps
  <1>4. FoundOK'
    BY DEF FoundOK, TypeOK, ProgramOK, Programs, Configured, ClientSteps
  <1>5. MacOK'
    BY DEF MacOK, TypeOK, FoundOK, ProgramOK, Programs, Configured, ClientSteps
  <1>6. ProgramOK'
    BY DEF ProgramOK, TypeOK
  <1>7. ChannelsOK'
    BY DEF ChannelsOK, TypeOK, ProgramOK
  <1>8. SocketsOK'
    BY DEF SocketsOK, TypeOK, ClientSocket
  <1> QED
    BY <1>1, <1>2, <1>3, <1>4, <1>5, <1>6, <1>7, <1>8

\* It is transmitted.
LEMMA TransmittedKeeps ==
    ASSUME IInv, Transmitted
    PROVE  IInv'
  <1> USE DEF Transmitted, chip, driver, history
  <1> USE StartAssumption DEF StartAssumption, IInv, NoCard
  <1>1. TypeOK'
    BY DEF TypeOK, Programs, Steps
  <1>2. AddressNeedsMac'
    BY DEF AddressNeedsMac
  <1>3. CleanStart'
    BY DEF CleanStart, FoundOK, ChannelsOK, Configured, ClientSteps
  <1>4. FoundOK'
    BY DEF FoundOK, TypeOK, ProgramOK, Programs, Configured, ClientSteps
  <1>5. MacOK'
    BY DEF MacOK, TypeOK, FoundOK, ProgramOK, Programs, Configured, ClientSteps
  <1>6. ProgramOK'
    BY DEF ProgramOK, TypeOK
  <1>7. ChannelsOK'
    BY DEF ChannelsOK, TypeOK, ProgramOK
  <1>8. SocketsOK'
    BY DEF SocketsOK, TypeOK, ClientSocket
  <1> QED
    BY <1>1, <1>2, <1>3, <1>4, <1>5, <1>6, <1>7, <1>8

\* sendto comes back ...
LEMMA SendtoEndsKeeps ==
    ASSUME IInv, SendtoEnds
    PROVE  IInv'
  <1> USE DEF SendtoEnds, Step, Continue, After, chip, driver, history
  <1> USE StartAssumption DEF StartAssumption, IInv, NoCard
  <1>1. TypeOK'
    BY DEF TypeOK, Programs, Steps
  <1>2. AddressNeedsMac'
    BY DEF AddressNeedsMac
  <1>3. CleanStart'
    BY DEF CleanStart, FoundOK, ChannelsOK, Configured, ClientSteps
  <1>4. FoundOK'
    BY DEF FoundOK, TypeOK, ProgramOK, Programs, Configured, ClientSteps
  <1>5. MacOK'
    BY DEF MacOK, TypeOK, FoundOK, ProgramOK, Programs, Configured, ClientSteps
  <1>6. ProgramOK'
    BY DEF ProgramOK, TypeOK
  <1>7. ChannelsOK'
    BY DEF ChannelsOK, TypeOK, ProgramOK
  <1>8. SocketsOK'
    BY DEF SocketsOK, TypeOK, ClientSocket
  <1> QED
    BY <1>1, <1>2, <1>3, <1>4, <1>5, <1>6, <1>7, <1>8

\* ... also where no card is.
LEMMA SendtoFooledKeeps ==
    ASSUME IInv, SendtoFooled
    PROVE  IInv'
  <1> USE DEF SendtoFooled, Written, OnCard, Step, Continue, After, chip, driver, history
  <1> USE StartAssumption DEF StartAssumption, IInv, NoCard
  <1>1. TypeOK'
    BY DEF TypeOK, Programs, Steps
  <1>2. AddressNeedsMac'
    BY DEF AddressNeedsMac
  <1>3. CleanStart'
    BY DEF CleanStart, FoundOK, ChannelsOK, Configured, ClientSteps
  <1>4. FoundOK'
    BY DEF FoundOK, TypeOK, ProgramOK, Programs, Configured, ClientSteps
  <1>5. MacOK'
    BY DEF MacOK, TypeOK, FoundOK, ProgramOK, Programs, Configured, ClientSteps
  <1>6. ProgramOK'
    BY DEF ProgramOK, TypeOK
  <1>7. ChannelsOK'
    BY DEF ChannelsOK, TypeOK, ProgramOK
  <1>8. SocketsOK'
    BY DEF SocketsOK, TypeOK, ClientSocket
  <1> QED
    BY <1>1, <1>2, <1>3, <1>4, <1>5, <1>6, <1>7, <1>8

\* The exchange goes on.
LEMMA AnotherKeeps ==
    ASSUME IInv, Another
    PROVE  IInv'
  <1> USE DEF Another, Continue, chip, driver, history
  <1> USE StartAssumption DEF StartAssumption, IInv, NoCard
  <1>1. TypeOK'
    BY DEF TypeOK, Programs, Steps
  <1>2. AddressNeedsMac'
    BY DEF AddressNeedsMac
  <1>3. CleanStart'
    BY DEF CleanStart, FoundOK, ChannelsOK, Configured, ClientSteps
  <1>4. FoundOK'
    BY DEF FoundOK, TypeOK, ProgramOK, Programs, Configured, ClientSteps
  <1>5. MacOK'
    BY DEF MacOK, TypeOK, FoundOK, ProgramOK, Programs, Configured, ClientSteps
  <1>6. ProgramOK'
    BY DEF ProgramOK, TypeOK
  <1>7. ChannelsOK'
    BY DEF ChannelsOK, TypeOK, ProgramOK
  <1>8. SocketsOK'
    BY DEF SocketsOK, TypeOK, ClientSocket
  <1> QED
    BY <1>1, <1>2, <1>3, <1>4, <1>5, <1>6, <1>7, <1>8

\* DHCP sets the address.
LEMMA AcquiredKeeps ==
    ASSUME IInv, Acquired
    PROVE  IInv'
  <1> USE DEF Acquired, Written, OnCard, Step, Continue, After, chip, driver, history
  <1> USE StartAssumption DEF StartAssumption, IInv, NoCard
  <1>1. TypeOK'
    BY DEF TypeOK, Programs, Steps
  <1>2. AddressNeedsMac'
    BY DEF AddressNeedsMac, MacOK, ClientSteps
  <1>3. CleanStart'
    BY DEF CleanStart, FoundOK, ChannelsOK, Configured, ClientSteps
  <1>4. FoundOK'
    BY DEF FoundOK, TypeOK, ProgramOK, Programs, Configured, ClientSteps
  <1>5. MacOK'
    BY DEF MacOK, TypeOK, FoundOK, ProgramOK, Programs, Configured, ClientSteps
  <1>6. ProgramOK'
    BY DEF ProgramOK, TypeOK
  <1>7. ChannelsOK'
    BY DEF ChannelsOK, TypeOK, ProgramOK
  <1>8. SocketsOK'
    BY DEF SocketsOK, TypeOK, ClientSocket
  <1> QED
    BY <1>1, <1>2, <1>3, <1>4, <1>5, <1>6, <1>7, <1>8

\* DHCP gives up.
LEMMA TimedOutKeeps ==
    ASSUME IInv, TimedOut
    PROVE  IInv'
  <1> USE DEF TimedOut, Step, Continue, After, chip, driver, history
  <1> USE StartAssumption DEF StartAssumption, IInv, NoCard
  <1>1. TypeOK'
    BY DEF TypeOK, Programs, Steps
  <1>2. AddressNeedsMac'
    BY DEF AddressNeedsMac
  <1>3. CleanStart'
    BY DEF CleanStart, FoundOK, ChannelsOK, Configured, ClientSteps
  <1>4. FoundOK'
    BY DEF FoundOK, TypeOK, ProgramOK, Programs, Configured, ClientSteps
  <1>5. MacOK'
    BY DEF MacOK, TypeOK, FoundOK, ProgramOK, Programs, Configured, ClientSteps
  <1>6. ProgramOK'
    BY DEF ProgramOK, TypeOK
  <1>7. ChannelsOK'
    BY DEF ChannelsOK, TypeOK, ProgramOK
  <1>8. SocketsOK'
    BY DEF SocketsOK, TypeOK, ClientSocket
  <1> QED
    BY <1>1, <1>2, <1>3, <1>4, <1>5, <1>6, <1>7, <1>8

\* tftp closes socket 0.
LEMMA TftpEndsKeeps ==
    ASSUME IInv, TftpEnds
    PROVE  IInv'
  <1> USE DEF TftpEnds, Written, OnCard, Step, Continue, After, chip, driver, history
  <1> USE StartAssumption DEF StartAssumption, IInv, NoCard
  <1>1. TypeOK'
    BY DEF TypeOK, Programs, Steps
  <1>2. AddressNeedsMac'
    BY DEF AddressNeedsMac
  <1>3. CleanStart'
    BY DEF CleanStart, FoundOK, ChannelsOK, Configured, ClientSteps
  <1>4. FoundOK'
    BY DEF FoundOK, TypeOK, ProgramOK, Programs, Configured, ClientSteps
  <1>5. MacOK'
    BY DEF MacOK, TypeOK, FoundOK, ProgramOK, Programs, Configured, ClientSteps
  <1>6. ProgramOK'
    BY DEF ProgramOK, TypeOK
  <1>7. ChannelsOK'
    BY DEF ChannelsOK, TypeOK, ProgramOK
  <1>8. SocketsOK'
    BY DEF SocketsOK, TypeOK, ClientSocket
  <1> QED
    BY <1>1, <1>2, <1>3, <1>4, <1>5, <1>6, <1>7, <1>8

\* The stack is there.
LEMMA AllocStackKeeps ==
    ASSUME IInv, AllocStack
    PROVE  IInv'
  <1> USE DEF AllocStack, Step, Continue, After, chip, driver, history
  <1> USE StartAssumption DEF StartAssumption, IInv, NoCard
  <1>1. TypeOK'
    BY DEF TypeOK, Programs, Steps
  <1>2. AddressNeedsMac'
    BY DEF AddressNeedsMac
  <1>3. CleanStart'
    BY DEF CleanStart, FoundOK, ChannelsOK, Configured, ClientSteps
  <1>4. FoundOK'
    BY DEF FoundOK, TypeOK, ProgramOK, Programs, Configured, ClientSteps
  <1>5. MacOK'
    BY DEF MacOK, TypeOK, FoundOK, ProgramOK, Programs, Configured, ClientSteps
  <1>6. ProgramOK'
    BY DEF ProgramOK, TypeOK
  <1>7. ChannelsOK'
    BY DEF ChannelsOK, TypeOK, ProgramOK
  <1>8. SocketsOK'
    BY DEF SocketsOK, TypeOK, ClientSocket
  <1> QED
    BY <1>1, <1>2, <1>3, <1>4, <1>5, <1>6, <1>7, <1>8

\* The chip comes out of reset.
LEMMA ReadyKeeps ==
    ASSUME IInv, Ready
    PROVE  IInv'
  <1> USE DEF Ready, chip, driver, history
  <1> USE StartAssumption DEF StartAssumption, IInv, NoCard
  <1>1. TypeOK'
    BY DEF TypeOK, Programs, Steps
  <1>2. AddressNeedsMac'
    BY DEF AddressNeedsMac
  <1>3. CleanStart'
    BY DEF CleanStart, FoundOK, ChannelsOK, Configured, ClientSteps
  <1>4. FoundOK'
    BY DEF FoundOK, TypeOK, ProgramOK, Programs, Configured, ClientSteps
  <1>5. MacOK'
    BY DEF MacOK, TypeOK, FoundOK, ProgramOK, Programs, Configured, ClientSteps
  <1>6. ProgramOK'
    BY DEF ProgramOK, TypeOK
  <1>7. ChannelsOK'
    BY DEF ChannelsOK, TypeOK, ProgramOK
  <1>8. SocketsOK'
    BY DEF SocketsOK, TypeOK, ClientSocket
  <1> QED
    BY <1>1, <1>2, <1>3, <1>4, <1>5, <1>6, <1>7, <1>8

\* A channel is opened: the last socket to go is 0.
LEMMA ChOpenKeeps ==
    ASSUME IInv, NEW kind \in Kinds, ChOpen(kind)
    PROVE  IInv'
  <1> DEFINE taken == Taken(FreeSockets)
  <1>0. Opened(kind) \subseteq {"channel", "closed", "init"}
    BY DEF Opened, Kinds
  <1>1. FreeSockets \subseteq Sockets /\ FreeSockets # {}
    BY DEF ChOpen, FreeSockets
  <1>2. taken \in FreeSockets /\ \A t \in FreeSockets : taken >= t
    BY <1>1, TakenIsHighest
  <1>3. \A t \in FreeSockets : t \in Nat
    BY <1>1, StartAssumption DEF StartAssumption, Sockets
  <1>4. taken = ClientSocket => FreeSockets = {taken}
    BY <1>2, <1>3 DEF ClientSocket
  <1>5. /\ linked /\ taken \in Sockets
        /\ peers' = [peers EXCEPT ![taken] = "peer"] /\ recv_buf' = recv_buf \cup {taken}
        /\ \/ sock' = sock
           \/ \E status \in Opened(kind) : sock' = [sock EXCEPT ![taken] = status]
        /\ sent' \in {"no", sent}
        /\ full' = (full \/ FreeSockets = {taken})
        /\ stray' = (stray \/ (kind # "SCK" /\ ~OnCard("qedrv")))
        /\ early' = (early \/ job = "qedrv")
    BY <1>1, <1>2 DEF ChOpen, Starting
  <1>6. UNCHANGED <<at, ready, mac, sipr, base, i, job, step, linked, altsysstack, keywords,
                    runs, bare>>
    BY DEF ChOpen
  <1> HIDE DEF taken
  <1> USE <1>5, <1>6 DEF IInv
  <1>7. TypeOK'
    <2>1. stray' \in BOOLEAN /\ early' \in BOOLEAN /\ full' \in BOOLEAN
      BY DEF TypeOK
    <2>2. sock' \in [Sockets -> {"closed", "channel", "init", "client"}]
      BY <1>0 DEF TypeOK
    <2>3. sent' \in {"no", "out", "done"} /\ peers' \in [Sockets -> {"none", "peer"}]
      BY DEF TypeOK
    <2> QED
      BY <2>1, <2>2, <2>3 DEF TypeOK
  <1>8. AddressNeedsMac'
    BY DEF AddressNeedsMac
  <1>9. CleanStart'
    <2>1. SUFFICES ASSUME ~early' PROVE CleanStart'
      BY DEF CleanStart
    <2>2. at # NoCard => OnCard("qedrv")
      BY <2>1 DEF FoundOK, OnCard
    <2>3. recv_buf' = {s \in Sockets : peers'[s] # "none"}
      BY <2>1 DEF CleanStart, TypeOK, Kinds
    <2> QED
      BY <2>1, <2>2, <2>3 DEF CleanStart
  <1>10. FoundOK' /\ MacOK' /\ ProgramOK'
    BY DEF FoundOK, MacOK, ProgramOK
  <1>11. ChannelsOK'
    BY DEF ChannelsOK, TypeOK
  <1>12. SocketsOK'
    <2>1. ClientSocket \in Sockets
      BY StartAssumption DEF StartAssumption, Sockets, ClientSocket
    <2>2. peers'[ClientSocket] # "none" => full'
      BY <1>4, <2>1 DEF SocketsOK, TypeOK
    <2>3. \A s \in Sockets : sock'[s] = "client" => s = ClientSocket
      BY <1>0 DEF SocketsOK, TypeOK
    <2> QED
      BY <2>2, <2>3 DEF SocketsOK
  <1> QED
    BY <1>7, <1>8, <1>9, <1>10, <1>11, <1>12

\* A channel is closed.
LEMMA ChCloseKeeps ==
    ASSUME IInv, NEW s \in Sockets, ChClose(s)
    PROVE  IInv'
  <1> USE DEF ChClose, OnCard, chip, driver, history
  <1> USE StartAssumption DEF StartAssumption, IInv, NoCard
  <1>1. TypeOK'
    BY DEF TypeOK, Programs, Steps
  <1>2. AddressNeedsMac'
    BY DEF AddressNeedsMac
  <1>3. CleanStart'
    BY DEF CleanStart, FoundOK, ChannelsOK, Configured, ClientSteps, TypeOK
  <1>4. FoundOK'
    BY DEF FoundOK, TypeOK, ProgramOK, Programs, Configured, ClientSteps
  <1>5. MacOK'
    BY DEF MacOK, TypeOK, FoundOK, ProgramOK, Programs, Configured, ClientSteps
  <1>6. ProgramOK'
    BY DEF ProgramOK, TypeOK
  <1>7. ChannelsOK'
    BY DEF ChannelsOK, TypeOK, ProgramOK
  <1>8. SocketsOK'
    BY DEF SocketsOK, TypeOK, ClientSocket
  <1> QED
    BY <1>1, <1>2, <1>3, <1>4, <1>5, <1>6, <1>7, <1>8

\* A channel is used.
LEMMA ChIoKeeps ==
    ASSUME IInv, NEW s \in Sockets, ChIo(s)
    PROVE  IInv'
  <1> USE DEF ChIo, Stack, chip, driver, history
  <1> USE StartAssumption DEF StartAssumption, IInv, NoCard
  <1>1. TypeOK'
    BY DEF TypeOK, Programs, Steps
  <1>2. AddressNeedsMac'
    BY DEF AddressNeedsMac
  <1>3. CleanStart'
    BY DEF CleanStart, FoundOK, ChannelsOK, Configured, ClientSteps
  <1>4. FoundOK'
    BY DEF FoundOK, TypeOK, ProgramOK, Programs, Configured, ClientSteps
  <1>5. MacOK'
    BY DEF MacOK, TypeOK, FoundOK, ProgramOK, Programs, Configured, ClientSteps
  <1>6. ProgramOK'
    BY DEF ProgramOK, TypeOK
  <1>7. ChannelsOK'
    BY DEF ChannelsOK, TypeOK, ProgramOK
  <1>8. SocketsOK'
    BY DEF SocketsOK, TypeOK, ClientSocket
  <1> QED
    BY <1>1, <1>2, <1>3, <1>4, <1>5, <1>6, <1>7, <1>8

-----------------------------------------------------------------------------
LEMMA IInvIsInductive ==
    ASSUME IInv, [Next]_vars
    PROVE  IInv'
  <1>1. CASE Load \/ Exec \/ OMR \/ DHI
    BY <1>1, LoadKeeps, ExecKeeps, OMRKeeps, DHIKeeps
  <1>2. CASE Working
    BY <1>2, LinkKeeps, ClearTablesKeeps, KeywordsKeeps, ProbeKeeps, ResetKeeps, WaitKeeps,
       MemoryConfigKeeps, SetAddressKeeps, DhcpBeginKeeps, TftpBeginKeeps, SendKeeps,
       SendtoEndsKeeps, AnotherKeeps, AcquiredKeeps, TimedOutKeeps, TftpEndsKeeps,
       AllocStackKeeps DEF Working, ExchangeEnds
  <1>3. CASE Ready \/ Transmitted \/ SendtoFooled
    BY <1>3, ReadyKeeps, TransmittedKeeps, SendtoFooledKeeps
  <1>4. CASE Jobs
    BY <1>4, ChOpenKeeps, ChCloseKeeps, ChIoKeeps DEF Jobs
  <1>5. CASE UNCHANGED vars
    BY <1>5 DEF IInv, TypeOK, AddressNeedsMac, CleanStart, FoundOK, MacOK, ProgramOK,
       ChannelsOK, SocketsOK, vars, chip, driver, history
  <1> QED
    BY <1>1, <1>2, <1>3, <1>4, <1>5 DEF Next

\* The inductive invariant of the programs and the channels: what is configured,
\* linked and reserved agrees with how far each program has come.
THEOREM StartInvariant == Spec => []IInv
  <1> QED
    BY InitIInv, IInvIsInductive, PTL DEF Spec

\* w5300_configure and dhcpc_init, of whatever program and after whatever resets:
\* no IP address without the MAC address.
THEOREM MacBeforeAddress == Spec => []AddressNeedsMac
  <1>1. IInv => AddressNeedsMac
    BY DEF IInv
  <1> QED
    BY <1>1, StartInvariant, PTL

\* A start that no channel was too early for: ch_io_stub has its stack, ch_open
\* and ch_close write to the card, and main does not take a buffer away.
THEOREM StartIsClean == Spec => []CleanStart
  <1>1. IInv => CleanStart
    BY DEF IInv
  <1> QED
    BY <1>1, StartInvariant, PTL

\* Socket 0, which dhcpc_init and tftp open, is the last that ch_open reserves.
THEOREM ClientSocketIsLast == Spec => []ClientTakesTheLast
  <1>1. IInv => ClientTakesTheLast
    BY DEF IInv, SocketsOK, ClientTakesTheLast
  <1> QED
    BY <1>1, StartInvariant, PTL
=============================================================================
