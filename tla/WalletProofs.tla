------------------------------ MODULE WalletProofs ------------------------------
(***************************************************************************)
(* The wallet screen, for any signers, descriptors, directories and        *)
(* indices: normalizing a wallet changes neither its keys nor its          *)
(* validity, the files stay with their network, and what Save leaves is    *)
(* what the next start shows.                                              *)
(***************************************************************************)
EXTENDS WalletSetup, FiniteSetTheorems, TLAPS

-------------------------------------------------------------------------------
(* Networks and descriptors.                                               *)

LEMMA NetworkFacts ==
  ASSUME NEW n \in NetworkNames
  PROVE  /\ CanonicalName(n) \in NetworkNames \ {"mainnet"}
         /\ CanonicalName(CanonicalName(n)) = CanonicalName(n)
         /\ NetworkValue(CanonicalName(n)) = NetworkValue(n)
         /\ Folder(CanonicalName(n)) = Folder(n)
         /\ Folder(n) \in Folders \cup {None}
         /\ n # "regtest" => Folder(n) \in Folders /\ CanonicalName(n) # "regtest"
         /\ CanonicalName(n) = "regtest" <=> n = "regtest"
BY DEF NetworkNames, CanonicalName, NetworkValue, Folder, Folders

LEMMA FolderNone ==
  ASSUME NEW n \in NetworkNames
  PROVE  Folder(n) = None <=> n = "regtest"
BY SetupAssumption DEF NetworkNames, Folder, Folders

\* A descriptor written out has the signers and the architecture it was written from.
LEMMA RoundTrip ==
  ASSUME NEW signers \in Seq(Signers), NEW arch \in WalletKeyArch
  PROVE  LET text == DescriptorFromSigners(signers, arch)
         IN  /\ text \in Text
             /\ text.layout = "tidy"
             /\ SignersOf(text) = signers
             /\ ArchOf(text) = arch
             /\ DOMAIN text.parts = DOMAIN signers
             /\ Len(text.parts) = Len(signers)
             /\ Parses(text)
             /\ \A i \in DOMAIN signers : text.parts[i].signer = signers[i]
<1> DEFINE text == DescriptorFromSigners(signers, arch)
           part(i) == [signer |-> signers[i], tail |-> TailOfSigner(arch)]
           parts == [i \in DOMAIN signers |-> part(i)]
<1>1. TailOfSigner(arch) \in Tails /\ TailOfAggregate(arch) \in Tails
  BY DEF TailOfSigner, TailOfAggregate, Tails
<1>2. DOMAIN signers = 1..Len(signers) /\ Len(signers) \in Nat
      /\ \A i \in DOMAIN signers : signers[i] \in Signers
  OBVIOUS
<1>3. parts \in [1..Len(signers) -> [signer : Signers, tail : Tails]]
  BY <1>1, <1>2
<1>4. parts \in Seq([signer : Signers, tail : Tails]) /\ Len(parts) = Len(signers)
  BY <1>2, <1>3
<1>5. text = [parts |-> parts, tail |-> TailOfAggregate(arch), layout |-> "tidy"]
  BY DEF DescriptorFromSigners
<1>6. text \in Text /\ text.parts = parts /\ text.tail = TailOfAggregate(arch)
      /\ text.layout = "tidy"
  BY <1>1, <1>4, <1>5 DEF Text
<1>7. ArchOf(text) = arch
  BY <1>6 DEF ArchOf, TailOfAggregate, Step, WalletKeyArch, AggregateThenDerive,
     DeriveThenAggregate
<1>8. \A i \in DOMAIN signers : text.parts[i].signer = signers[i]
                                /\ text.parts[i].tail = TailOfSigner(arch)
  BY <1>6
<1>9. DOMAIN text.parts = DOMAIN signers
  BY <1>6
<1>10. SignersOf(text) = signers
  BY <1>2, <1>8, <1>9 DEF SignersOf
<1>11. Parses(text)
  BY <1>7, <1>8, <1>9 DEF Parses
<1> HIDE DEF text, parts
<1> QED BY <1>4, <1>6, <1>7, <1>8, <1>9, <1>10, <1>11 DEF text

LEMMA SignersTyped ==
  ASSUME NEW text \in Text
  PROVE  /\ SignersOf(text) \in Seq(Signers)
         /\ DOMAIN SignersOf(text) = DOMAIN text.parts
         /\ Len(SignersOf(text)) = Len(text.parts)
         /\ \A i \in DOMAIN text.parts : SignersOf(text)[i] = text.parts[i].signer
         /\ ArchOf(text) \in WalletKeyArch
<1>1. text.parts \in Seq([signer : Signers, tail : Tails])
  BY DEF Text
<1>2. DOMAIN text.parts = 1..Len(text.parts) /\ Len(text.parts) \in Nat
      /\ \A i \in DOMAIN text.parts : text.parts[i].signer \in Signers
  <2> DEFINE Part == [signer : Signers, tail : Tails]
             parts == text.parts
  <2>1. \A part \in Part : part.signer \in Signers
    OBVIOUS
  <2>2. parts \in Seq(Part)
    BY <1>1
  <2> HIDE DEF Part, parts
  <2>3. DOMAIN parts = 1..Len(parts) /\ Len(parts) \in Nat
        /\ \A i \in DOMAIN parts : parts[i] \in Part
    BY <2>2
  <2> QED BY <2>1, <2>3 DEF parts
<1>3. SignersOf(text) \in [1..Len(text.parts) -> Signers]
  BY <1>2 DEF SignersOf
<1>4. ArchOf(text) \in WalletKeyArch
  BY DEF ArchOf, WalletKeyArch
<1> QED BY <1>2, <1>3, <1>4 DEF SignersOf

\* A valid wallet stays valid when it is normalized, with the same signers,
\* architecture, network and indices.
LEMMA NormalizedFacts ==
  ASSUME NEW w \in Wallet, Valid(w)
  PROVE  LET v == Normalized(w)
         IN  /\ v \in Wallet /\ Valid(v)
             /\ v.network = CanonicalName(w.network)
             /\ v.text = DescriptorFromSigners(SignersOf(w.text), ArchOf(w.text))
             /\ v.last = w.last /\ v.change = w.change
             /\ v.text.layout = "tidy"
             /\ SignersOf(v.text) = SignersOf(w.text)
             /\ ArchOf(v.text) = ArchOf(w.text)
             /\ Normalized(v) = v
<1> DEFINE v == Normalized(w)
           signers == SignersOf(w.text)
           arch == ArchOf(w.text)
           text == DescriptorFromSigners(signers, arch)
<1>1. w.text \in Text /\ w.network \in NetworkNames /\ w.last \in Nat /\ w.change \in Nat
  BY DEF Wallet
<1>2. /\ signers \in Seq(Signers) /\ arch \in WalletKeyArch
      /\ DOMAIN signers = DOMAIN w.text.parts /\ Len(signers) = Len(w.text.parts)
      /\ \A i \in DOMAIN w.text.parts : signers[i] = w.text.parts[i].signer
  BY <1>1, SignersTyped
<1>3. /\ text \in Text /\ text.layout = "tidy"
      /\ SignersOf(text) = signers /\ ArchOf(text) = arch
      /\ DOMAIN text.parts = DOMAIN signers /\ Len(text.parts) = Len(signers)
      /\ Parses(text)
      /\ \A i \in DOMAIN signers : text.parts[i].signer = signers[i]
  BY <1>2, RoundTrip
<1>4. v = [network |-> CanonicalName(w.network), text |-> text,
           last |-> w.last, change |-> w.change]
  <2> HIDE DEF text
  <2>1. v = [w EXCEPT !.network = CanonicalName(w.network), !.text = text]
    BY DEF Normalized, text
  <2> HIDE DEF v
  <2> QED BY <2>1 DEF Wallet
<1>5. /\ v \in Wallet
      /\ v.network = CanonicalName(w.network) /\ v.text = text
      /\ v.last = w.last /\ v.change = w.change
  BY <1>1, <1>3, <1>4, NetworkFacts DEF Wallet
<1>6. Valid(v)
  <2>1. v.text # None
    BY <1>3, <1>5, SetupAssumption
  <2>2. Len(v.text.parts) >= 2
    BY <1>2, <1>3, <1>5 DEF Valid
  <2>3. \A i \in DOMAIN v.text.parts : v.text.parts[i].signer = w.text.parts[i].signer
                                       /\ i \in DOMAIN w.text.parts
    BY <1>2, <1>3, <1>5
  <2>4. NetworkValue(v.network) = NetworkValue(w.network)
    BY <1>1, <1>5, NetworkFacts
  <2> HIDE DEF v, text, signers, arch
  <2>5. Parses(v.text)
    BY <1>3, <1>5
  <2> QED BY <2>1, <2>2, <2>3, <2>4, <2>5 DEF Valid
<1>7. Normalized(v) = v
  <2>1. CanonicalName(v.network) = v.network
    BY <1>1, <1>5, NetworkFacts
  <2>2. DescriptorFromSigners(SignersOf(v.text), ArchOf(v.text)) = v.text
    BY <1>3, <1>5
  <2>3. Normalized(v) = [v EXCEPT !.network = v.network, !.text = v.text]
    BY <2>1, <2>2, <1>4 DEF Normalized
  <2> QED BY <2>3, <1>4
<1> HIDE DEF v, text, signers, arch
<1> QED BY <1>3, <1>5, <1>6, <1>7 DEF v, text, signers, arch

-------------------------------------------------------------------------------
(* Types.                                                                  *)

FilesOK(files) ==
  /\ files \in [Paths -> Wallet \cup {None}]
  /\ \A path \in Paths : files[path] # None =>
       /\ Valid(files[path])
       /\ files[path].network # "mainnet" /\ files[path].text.layout = "tidy"

LEMMA DefaultPathTyped ==
  ASSUME NEW n \in NetworkNames, NEW dir \in DataDirs, NEW current \in Paths
  PROVE  /\ DefaultPath(n, dir, current) \in Paths
         /\ Folder(n) # None => /\ DefaultPath(n, dir, current) = [dir |-> dir, folder |-> Folder(n)]
                               /\ Folder(n) \in Folders
                               /\ DefaultPath(n, dir, current) # Bare
<1>1. None \notin DataDirs
  BY SetupAssumption
<1>2. CASE Folder(n) = None
  BY <1>2 DEF DefaultPath
<1>3. CASE Folder(n) # None
  <2>1. Folder(n) \in Folders
    BY <1>3, NetworkFacts
  <2>2. DefaultPath(n, dir, current) = [dir |-> dir, folder |-> Folder(n)]
    BY <1>3 DEF DefaultPath
  <2>3. [dir |-> dir, folder |-> Folder(n)] # Bare
    BY <1>1 DEF Bare
  <2> QED BY <2>1, <2>2, <2>3 DEF Paths
<1> QED BY <1>2, <1>3

LEMMA BarePath == Bare \in Paths
BY DEF Paths

\* What the screen of a start is, of the network and the directory it starts with.
LEMMA StartedFacts ==
  ASSUME NEW files, FilesOK(files), NEW conf \in Config \cup {None}
  PROVE  \E n \in NetworkNames, dir \in DataDirs :
           LET path == DefaultPath(n, dir, Bare)
           IN  /\ conf = None => n = "testnet" /\ dir = DefaultDir
               /\ conf # None => n = conf.network /\ dir = conf.dir
               /\ path \in Paths
               /\ Folder(n) # None /\ Loads(files[path]) =>
                    Started(files, conf) =
                      [network |-> Normalized(files[path]).network, dir |-> dir, path |-> path,
                       text |-> Normalized(files[path]).text,
                       last |-> files[path].last, change |-> files[path].change]
               /\ ~(Folder(n) # None /\ Loads(files[path])) =>
                    Started(files, conf) =
                      [network |-> n, dir |-> dir, path |-> path,
                       text |-> None, last |-> 0, change |-> 0]
               /\ Started(files, conf) \in Screen
<1> DEFINE n == IF conf = None THEN "testnet" ELSE conf.network
           dir == IF conf = None THEN DefaultDir ELSE conf.dir
           path == DefaultPath(n, dir, Bare)
           loads == Folder(n) # None /\ Loads(files[path])
           w == Normalized(files[path])
           loaded == [network |-> w.network, dir |-> dir, path |-> path,
                      text |-> w.text, last |-> w.last, change |-> w.change]
           blank == [network |-> n, dir |-> dir, path |-> path,
                     text |-> None, last |-> 0, change |-> 0]
<1>1. n \in NetworkNames /\ dir \in DataDirs
  BY SetupAssumption DEF Config, NetworkNames
<1>2. path \in Paths
  BY <1>1, DefaultPathTyped, BarePath
<1>3. Started(files, conf) = IF loads THEN loaded ELSE blank
  BY DEF Started
<1>4. ASSUME loads
      PROVE  /\ w \in Wallet
             /\ w.last = files[path].last /\ w.change = files[path].change
  <2>1. files[path] \in Wallet /\ Valid(files[path])
    BY <1>2, <1>4 DEF FilesOK, Loads
  <2> QED BY <2>1, NormalizedFacts
<1>5. loads => loaded \in Screen
  <2> SUFFICES ASSUME loads PROVE loaded \in Screen
    OBVIOUS
  <2>1. w \in Wallet
    BY <1>4
  <2>2. w.network \in NetworkNames /\ w.text \in Text /\ w.last \in Nat /\ w.change \in Nat
    BY <2>1 DEF Wallet
  <2> HIDE DEF w, path, n, dir
  <2> QED BY <1>1, <1>2, <2>2 DEF Screen
<1>6. blank \in Screen
  <2> HIDE DEF path, n, dir
  <2> QED BY <1>1, <1>2 DEF Screen
<1>7. /\ conf = None => n = "testnet" /\ dir = DefaultDir
      /\ conf # None => n = conf.network /\ dir = conf.dir
  OBVIOUS
<1>8. loads => Started(files, conf) =
                 [network |-> w.network, dir |-> dir, path |-> path, text |-> w.text,
                  last |-> files[path].last, change |-> files[path].change]
  BY <1>3, <1>4
<1>9. ~loads => Started(files, conf) = blank
  BY <1>3
<1>10. Started(files, conf) \in Screen
  BY <1>3, <1>5, <1>6
<1>11. path = DefaultPath(n, dir, Bare) /\ w = Normalized(files[path])
  OBVIOUS
<1> HIDE DEF n, dir, path, w, loaded
<1> USE <1>1
<1> WITNESS n \in NetworkNames, dir \in DataDirs
<1> QED BY <1>2, <1>7, <1>8, <1>9, <1>10, <1>11

LEMMA WalletOfTyped ==
  ASSUME TypeOK, screen.text # None
  PROVE  WalletOf(screen) \in Wallet
<1>1. screen \in Screen
  BY DEF TypeOK
<1>2. screen.network \in NetworkNames /\ screen.text \in Text
      /\ screen.last \in Nat /\ screen.change \in Nat
  BY <1>1 DEF Screen
<1> QED BY <1>2 DEF WalletOf, Wallet

LEMMA SavePathTyped ==
  ASSUME TypeOK
  PROVE  /\ SavePath \in Paths
         /\ SavedScreen \in Screen
         /\ SavedScreen = [screen EXCEPT !.path = SavePath]
         /\ Folder(screen.network) # None =>
              SavePath = [dir |-> screen.dir, folder |-> Folder(screen.network)]
<1>1. screen \in Screen
  BY DEF TypeOK
<1>2. screen.network \in NetworkNames /\ screen.dir \in DataDirs /\ screen.path \in Paths
  BY <1>1 DEF Screen
<1>3. SavePath \in Paths
  BY <1>2, DefaultPathTyped DEF SavePath
<1>4. SavedScreen \in Screen
  BY <1>1, <1>3 DEF SavedScreen, Screen
<1> QED BY <1>2, <1>3, <1>4, DefaultPathTyped DEF SavePath, SavedScreen

\* What save_wallet leaves.
LEMMA WriteFacts ==
  ASSUME TypeOK, WriteWallet
  PROVE  LET w == WalletOf(screen) IN
         /\ screen.text # None
         /\ w \in Wallet /\ Valid(w) /\ Normalized(w) \in Wallet
         /\ Normalized(w) # None
         /\ SavePath \in Paths
         /\ wallets' = [wallets EXCEPT ![SavePath] = Normalized(w)]
         /\ wallets'[SavePath] = Normalized(w)
         /\ FilesOK(wallets')
<1> DEFINE w == WalletOf(screen)
           v == Normalized(w)
<1>1. Valid(w) /\ wallets' = [wallets EXCEPT ![SavePath] = v]
  BY DEF WriteWallet
<1>2. screen.text # None
  BY <1>1 DEF Valid, WalletOf
<1>3. w \in Wallet
  BY <1>2, WalletOfTyped
<1> HIDE DEF w
<1>4. v \in Wallet /\ Valid(v) /\ v.text.layout = "tidy"
      /\ v.network = CanonicalName(w.network)
  BY <1>1, <1>3, NormalizedFacts
<1>5. v # None /\ v.network # "mainnet"
  <2>1. w.network \in NetworkNames
    BY <1>3 DEF Wallet
  <2> QED BY <2>1, <1>4, SetupAssumption, NetworkFacts
<1>6. SavePath \in Paths
  BY SavePathTyped
<1>7. FilesOK(wallets) /\ wallets \in [Paths -> Wallet \cup {None}]
  BY DEF TypeOK, FilesOK
<1> HIDE DEF v
<1>8. wallets' \in [Paths -> Wallet \cup {None}]
  BY <1>1, <1>4, <1>6, <1>7
<1>9. ASSUME NEW path \in Paths
      PROVE  wallets'[path] = IF path = SavePath THEN v ELSE wallets[path]
  BY <1>1, <1>6, <1>7
<1>10. FilesOK(wallets')
  BY <1>4, <1>5, <1>7, <1>8, <1>9 DEF FilesOK
<1> QED BY <1>1, <1>2, <1>3, <1>4, <1>5, <1>6, <1>9, <1>10 DEF v, w

LEMMA StartTyped ==
  ASSUME NEW files, FilesOK(files), NEW conf \in Config \cup {None}
  PROVE  Started(files, conf) \in Screen
BY StartedFacts

LEMMA InitTyped == Init => TypeOK
<1> SUFFICES ASSUME Init PROVE TypeOK
  OBVIOUS
<1>1. FilesOK(wallets) /\ wallets \in [Paths -> Wallet \cup {None}]
  BY DEF Init, FilesOK
<1>2. config \in Config \cup {None}
  BY SetupAssumption DEF Init, Config
<1>3. screen \in Screen
  BY <1>1, <1>2, StartTyped DEF Init
<1> QED BY <1>1, <1>2, <1>3 DEF Init, TypeOK, FilesOK

LEMMA NextTyped == TypeOK /\ [Next]_vars => TypeOK'
<1> SUFFICES ASSUME TypeOK, [Next]_vars PROVE TypeOK'
  OBVIOUS
<1>0. /\ wallets \in [Paths -> Wallet \cup {None}] /\ FilesOK(wallets)
      /\ config \in Config \cup {None} /\ screen \in Screen /\ typed \in BOOLEAN
  BY DEF TypeOK, FilesOK
<1>a. ASSUME FilesOK(wallets'), config' \in Config \cup {None}, screen' \in Screen,
             typed' \in BOOLEAN
      PROVE  TypeOK'
  BY <1>a DEF TypeOK, FilesOK
<1>b. ASSUME NEW s \in Screen, SaveAppConfig(s)
      PROVE  config' \in Config \cup {None}
  BY <1>b DEF SaveAppConfig, Config, Screen
<1>c. ASSUME FilesOK(wallets'), config' \in Config \cup {None}, Start(wallets', config')
      PROVE  TypeOK'
  BY <1>c, <1>a, StartTyped DEF Start
<1>1. CASE UNCHANGED vars
  BY <1>1 DEF vars, TypeOK
<1>2. ASSUME NEW network \in Networks, EditNetwork(network) PROVE TypeOK'
  <2>1. network \in NetworkNames
    BY SetupAssumption
  <2>2. screen' \in Screen
    BY <1>0, <1>2, <2>1 DEF EditNetwork, Screen
  <2> QED BY <1>0, <1>2, <1>a, <2>2 DEF EditNetwork
<1>3. ASSUME NEW dir \in DataDirs, EditDataDir(dir) PROVE TypeOK'
  <2>1. screen' \in Screen
    BY <1>0, <1>3 DEF EditDataDir, Screen
  <2> QED BY <1>0, <1>3, <1>a, <2>1 DEF EditDataDir
<1>4. ASSUME NEW text \in Texts, EditDescriptor(text) PROVE TypeOK'
  <2>1. text \in Text
    BY SetupAssumption
  <2>2. screen' \in Screen
    BY <1>0, <1>4, <2>1 DEF EditDescriptor, Screen
  <2> QED BY <1>0, <1>4, <1>a, <2>2 DEF EditDescriptor
<1>5. ASSUME NEW indices \in Indices, EditIndices(indices) PROVE TypeOK'
  <2>1. indices.last \in Nat /\ indices.change \in Nat
    BY SetupAssumption
  <2>2. screen' \in Screen
    BY <1>0, <1>5, <2>1 DEF EditIndices, Screen
  <2> QED BY <1>0, <1>5, <1>a, <2>2 DEF EditIndices
<1>6. ASSUME NEW dir \in DataDirs, BrowseDataDir(dir) PROVE TypeOK'
  <2>1. screen' \in Screen
    BY <1>0, <1>6 DEF BrowseDataDir, Screen
  <2>2. config' \in Config \cup {None}
    BY <1>0, <1>6, <1>b, <2>1 DEF BrowseDataDir
  <2> QED BY <1>0, <1>6, <1>a, <2>1, <2>2 DEF BrowseDataDir
<1>7. CASE SaveRecipients
  BY <1>0, <1>7, <1>a, <1>b DEF SaveRecipients
<1>8. CASE SaveWalletRefused
  BY <1>0, <1>8, <1>a, SavePathTyped DEF SaveWalletRefused
<1>9. CASE SaveWallet
  <2>1. FilesOK(wallets') /\ wallets'[SavePath] \in Wallet
    BY <1>9, WriteFacts DEF SaveWallet
  <2>2. wallets'[SavePath].text \in Text
    BY <2>1 DEF Wallet
  <2>3. screen' \in Screen
    <3>1. screen' = [SavedScreen EXCEPT !.text = wallets'[SavePath].text]
      BY <1>9 DEF SaveWallet
    <3>2. SavedScreen \in Screen
      BY SavePathTyped
    <3> QED BY <2>2, <3>1, <3>2 DEF Screen
  <2> QED BY <1>0, <1>9, <1>a, <1>b, <2>1, <2>3 DEF SaveWallet
<1>10. CASE SaveWalletConfigFails
  <2>1. FilesOK(wallets')
    BY <1>10, WriteFacts DEF SaveWalletConfigFails
  <2> QED BY <1>0, <1>10, <1>a, <2>1, SavePathTyped DEF SaveWalletConfigFails
<1>11. CASE SaveWalletCrashes
  <2>1. FilesOK(wallets')
    BY <1>11, WriteFacts DEF SaveWalletCrashes
  <2>2. config' = config /\ Start(wallets', config')
    BY <1>11 DEF SaveWalletCrashes
  <2> QED BY <1>0, <1>c, <2>1, <2>2
<1>12. CASE Restart
  <2>1. wallets' = wallets /\ config' = config /\ Start(wallets', config')
    BY <1>12 DEF Restart
  <2> QED BY <1>0, <1>c, <2>1
<1> QED BY <1>1, <1>2, <1>3, <1>4, <1>5, <1>6, <1>7, <1>8, <1>9, <1>10, <1>11, <1>12
        DEF Next, Typing, Saving

\* wallet.toml, in whatever folder, always loads, and the fields of the screen keep
\* their types across every handler, failed save, crash and restart.
THEOREM WalletTypeCorrect == Spec => []TypeOK
BY InitTyped, NextTyped, PTL DEF Spec

-------------------------------------------------------------------------------
(* The files stay with their network.                                      *)

\* Only save_wallet writes a wallet file.
LEMMA OnlySavesWrite == [Next]_vars => UNCHANGED wallets \/ WriteWallet
BY DEF Next, Typing, Saving, vars, EditNetwork, EditDataDir, EditDescriptor, EditIndices,
       BrowseDataDir, SaveRecipients, SaveWalletRefused, SaveWallet, SaveWalletConfigFails,
       SaveWalletCrashes, Restart

\* Regtest, which has no folder, is the one network whose wallet may lie anywhere.
Home(files) ==
  \A path \in Paths : files[path] # None =>
    \/ files[path].network = "regtest"
    \/ Folder(files[path].network) = path.folder

HomeInv == TypeOK /\ Home(wallets)

LEMMA WriteKeepsHome ==
  ASSUME TypeOK, Home(wallets), WriteWallet
  PROVE  Home(wallets')
<1> DEFINE w == WalletOf(screen)
           v == Normalized(w)
<1>1. /\ w \in Wallet /\ Valid(w) /\ SavePath \in Paths
      /\ wallets' = [wallets EXCEPT ![SavePath] = v]
      /\ wallets \in [Paths -> Wallet \cup {None}]
  BY WriteFacts DEF TypeOK
<1>2. w.network = screen.network /\ w.network \in NetworkNames
  BY <1>1 DEF WalletOf, Wallet
<1>3. v.network = CanonicalName(screen.network)
  BY <1>1, <1>2, NormalizedFacts
<1>4. v.network = "regtest" \/ Folder(v.network) = SavePath.folder
  <2>1. CASE screen.network = "regtest"
    BY <1>2, <1>3, <2>1, NetworkFacts
  <2>2. CASE screen.network # "regtest"
    <3>1. Folder(screen.network) # None
      BY <1>2, <2>2, FolderNone
    <3>2. SavePath = [dir |-> screen.dir, folder |-> Folder(screen.network)]
      BY <3>1, SavePathTyped
    <3> QED BY <1>2, <1>3, <3>2, NetworkFacts
  <2> QED BY <2>1, <2>2
<1> HIDE DEF w, v
<1>5. ASSUME NEW path \in Paths
      PROVE  wallets'[path] = IF path = SavePath THEN v ELSE wallets[path]
  BY <1>1
<1> QED BY <1>4, <1>5 DEF Home

LEMMA HomeInvariant == Spec => []HomeInv
<1>1. Init => HomeInv
  BY InitTyped DEF Init, HomeInv, Home
<1>2. HomeInv /\ [Next]_vars => HomeInv'
  <2> SUFFICES ASSUME HomeInv, [Next]_vars PROVE HomeInv'
    OBVIOUS
  <2>1. TypeOK'
    BY NextTyped DEF HomeInv
  <2>2. Home(wallets')
    BY OnlySavesWrite, WriteKeepsHome DEF HomeInv
  <2>3. Home(wallets)'
    BY <2>2 DEF Home
  <2> QED BY <2>1, <2>3 DEF HomeInv
<1> QED BY <1>1, <1>2, PTL DEF Spec

\* Where nobody uses regtest, no name of it is anywhere.
NoRegtest ==
  /\ screen.network # "regtest"
  /\ config # None => config.network # "regtest"
  /\ \A path \in Paths : wallets[path] # None => wallets[path].network # "regtest"

LEMMA StartNoRegtest ==
  ASSUME NEW files, FilesOK(files), NEW conf \in Config \cup {None},
         conf # None => conf.network # "regtest",
         \A path \in Paths : files[path] # None => files[path].network # "regtest"
  PROVE  Started(files, conf).network # "regtest"
<1>1. PICK n \in NetworkNames, dir \in DataDirs :
        LET path == DefaultPath(n, dir, Bare)
        IN  /\ conf = None => n = "testnet"
            /\ conf # None => n = conf.network
            /\ path \in Paths
            /\ Folder(n) # None /\ Loads(files[path]) =>
                 Started(files, conf).network = Normalized(files[path]).network
            /\ ~(Folder(n) # None /\ Loads(files[path])) =>
                 Started(files, conf).network = n
  BY StartedFacts
<1> DEFINE path == DefaultPath(n, dir, Bare)
<1>2. n # "regtest"
  BY <1>1
<1>3. CASE Folder(n) # None /\ Loads(files[path])
  <2>1. files[path] \in Wallet /\ Valid(files[path]) /\ files[path].network # "regtest"
    BY <1>1, <1>3 DEF Loads, FilesOK
  <2>2. files[path].network \in NetworkNames
    BY <2>1 DEF Wallet
  <2>3. Normalized(files[path]).network = CanonicalName(files[path].network)
    BY <2>1, NormalizedFacts
  <2> QED BY <1>1, <1>3, <2>1, <2>2, <2>3, NetworkFacts
<1>4. CASE ~(Folder(n) # None /\ Loads(files[path]))
  BY <1>1, <1>2, <1>4
<1> QED BY <1>3, <1>4

LEMMA NoRegtestInvariant ==
  ASSUME "regtest" \notin Networks
  PROVE  Spec => [](HomeInv /\ NoRegtest)
<1>1. Init => NoRegtest
  <2> SUFFICES ASSUME Init PROVE NoRegtest
    OBVIOUS
  <2>1. FilesOK(wallets) /\ \A path \in Paths : wallets[path] = None
    BY DEF Init, FilesOK
  <2>2. config \in Config \cup {None} /\ (config # None => config.network # "regtest")
    BY SetupAssumption DEF Init, Config
  <2>3. screen.network # "regtest"
    BY <2>1, <2>2, StartNoRegtest DEF Init
  <2> QED BY <2>1, <2>2, <2>3 DEF NoRegtest
<1>2. HomeInv /\ NoRegtest /\ [Next]_vars => NoRegtest'
  <2> SUFFICES ASSUME HomeInv, NoRegtest, [Next]_vars PROVE NoRegtest'
    OBVIOUS
  <2>1. TypeOK /\ TypeOK'
    BY NextTyped DEF HomeInv
  <2>2. \A path \in Paths : wallets'[path] # None => wallets'[path].network # "regtest"
    <3>1. CASE UNCHANGED wallets
      BY <3>1 DEF NoRegtest
    <3>2. CASE WriteWallet
      <4> DEFINE w == WalletOf(screen)
                 v == Normalized(w)
      <4>1. /\ w \in Wallet /\ Valid(w) /\ SavePath \in Paths
            /\ wallets' = [wallets EXCEPT ![SavePath] = v]
            /\ wallets \in [Paths -> Wallet \cup {None}]
        BY <2>1, <3>2, WriteFacts DEF TypeOK
      <4>2. w.network = screen.network /\ w.network \in NetworkNames
        BY <4>1 DEF WalletOf, Wallet
      <4>3. v.network = CanonicalName(screen.network)
        BY <4>1, <4>2, NormalizedFacts
      <4>4. v.network # "regtest"
        BY <4>2, <4>3, NetworkFacts DEF NoRegtest
      <4> HIDE DEF w, v
      <4> QED BY <4>1, <4>4 DEF NoRegtest
    <3> QED BY <3>1, <3>2, OnlySavesWrite
  <2>3. FilesOK(wallets') /\ config' \in Config \cup {None}
    BY <2>1 DEF TypeOK, FilesOK
  <2>4. config' # None => config'.network # "regtest"
    <3>0. screen \in Screen
      BY <2>1 DEF TypeOK
    <3>b. ASSUME NEW dir \in DataDirs, BrowseDataDir(dir)
          PROVE  config' = config \/ config'.network = screen.network
      <4>1. screen'.network = screen.network
        BY <3>0, <3>b DEF BrowseDataDir, Screen
      <4> QED BY <3>b, <4>1 DEF BrowseDataDir, SaveAppConfig
    <3>c. ASSUME SaveRecipients \/ SaveWallet
          PROVE  config'.network = screen.network
      BY <3>c DEF SaveRecipients, SaveWallet, SaveAppConfig
    <3>1. \/ config' = config
          \/ \E dir \in DataDirs : BrowseDataDir(dir)
          \/ SaveRecipients \/ SaveWallet
      BY DEF Next, Typing, Saving, vars, EditNetwork, EditDataDir, EditDescriptor,
             EditIndices, SaveWalletRefused, SaveWalletConfigFails, SaveWalletCrashes, Restart
    <3> QED BY <3>1, <3>b, <3>c DEF NoRegtest
  <2>5. screen'.network # "regtest"
    <3>0. screen \in Screen
      BY <2>1 DEF TypeOK
    <3>1. CASE screen' = Started(wallets', config')
      BY <2>2, <2>3, <2>4, <3>1, StartNoRegtest
    <3>2. ASSUME NEW network \in Networks, EditNetwork(network)
          PROVE  screen'.network # "regtest"
      BY <3>0, <3>2 DEF EditNetwork, Screen
    <3>3. CASE screen'.network = screen.network
      BY <3>3 DEF NoRegtest
    <3>4. \/ screen' = Started(wallets', config')
          \/ \E network \in Networks : EditNetwork(network)
          \/ screen'.network = screen.network
      BY <3>0 DEF Next, Typing, Saving, vars, EditDataDir, EditDescriptor, EditIndices,
             BrowseDataDir, SaveRecipients, SaveWalletRefused, SaveWallet, SavedScreen,
             SaveWalletConfigFails, SaveWalletCrashes, Restart, Start, Screen
    <3> QED BY <3>1, <3>2, <3>3, <3>4
  <2> QED BY <2>2, <2>4, <2>5 DEF NoRegtest
<1> QED BY <1>1, <1>2, HomeInvariant, PTL DEF Spec

\* Without regtest a wallet is never saved into the folder of another network, whatever
\* was typed, saved or loaded before.
THEOREM WalletsStayHome ==
  ASSUME "regtest" \notin Networks
  PROVE  Spec => []WalletsAtHome
<1>1. HomeInv /\ NoRegtest => WalletsAtHome
  BY DEF HomeInv, Home, NoRegtest, WalletsAtHome
<1> QED BY <1>1, NoRegtestInvariant, PTL

-------------------------------------------------------------------------------
(* Save keeps the wallet.                                                  *)

LEMMA SameAddresses ==
  ASSUME NEW w \in Wallet, Valid(w)
  PROVE  Addresses(Normalized(w)) = Addresses(w)
<1> DEFINE v == Normalized(w)
<1>1. /\ SignersOf(v.text) = SignersOf(w.text) /\ ArchOf(v.text) = ArchOf(w.text)
      /\ v.last = w.last /\ v.change = w.change
      /\ v.network = CanonicalName(w.network)
  BY NormalizedFacts
<1>2. NetworkValue(v.network) = NetworkValue(w.network)
  BY <1>1, NetworkFacts DEF Wallet
<1> HIDE DEF v
<1>3. \A leaf : WalletPublicKeys(v, leaf) = WalletPublicKeys(w, leaf)
  BY <1>1 DEF WalletPublicKeys
<1>4. \A leaf : TreasuryScript(v, leaf) = TreasuryScript(w, leaf)
  BY <1>3 DEF TreasuryScript
<1>5. Addresses(v) = Addresses(w)
  BY <1>1, <1>2, <1>4 DEF Addresses
<1> QED BY <1>5 DEF v

\* Rewriting the descriptor for the file changes neither the scripts of the treasury nor
\* its indices.
THEOREM SavingKeepsTheWallet == Spec => SaveKeepsTheWallet
<1>1. TypeOK /\ [Next]_vars =>
        [\A path \in Paths : wallets'[path] # wallets[path] =>
           Addresses(wallets'[path]) = Addresses(WalletOf(screen))]_wallets
  <2> SUFFICES ASSUME TypeOK, WriteWallet, NEW path \in Paths, wallets'[path] # wallets[path]
               PROVE  Addresses(wallets'[path]) = Addresses(WalletOf(screen))
    BY OnlySavesWrite
  <2> DEFINE w == WalletOf(screen)
  <2>1. /\ w \in Wallet /\ Valid(w)
        /\ wallets' = [wallets EXCEPT ![SavePath] = Normalized(w)]
        /\ wallets \in [Paths -> Wallet \cup {None}]
    BY WriteFacts DEF TypeOK
  <2>2. wallets'[path] = Normalized(w)
    BY <2>1
  <2> QED BY <2>1, <2>2, SameAddresses
<1> QED BY <1>1, WalletTypeCorrect, PTL DEF Spec, SaveKeepsTheWallet

-------------------------------------------------------------------------------
(* What Save leaves is what the next start shows.                          *)

LEMMA SameFolder ==
  ASSUME NEW n \in NetworkNames, NEW m \in NetworkNames,
         CanonicalName(n) = CanonicalName(m)
  PROVE  Folder(n) = Folder(m) /\ NetworkValue(n) = NetworkValue(m)
BY NetworkFacts

\* The screen t of a start on network m, under any of its names: its path is the one of
\* m, and with the files as they then are a start shows the wallet at that path.
LEMMA StartPath ==
  ASSUME NEW files, FilesOK(files), Home(files), NEW conf \in Config \cup {None},
         NEW m \in NetworkNames, Folder(m) # None,
         CanonicalName(Started(files, conf).network) = CanonicalName(m)
  PROVE  LET t == Started(files, conf)
         IN  /\ t \in Screen
             /\ t.path = [dir |-> t.dir, folder |-> Folder(m)]
             /\ t.text # None =>
                  /\ files[t.path] \in Wallet /\ Valid(files[t.path])
                  /\ t.text = Normalized(files[t.path]).text
             /\ Loads(files[t.path]) =>
                  t = [network |-> Normalized(files[t.path]).network, dir |-> t.dir,
                       path |-> t.path, text |-> Normalized(files[t.path]).text,
                       last |-> files[t.path].last, change |-> files[t.path].change]
             /\ ~Loads(files[t.path]) =>
                  t = [network |-> t.network, dir |-> t.dir, path |-> t.path,
                       text |-> None, last |-> 0, change |-> 0]
             /\ \A later : FilesOK(later) /\ Loads(later[t.path]) =>
                  Started(later, conf) =
                    [network |-> Normalized(later[t.path]).network, dir |-> t.dir,
                     path |-> t.path, text |-> Normalized(later[t.path]).text,
                     last |-> later[t.path].last, change |-> later[t.path].change]
<1> DEFINE t == Started(files, conf)
<1>1. PICK n \in NetworkNames, dir \in DataDirs :
        LET path == DefaultPath(n, dir, Bare)
        IN  /\ conf = None => n = "testnet" /\ dir = DefaultDir
            /\ conf # None => n = conf.network /\ dir = conf.dir
            /\ path \in Paths
            /\ Folder(n) # None /\ Loads(files[path]) =>
                 t = [network |-> Normalized(files[path]).network, dir |-> dir,
                      path |-> path, text |-> Normalized(files[path]).text,
                      last |-> files[path].last, change |-> files[path].change]
            /\ ~(Folder(n) # None /\ Loads(files[path])) =>
                 t = [network |-> n, dir |-> dir, path |-> path,
                      text |-> None, last |-> 0, change |-> 0]
            /\ t \in Screen
  BY StartedFacts
<1> DEFINE path == DefaultPath(n, dir, Bare)
<1> HIDE DEF t
<1>2. Folder(n) = Folder(m)
  <2>1. CASE Folder(n) # None /\ Loads(files[path])
    <3> DEFINE w == files[path]
    <3>1. w \in Wallet /\ Valid(w) /\ w # None /\ path \in Paths
      BY <1>1, <2>1 DEF FilesOK, Loads
    <3>2. w.network \in NetworkNames
      BY <3>1 DEF Wallet
    <3>3. t.network = CanonicalName(w.network)
      BY <1>1, <2>1, <3>1, NormalizedFacts
    <3>4. CanonicalName(w.network) = CanonicalName(m)
      BY <3>2, <3>3, NetworkFacts DEF t
    <3>5. Folder(w.network) = Folder(m) /\ w.network # "regtest"
      BY <3>2, <3>4, SameFolder, FolderNone
    <3>6. path.folder = Folder(m)
      BY <3>1, <3>5 DEF Home
    <3>7. path = [dir |-> dir, folder |-> Folder(n)]
      BY <2>1, BarePath, DefaultPathTyped
    <3> QED BY <3>6, <3>7
  <2>2. CASE ~(Folder(n) # None /\ Loads(files[path]))
    <3>1. t.network = n
      BY <1>1, <2>2
    <3> QED BY <3>1, SameFolder DEF t
  <2> QED BY <2>1, <2>2
<1>3. path = [dir |-> dir, folder |-> Folder(m)] /\ path \in Paths
  BY <1>2, BarePath, DefaultPathTyped
<1>4. t.path = path /\ t.dir = dir
  BY <1>1
<1>5. t.text # None => /\ files[path] \in Wallet /\ Valid(files[path])
                       /\ t.text = Normalized(files[path]).text
  BY <1>1, <1>3 DEF FilesOK, Loads
<1>6. ASSUME NEW later, FilesOK(later), Loads(later[path])
      PROVE  Started(later, conf) =
               [network |-> Normalized(later[path]).network, dir |-> dir,
                path |-> path, text |-> Normalized(later[path]).text,
                last |-> later[path].last, change |-> later[path].change]
  <2> DEFINE w == Normalized(later[path])
  <2>1. later[path] \in Wallet /\ Valid(later[path])
    BY <1>3, <1>6 DEF FilesOK, Loads
  <2>2. w.last = later[path].last /\ w.change = later[path].change
    BY <2>1, NormalizedFacts
  <2>3. n = (IF conf = None THEN "testnet" ELSE conf.network)
        /\ dir = (IF conf = None THEN DefaultDir ELSE conf.dir)
    BY <1>1
  <2>4. Folder(n) # None
    BY <1>2
  <2>5. Started(later, conf) = [network |-> w.network, dir |-> dir, path |-> path,
                                text |-> w.text, last |-> w.last, change |-> w.change]
    BY <1>6, <2>3, <2>4 DEF Started
  <2> QED BY <2>2, <2>5
<1>7. Loads(files[path]) =>
        t = [network |-> Normalized(files[path]).network, dir |-> dir,
             path |-> path, text |-> Normalized(files[path]).text,
             last |-> files[path].last, change |-> files[path].change]
  BY <1>1, <1>2
<1>8. ~Loads(files[path]) => t = [network |-> t.network, dir |-> dir, path |-> path,
                                  text |-> None, last |-> 0, change |-> 0]
  BY <1>1
<1> HIDE DEF path
<1> QED BY <1>1, <1>3, <1>4, <1>5, <1>6, <1>7, <1>8 DEF t

\* A start now shows the screen s, but for another name of its network.
Shows(s, t) ==
  /\ t = [s EXCEPT !.network = t.network]
  /\ CanonicalName(t.network) = CanonicalName(s.network)

Unchanged == ~typed /\ Folder(screen.network) # None => Shows(screen, Started(wallets, config))

\* What is known of a screen nothing was typed on, where m is its network.
LEMMA UntypedScreen ==
  ASSUME HomeInv, Unchanged, ~typed, Folder(screen.network) # None
  PROVE  LET t == Started(wallets, config)
         IN  /\ screen \in Screen /\ FilesOK(wallets) /\ config \in Config \cup {None}
             /\ screen.network \in NetworkNames
             /\ CanonicalName(t.network) = CanonicalName(screen.network)
             /\ t.dir = screen.dir /\ t.path = screen.path /\ t.text = screen.text
             /\ t.last = screen.last /\ t.change = screen.change
             /\ screen.path = SavePath
             /\ screen.path = [dir |-> screen.dir, folder |-> Folder(screen.network)]
<1> DEFINE t == Started(wallets, config)
<1>1. screen \in Screen /\ FilesOK(wallets) /\ config \in Config \cup {None} /\ Home(wallets)
  BY DEF HomeInv, TypeOK, FilesOK
<1>2. screen.network \in NetworkNames
  BY <1>1 DEF Screen
<1>3. t = [screen EXCEPT !.network = t.network]
      /\ CanonicalName(t.network) = CanonicalName(screen.network)
  BY DEF Unchanged, Shows
<1>4. t.path = [dir |-> t.dir, folder |-> Folder(screen.network)]
  BY <1>1, <1>2, <1>3, StartPath
<1> HIDE DEF t
<1>5. /\ t.dir = screen.dir /\ t.path = screen.path /\ t.text = screen.text
      /\ t.last = screen.last /\ t.change = screen.change
  BY <1>1, <1>3 DEF Screen
<1>6. SavePath = [dir |-> screen.dir, folder |-> Folder(screen.network)]
  BY SavePathTyped DEF HomeInv
<1> QED BY <1>1, <1>2, <1>3, <1>4, <1>5, <1>6 DEF t

LEMMA ShowsItself ==
  ASSUME NEW s \in Screen
  PROVE  Shows(s, s)
BY DEF Shows, Screen

\* Saving the recipients writes the configuration anew, with the name of the network on
\* the screen.
LEMMA ConfigKeepsShowing ==
  ASSUME HomeInv, Unchanged, ~typed, Folder(screen.network) # None
  PROVE  Shows(screen, Started(wallets, [network |-> screen.network, dir |-> screen.dir]))
<1> DEFINE t == Started(wallets, config)
           conf == [network |-> screen.network, dir |-> screen.dir]
           u == Started(wallets, conf)
<1>1. /\ screen \in Screen /\ FilesOK(wallets) /\ config \in Config \cup {None}
      /\ screen.network \in NetworkNames
      /\ CanonicalName(t.network) = CanonicalName(screen.network)
      /\ t.dir = screen.dir /\ t.path = screen.path /\ t.text = screen.text
      /\ t.last = screen.last /\ t.change = screen.change
      /\ screen.path = [dir |-> screen.dir, folder |-> Folder(screen.network)]
  BY UntypedScreen
<1>2. conf \in Config /\ conf # None
  <2>1. conf \in Config
    BY <1>1 DEF Config, Screen
  <2> QED BY <2>1, SetupAssumption
<1>3. /\ Loads(wallets[screen.path]) =>
           /\ t.network = Normalized(wallets[screen.path]).network
           /\ t.text = Normalized(wallets[screen.path]).text
           /\ t.last = wallets[screen.path].last
           /\ t.change = wallets[screen.path].change
      /\ ~Loads(wallets[screen.path]) =>
           t.text = None /\ t.last = 0 /\ t.change = 0
  <2>1. /\ Loads(wallets[t.path]) =>
             t = [network |-> Normalized(wallets[t.path]).network, dir |-> t.dir,
                  path |-> t.path, text |-> Normalized(wallets[t.path]).text,
                  last |-> wallets[t.path].last, change |-> wallets[t.path].change]
        /\ ~Loads(wallets[t.path]) =>
             t = [network |-> t.network, dir |-> t.dir, path |-> t.path,
                  text |-> None, last |-> 0, change |-> 0]
    BY <1>1, StartPath DEF HomeInv
  <2> HIDE DEF t
  <2> QED BY <1>1, <2>1
<1>4. PICK n \in NetworkNames, dir \in DataDirs :
        LET path == DefaultPath(n, dir, Bare)
        IN  /\ conf # None => n = conf.network /\ dir = conf.dir
            /\ Folder(n) # None /\ Loads(wallets[path]) =>
                 u = [network |-> Normalized(wallets[path]).network, dir |-> dir,
                      path |-> path, text |-> Normalized(wallets[path]).text,
                      last |-> wallets[path].last, change |-> wallets[path].change]
            /\ ~(Folder(n) # None /\ Loads(wallets[path])) =>
                 u = [network |-> n, dir |-> dir, path |-> path,
                      text |-> None, last |-> 0, change |-> 0]
  <2> HIDE DEF conf
  <2> QED BY <1>1, <1>2, StartedFacts
<1>5. n = screen.network /\ dir = screen.dir
  BY <1>2, <1>4
<1>6. DefaultPath(n, dir, Bare) = screen.path
  BY <1>1, <1>5, BarePath, DefaultPathTyped
<1> HIDE DEF t, u, conf
<1>7. CASE Loads(wallets[screen.path])
  <2>1. u = [network |-> t.network, dir |-> screen.dir, path |-> screen.path,
             text |-> screen.text, last |-> screen.last, change |-> screen.change]
    BY <1>1, <1>3, <1>4, <1>5, <1>6, <1>7
  <2>2. u = [screen EXCEPT !.network = u.network]
        /\ CanonicalName(u.network) = CanonicalName(screen.network)
    BY <1>1, <2>1 DEF Screen
  <2> QED BY <2>2 DEF Shows, u, conf
<1>8. CASE ~Loads(wallets[screen.path])
  <2>1. u = [network |-> screen.network, dir |-> screen.dir, path |-> screen.path,
             text |-> screen.text, last |-> screen.last, change |-> screen.change]
    BY <1>1, <1>3, <1>4, <1>5, <1>6, <1>8
  <2>2. u = screen
    BY <1>1, <2>1 DEF Screen
  <2> QED BY <1>1, <2>2, ShowsItself DEF u, conf
<1> QED BY <1>7, <1>8

\* What the next start shows of a wallet that was just written where it looks.
LEMMA WrittenLoads ==
  ASSUME TypeOK, WriteWallet
  PROVE  LET v == wallets'[SavePath]
         IN  /\ Loads(v)
             /\ v.last = screen.last /\ v.change = screen.change
             /\ Normalized(v).text = v.text
             /\ v.text = Normalized(WalletOf(screen)).text
             /\ CanonicalName(Normalized(v).network) = CanonicalName(screen.network)
<1> DEFINE w == WalletOf(screen)
           v == Normalized(w)
<1>1. w \in Wallet /\ Valid(w) /\ v # None /\ wallets'[SavePath] = v
  BY WriteFacts
<1>2. w.network = screen.network /\ w.last = screen.last /\ w.change = screen.change
  BY DEF WalletOf
<1>3. screen.network \in NetworkNames
  BY <1>1, <1>2 DEF Wallet
<1>4. /\ Valid(v) /\ Normalized(v) = v /\ v.last = w.last /\ v.change = w.change
      /\ v.network = CanonicalName(w.network)
  BY <1>1, NormalizedFacts
<1>5. CanonicalName(v.network) = CanonicalName(screen.network)
  BY <1>2, <1>3, <1>4, NetworkFacts
<1> HIDE DEF w, v
<1> QED BY <1>1, <1>2, <1>4, <1>5 DEF Loads, v, w

LEMMA SaveShows ==
  ASSUME TypeOK, SaveWallet, Folder(screen.network) # None
  PROVE  Shows(screen', Started(wallets', config'))
<1> DEFINE v == wallets'[SavePath]
           u == Started(wallets', config')
<1>1. screen \in Screen /\ screen.network \in NetworkNames /\ screen.dir \in DataDirs
  BY DEF TypeOK, Screen
<1>2. WriteWallet /\ config' = [network |-> screen.network, dir |-> screen.dir]
      /\ screen' = [SavedScreen EXCEPT !.text = v.text]
  BY DEF SaveWallet, SaveAppConfig
<1>3. FilesOK(wallets')
  BY <1>2, WriteFacts
<1>4. config' \in Config /\ config' # None
  <2>1. config' \in Config
    BY <1>1, <1>2 DEF Config
  <2> QED BY <2>1, SetupAssumption
<1>5. SavePath = [dir |-> screen.dir, folder |-> Folder(screen.network)]
  BY SavePathTyped
<1>6. PICK n \in NetworkNames, dir \in DataDirs :
        LET path == DefaultPath(n, dir, Bare)
        IN  /\ config' # None => n = config'.network /\ dir = config'.dir
            /\ Folder(n) # None /\ Loads(wallets'[path]) =>
                 u = [network |-> Normalized(wallets'[path]).network, dir |-> dir,
                      path |-> path, text |-> Normalized(wallets'[path]).text,
                      last |-> wallets'[path].last, change |-> wallets'[path].change]
  BY <1>3, <1>4, StartedFacts
<1>7. n = screen.network /\ dir = screen.dir
  BY <1>2, <1>4, <1>6
<1>8. DefaultPath(n, dir, Bare) = SavePath
  BY <1>1, <1>5, <1>7, BarePath, DefaultPathTyped
<1>9. /\ Loads(v) /\ v.last = screen.last /\ v.change = screen.change
      /\ Normalized(v).text = v.text
      /\ CanonicalName(Normalized(v).network) = CanonicalName(screen.network)
  BY <1>2, WrittenLoads
<1>10. u = [network |-> Normalized(v).network, dir |-> screen.dir, path |-> SavePath,
            text |-> v.text, last |-> screen.last, change |-> screen.change]
  BY <1>6, <1>7, <1>8, <1>9
<1> HIDE DEF u, v
<1>11. screen' = [network |-> screen.network, dir |-> screen.dir, path |-> SavePath,
                  text |-> v.text, last |-> screen.last, change |-> screen.change]
  BY <1>1, <1>2, SavePathTyped DEF Screen
<1> QED BY <1>9, <1>10, <1>11 DEF Shows, u

LEMMA FailedSaveShows ==
  ASSUME HomeInv, Unchanged, SaveWalletConfigFails, ~typed, Folder(screen.network) # None
  PROVE  Shows(screen', Started(wallets', config'))
<1> DEFINE t == Started(wallets, config)
           w == WalletOf(screen)
           v == wallets'[SavePath]
           u == Started(wallets', config')
<1>1. /\ screen \in Screen /\ FilesOK(wallets) /\ config \in Config \cup {None}
      /\ screen.network \in NetworkNames
      /\ CanonicalName(t.network) = CanonicalName(screen.network)
      /\ t.dir = screen.dir /\ t.path = screen.path /\ t.text = screen.text
      /\ t.last = screen.last /\ t.change = screen.change
      /\ screen.path = SavePath
  BY UntypedScreen
<1>2. TypeOK /\ Home(wallets) /\ WriteWallet /\ screen' = SavedScreen /\ config' = config
  BY DEF HomeInv, SaveWalletConfigFails
<1>3. FilesOK(wallets') /\ w \in Wallet /\ Valid(w) /\ screen.text # None
  BY <1>2, WriteFacts
<1>4. /\ Loads(v) /\ v.last = screen.last /\ v.change = screen.change
      /\ Normalized(v).text = v.text /\ v.text = Normalized(w).text
      /\ CanonicalName(Normalized(v).network) = CanonicalName(screen.network)
  BY <1>2, WrittenLoads
<1>5. /\ wallets[screen.path] \in Wallet /\ Valid(wallets[screen.path])
      /\ screen.text = Normalized(wallets[screen.path]).text
  BY <1>1, <1>2, <1>3, StartPath
<1>6. u = [network |-> Normalized(v).network, dir |-> screen.dir, path |-> screen.path,
           text |-> v.text, last |-> screen.last, change |-> screen.change]
  <2>1. \A later : FilesOK(later) /\ Loads(later[t.path]) =>
          Started(later, config) =
            [network |-> Normalized(later[t.path]).network, dir |-> t.dir,
             path |-> t.path, text |-> Normalized(later[t.path]).text,
             last |-> later[t.path].last, change |-> later[t.path].change]
    BY <1>1, <1>2, StartPath
  <2> HIDE DEF t
  <2> QED BY <1>1, <1>2, <1>3, <1>4, <2>1
<1>7. v.text = screen.text
  <2> DEFINE old == wallets[screen.path]
  <2>1. Normalized(old).text = DescriptorFromSigners(SignersOf(old.text), ArchOf(old.text))
        /\ SignersOf(screen.text) = SignersOf(old.text)
        /\ ArchOf(screen.text) = ArchOf(old.text)
    BY <1>5, NormalizedFacts
  <2>2. w.text = screen.text
    BY DEF WalletOf
  <2>3. Normalized(w).text = DescriptorFromSigners(SignersOf(w.text), ArchOf(w.text))
    BY <1>3, NormalizedFacts
  <2> QED BY <1>4, <1>5, <2>1, <2>2, <2>3
<1>8. screen' = screen
  BY <1>1, <1>2, SavePathTyped DEF Screen
<1> HIDE DEF u, v
<1> QED BY <1>1, <1>4, <1>6, <1>7, <1>8 DEF Shows, u, Screen

LEMMA UnchangedInvariant == Spec => [](HomeInv /\ Unchanged)
<1>1. Init => Unchanged
  <2> SUFFICES ASSUME Init PROVE Unchanged
    OBVIOUS
  <2>1. screen = Started(wallets, config) /\ screen \in Screen
    BY InitTyped DEF Init, TypeOK
  <2> QED BY <2>1, ShowsItself DEF Unchanged
<1>2. HomeInv /\ Unchanged /\ [Next]_vars => Unchanged'
  <2> SUFFICES ASSUME HomeInv, Unchanged, [Next]_vars, ~typed', Folder(screen.network)' # None
               PROVE  Shows(screen', Started(wallets', config'))
    BY DEF Unchanged
  <2>1. TypeOK /\ screen' \in Screen /\ screen \in Screen
    BY NextTyped DEF HomeInv, TypeOK
  <2>2. Folder(screen'.network) # None
    OBVIOUS
  <2>3. CASE UNCHANGED vars
    BY <2>2, <2>3 DEF vars, Unchanged
  <2>4. CASE SaveRecipients
    <3>1. ~typed /\ screen' = screen /\ wallets' = wallets
          /\ config' = [network |-> screen.network, dir |-> screen.dir]
      BY <2>4 DEF SaveRecipients, SaveAppConfig
    <3> QED BY <2>2, <3>1, ConfigKeepsShowing
  <2>5. CASE SaveWalletRefused
    <3>1. ~typed /\ screen' = SavedScreen /\ wallets' = wallets /\ config' = config
      BY <2>5 DEF SaveWalletRefused
    <3>2. screen'.network = screen.network
      BY <2>1, <3>1, SavePathTyped DEF Screen
    <3>3. SavePath = screen.path
      BY <2>2, <3>1, <3>2, UntypedScreen
    <3>4. screen' = screen
      BY <2>1, <3>1, <3>3, SavePathTyped DEF Screen
    <3> QED BY <2>2, <3>1, <3>4 DEF Unchanged
  <2>6. CASE SaveWallet
    <3>1. screen'.network = screen.network
      BY <2>1, <2>6, SavePathTyped DEF SaveWallet, Screen
    <3> QED BY <2>1, <2>2, <2>6, <3>1, SaveShows
  <2>7. CASE SaveWalletConfigFails
    <3>1. ~typed /\ screen' = SavedScreen
      BY <2>7 DEF SaveWalletConfigFails
    <3>2. screen'.network = screen.network
      BY <2>1, <3>1, SavePathTyped DEF Screen
    <3> QED BY <2>2, <2>7, <3>1, <3>2, FailedSaveShows
  <2>8. CASE SaveWalletCrashes \/ Restart
    <3>1. screen' = Started(wallets', config')
      BY <2>8 DEF SaveWalletCrashes, Restart, Start
    <3> QED BY <2>1, <3>1, ShowsItself
  <2>9. ~(\/ Typing \/ \E dir \in DataDirs : BrowseDataDir(dir))
    BY DEF Typing, EditNetwork, EditDataDir, EditDescriptor, EditIndices, BrowseDataDir
  <2> QED BY <2>3, <2>4, <2>5, <2>6, <2>7, <2>8, <2>9 DEF Next, Saving
<1> QED BY <1>1, <1>2, HomeInvariant, PTL DEF Spec

\* Nothing typed is lost by a restart after Save, whichever of the two files a save got to.
THEOREM SavedScreensReturn == Spec => SavedScreenReturns
<1>1. HomeInv /\ Unchanged /\ [Next]_vars =>
        [Restart /\ ~typed /\ Folder(screen.network) # None =>
           /\ screen' = [screen EXCEPT !.network = screen'.network]
           /\ CanonicalName(screen'.network) = CanonicalName(screen.network)]_vars
  <2> SUFFICES ASSUME HomeInv, Unchanged, Restart, ~typed, Folder(screen.network) # None
               PROVE  /\ screen' = [screen EXCEPT !.network = screen'.network]
                      /\ CanonicalName(screen'.network) = CanonicalName(screen.network)
    OBVIOUS
  <2>1. screen' = Started(wallets, config)
    BY DEF Restart, Start
  <2> QED BY <2>1 DEF Unchanged, Shows
<1> QED BY <1>1, UnchangedInvariant, PTL DEF Spec, SavedScreenReturns

-------------------------------------------------------------------------------
(* The keys of a payroll.                                                  *)

\* The signers of a list of keys that are all derived at one path.
KeysAt(signers, path) == [i \in DOMAIN signers |-> PublicKey(signers[i], path)]

Places(signers, x) == {i \in DOMAIN signers : signers[i] = x}

LEMMA PlacesFinite ==
  ASSUME NEW signers \in Seq(Signers), NEW x
  PROVE  IsFiniteSet(Places(signers, x))
         /\ (Cardinality(Places(signers, x)) = 0 <=> Places(signers, x) = {})
<1>1. DOMAIN signers = 1..Len(signers) /\ Len(signers) \in Nat
  OBVIOUS
<1>2. IsFiniteSet(DOMAIN signers)
  BY <1>1, FS_Interval
<1>3. Places(signers, x) \subseteq DOMAIN signers
  BY DEF Places
<1>4. IsFiniteSet(Places(signers, x))
  BY <1>2, <1>3, FS_Subset
<1> QED BY <1>4, FS_EmptySet

\* The sorted keys depend on how often each signer is listed alone.
LEMMA SortedCounts ==
  ASSUME NEW s \in Seq(Signers), NEW t \in Seq(Signers), NEW path,
         \A x \in Signers : Cardinality(Places(s, x)) = Cardinality(Places(t, x))
  PROVE  Sorted(KeysAt(s, path)) = Sorted(KeysAt(t, path))
<1> DEFINE held(q) == {KeysAt(q, path)[i] : i \in DOMAIN KeysAt(q, path)}
           at(q, key) == {i \in DOMAIN KeysAt(q, path) : KeysAt(q, path)[i] = key}
<1>1. ASSUME NEW q \in Seq(Signers)
      PROVE  /\ held(q) = {PublicKey(x, path) : x \in {x \in Signers : Places(q, x) # {}}}
             /\ \A x \in Signers : at(q, PublicKey(x, path)) = Places(q, x)
  <2>1. /\ DOMAIN KeysAt(q, path) = DOMAIN q
        /\ \A i \in DOMAIN q : q[i] \in Signers /\ KeysAt(q, path)[i] = PublicKey(q[i], path)
    BY DEF KeysAt
  <2>2. \A x, y \in Signers : PublicKey(x, path) = PublicKey(y, path) => x = y
    BY DEF PublicKey
  <2>3. held(q) = {PublicKey(x, path) : x \in {x \in Signers : Places(q, x) # {}}}
    BY <2>1 DEF Places
  <2> QED BY <2>1, <2>2, <2>3 DEF Places
<1>2. \A x \in Signers : Places(s, x) # {} <=> Places(t, x) # {}
  BY PlacesFinite
<1>3. held(s) = held(t)
  BY <1>1, <1>2
<1>4. ASSUME NEW key \in held(s)
      PROVE  Cardinality(at(s, key)) = Cardinality(at(t, key))
  <2>1. PICK x \in Signers : key = PublicKey(x, path)
    BY <1>1
  <2> QED BY <1>1, <2>1
<1>5. \A q : Sorted(KeysAt(q, path)) = [key \in held(q) |-> Cardinality(at(q, key))]
  BY DEF Sorted
<1> HIDE DEF held, at
<1> QED BY <1>3, <1>4, <1>5

LEMMA KeysFacts ==
  ASSUME NEW w \in Wallet, NEW leaf
  PROVE  LET keys == WalletPublicKeys(w, leaf)
             arch == ArchOf(w.text)
             signers == SignersOf(w.text)
             at == IF arch = DeriveThenAggregate THEN leaf ELSE <<>>
             child == IF arch = AggregateThenDerive THEN leaf ELSE <<>>
         IN  /\ keys.arch = arch /\ keys.leaf = leaf
             /\ keys.participants = Sorted(KeysAt(signers, at))
             /\ keys.script = TaprootScript(keys.participants, child)
             /\ keys.origins = {[key |-> KeysAt(signers, at)[i], xfp |-> signers[i],
                                 path |-> at] : i \in DOMAIN signers}
BY DEF WalletPublicKeys, KeysAt, SignerPath

\* Every signer finds its own key in the PSBT of a payroll, in both architectures.
THEOREM SignersFindKeys == Spec => []SignersFindTheirKeys
<1>1. TypeOK => SignersFindTheirKeys
  <2> SUFFICES ASSUME TypeOK, Valid(WalletOf(screen)), NEW leaf \in Leaves,
                      NEW i \in DOMAIN screen.text.parts
               PROVE  DeviceFinds(screen.text.parts[i].signer,
                                  KeyFields(WalletPublicKeys(WalletOf(screen), leaf)))
    BY DEF SignersFindTheirKeys
  <2> DEFINE w == WalletOf(screen)
             keys == WalletPublicKeys(w, leaf)
             signers == SignersOf(w.text)
             at == IF ArchOf(w.text) = DeriveThenAggregate THEN leaf ELSE <<>>
             origin == [key |-> KeysAt(signers, at)[i], xfp |-> signers[i], path |-> at]
  <2>1. w \in Wallet /\ w.text = screen.text
    <3>1. screen.text # None
      BY DEF Valid, WalletOf
    <3> QED BY <3>1, WalletOfTyped DEF WalletOf
  <2>2. w.text \in Text
    BY <2>1 DEF Wallet
  <2>3. i \in DOMAIN signers /\ signers[i] = screen.text.parts[i].signer
    BY <2>1, <2>2, SignersTyped
  <2>4. /\ keys.origins = {[key |-> KeysAt(signers, at)[j], xfp |-> signers[j],
                            path |-> at] : j \in DOMAIN signers}
        /\ keys.participants = Sorted(KeysAt(signers, at))
    BY <2>1, KeysFacts
  <2>5. /\ KeyFields(keys).origins = keys.origins
        /\ KeyFields(keys).participants = keys.participants
    BY DEF KeyFields
  <2>6. KeysAt(signers, at)[i] = PublicKey(signers[i], at)
        /\ i \in DOMAIN KeysAt(signers, at)
    BY <2>3 DEF KeysAt
  <2>7. KeysAt(signers, at)[i] \in DOMAIN Sorted(KeysAt(signers, at))
    BY <2>6 DEF Sorted
  <2>8. origin \in KeyFields(keys).origins
    BY <2>3, <2>4, <2>5
  <2> HIDE DEF keys, signers, at
  <2> QED BY <2>3, <2>4, <2>5, <2>6, <2>7, <2>8 DEF DeviceFinds, keys
<1> QED BY <1>1, WalletTypeCorrect, PTL

\* The finalizer rebuilds the script of the input from the PSBT, and co-signers who list
\* the signers in another order have the same treasury.
THEOREM FinalizerFindsScripts == Spec => []FinalizerFindsScript
<1>1. TypeOK => FinalizerFindsScript
  <2> SUFFICES ASSUME TypeOK, Valid(WalletOf(screen)), NEW leaf \in Leaves
               PROVE  LET w == WalletOf(screen)
                          keys == WalletPublicKeys(w, leaf)
                      IN  /\ FinalizerScript(KeyFields(keys)) = TreasuryScript(w, leaf)
                          /\ \A text \in Texts : SameSigners(text, screen.text) =>
                               TreasuryScript([w EXCEPT !.text = text], leaf) = keys.script
    BY DEF FinalizerFindsScript
  <2> DEFINE w == WalletOf(screen)
             keys == WalletPublicKeys(w, leaf)
  <2>1. w \in Wallet /\ w.text = screen.text
    <3>1. screen.text # None
      BY DEF Valid, WalletOf
    <3> QED BY <3>1, WalletOfTyped DEF WalletOf
  <2>2. w.text \in Text /\ ArchOf(w.text) \in WalletKeyArch
    BY <2>1, SignersTyped DEF Wallet
  <2>3. leaf # None
    BY SetupAssumption
  <2>4. FinalizerScript(KeyFields(keys)) = TreasuryScript(w, leaf)
    <3> DEFINE child == IF ArchOf(w.text) = AggregateThenDerive THEN leaf ELSE <<>>
    <3>1. keys.arch = ArchOf(w.text) /\ keys.leaf = leaf
          /\ keys.script = TaprootScript(keys.participants, child)
      BY <2>1, KeysFacts
    <3>2. KeyFields(keys).participants = keys.participants
          /\ KeyFields(keys).aggPath = AggPath(keys)
      BY DEF KeyFields
    <3>3. AggPath(keys) = IF ArchOf(w.text) = AggregateThenDerive THEN leaf ELSE None
      BY <3>1 DEF AggPath
    <3>4. (IF AggPath(keys) = None THEN <<>> ELSE AggPath(keys)) = child
      BY <2>3, <3>3
    <3> HIDE DEF keys, child
    <3> QED BY <3>1, <3>2, <3>4 DEF FinalizerScript, TreasuryScript, keys
  <2>5. ASSUME NEW text \in Texts, SameSigners(text, screen.text)
        PROVE  TreasuryScript([w EXCEPT !.text = text], leaf) = keys.script
    <3> DEFINE v == [w EXCEPT !.text = text]
               s == SignersOf(text)
               q == SignersOf(w.text)
    <3>1. text \in Text
      BY SetupAssumption
    <3>2. v \in Wallet /\ v.text = text
      BY <2>1, <3>1 DEF Wallet
    <3>3. ArchOf(text) = ArchOf(w.text)
      BY <2>1, <2>5 DEF SameSigners
    <3>4. /\ s \in Seq(Signers) /\ q \in Seq(Signers)
          /\ DOMAIN s = DOMAIN text.parts /\ DOMAIN q = DOMAIN w.text.parts
          /\ \A i \in DOMAIN text.parts : s[i] = text.parts[i].signer
          /\ \A i \in DOMAIN w.text.parts : q[i] = w.text.parts[i].signer
      BY <2>2, <3>1, SignersTyped
    <3>5. ASSUME NEW x \in Signers
          PROVE  Cardinality(Places(s, x)) = Cardinality(Places(q, x))
      <4>1. Places(s, x) = {i \in DOMAIN text.parts : text.parts[i].signer = x}
        BY <3>4 DEF Places
      <4>2. Places(q, x) = {i \in DOMAIN w.text.parts : w.text.parts[i].signer = x}
        BY <3>4 DEF Places
      <4> QED BY <2>1, <2>5, <4>1, <4>2 DEF SameSigners
    <3>6. \A path : Sorted(KeysAt(s, path)) = Sorted(KeysAt(q, path))
      BY <3>4, <3>5, SortedCounts
    <3> DEFINE arch == ArchOf(w.text)
               at == IF arch = DeriveThenAggregate THEN leaf ELSE <<>>
               child == IF arch = AggregateThenDerive THEN leaf ELSE <<>>
    <3>7. keys.script = TaprootScript(Sorted(KeysAt(q, at)), child)
      BY <2>1, KeysFacts
    <3>8. WalletPublicKeys(v, leaf).script = TaprootScript(Sorted(KeysAt(s, at)), child)
      <4>1. v.text = text /\ ArchOf(v.text) = arch
        BY <3>2, <3>3
      <4> HIDE DEF arch, v
      <4> QED BY <3>2, <4>1, KeysFacts DEF arch
    <3>9. Sorted(KeysAt(s, at)) = Sorted(KeysAt(q, at))
      BY <3>6
    <3> HIDE DEF keys, at, child, s, q
    <3> QED BY <3>7, <3>8, <3>9 DEF TreasuryScript
  <2> QED BY <2>4, <2>5
<1> QED BY <1>1, WalletTypeCorrect, PTL
===============================================================================
