------------------------------- MODULE WalletSetup -------------------------------
(***************************************************************************)
(* The wallet screen, wallet.toml, config.toml and the start of the        *)
(* coordinator (src/bin/gui.rs): which network's file a handler writes,    *)
(* what the next start loads, and whose addresses are shown meanwhile.     *)
(*                                                                         *)
(* The network and the data directory are free fields.  Typing into them,  *)
(* or into the descriptor, calls no handler.                               *)
(***************************************************************************)
EXTENDS WalletDescriptor

CONSTANTS
  Networks, \* network names the user may type
  DataDirs, \* data directories
  Texts,    \* descriptors the user may type
  Indices   \* derivation indices the user may type: [last, change]

Folders == {"testnet", "signet", "mainnet"}

\* A wallet file: the path the screen starts with, or that of a network.
Bare == [dir |-> None, folder |-> None]
Paths == [dir : DataDirs, folder : Folders] \cup {Bare}

DefaultDir == "."

Wallet == [network : NetworkNames, text : Text, last : Nat, change : Nat]
Config == [network : NetworkNames, dir : DataDirs]
Screen == [network : NetworkNames, dir : DataDirs, path : Paths, text : Text \cup {None},
           last : Nat, change : Nat]

\* The chains and indices of outputs a payroll spends and pays change to.
Leaves == {<<0, i.last>> : i \in Indices} \cup {<<1, i.change>> : i \in Indices}

ASSUME SetupAssumption ==
  /\ Networks \subseteq NetworkNames
  /\ DefaultDir \in DataDirs
  /\ Texts \subseteq Text
  /\ Indices \subseteq [last : Nat, change : Nat]
  /\ None \notin Text \cup Wallet \cup Config \cup Leaves \cup DataDirs \cup Folders

\* One wallet as two of its signers may write it down.
SameSigners(s, t) ==
  /\ Parses(s) /\ Parses(t)
  /\ ArchOf(s) = ArchOf(t)
  /\ \A x \in Signers : Cardinality({i \in DOMAIN s.parts : s.parts[i].signer = x})
                      = Cardinality({i \in DOMAIN t.parts : t.parts[i].signer = x})

VARIABLES
  wallets, \* the wallet files, None where there is none
  config,  \* config.toml, or None
  screen,  \* the fields of the wallet screen
  shown,   \* the addresses shown, with the wallet they are of, or None
  typed    \* something was typed since the last Save or start

vars == <<wallets, config, screen, shown, typed>>

-------------------------------------------------------------------------------
(* Paths.                                                                  *)

\* default_network_directory: none for regtest.
Folder(network) ==
  CASE network = "testnet"                -> "testnet"
    [] network = "signet"                 -> "signet"
    [] network \in {"mainnet", "bitcoin"} -> "mainnet"
    [] OTHER                              -> None

\* Mutant: only the path the screen starts with is a default one.
KeepsItsPath(network, dir, current) ==
  IF Folder(network) = None \/ current # Bare THEN current
  ELSE [dir |-> dir, folder |-> Folder(network)]

\* default_path_for_network; every path the screen can have is a default path.
DefaultPath(network, dir, current) ==
  IF Folder(network) = None THEN current
  ELSE [dir |-> dir, folder |-> Folder(network)]

-------------------------------------------------------------------------------
(* The screen.                                                             *)

\* wallet_from_ui
WalletOf(s) == [network |-> s.network, text |-> s.text, last |-> s.last, change |-> s.change]

\* receive_address and change_address, of a valid wallet.
Addresses(wallet) ==
  [network |-> NetworkValue(wallet.network),
   receive |-> TreasuryScript(wallet, <<0, wallet.last>>),
   change  |-> TreasuryScript(wallet, <<1, wallet.change>>)]

\* update_receive_address: what is shown stays when the fields are no wallet.
UpdateAddresses ==
  shown' = IF Valid(WalletOf(screen')) THEN Addresses(WalletOf(screen')) ELSE shown

\* load_wallet
Loads(file) == file # None /\ Valid(file)

\* main: the configuration, and load_wallet_into_ui where the network has a folder.
Started(files, conf) ==
  LET network == IF conf = None THEN "testnet" ELSE conf.network
      dir     == IF conf = None THEN DefaultDir ELSE conf.dir
      path    == DefaultPath(network, dir, Bare)
      blank   == [network |-> network, dir |-> dir, path |-> path,
                  text |-> None, last |-> 0, change |-> 0]
      wallet  == Normalized(files[path])
  IN  IF Folder(network) # None /\ Loads(files[path])
      THEN [network |-> wallet.network, dir |-> dir, path |-> path,
            text |-> wallet.text, last |-> wallet.last, change |-> wallet.change]
      ELSE blank

Start(files, conf) ==
  /\ screen' = Started(files, conf)
  /\ shown' = IF screen'.text = None THEN None ELSE Addresses(WalletOf(screen'))
  /\ typed' = FALSE

Init ==
  /\ wallets = [path \in Paths |-> None]
  /\ config \in [network : Networks, dir : DataDirs] \cup {None}
  /\ screen = Started(wallets, config)
  /\ shown = None
  /\ typed = FALSE

TypeOK ==
  /\ wallets \in [Paths -> Wallet \cup {None}]
  /\ \A path \in Paths : wallets[path] # None =>
       /\ Valid(wallets[path])
       /\ wallets[path].network # "mainnet" /\ wallets[path].text.layout = "tidy"
  /\ config \in Config \cup {None}
  /\ screen \in Screen
  /\ typed \in BOOLEAN

-------------------------------------------------------------------------------
(* Typing.                                                                 *)

EditNetwork(network) ==
  /\ screen' = [screen EXCEPT !.network = network]
  /\ typed' = TRUE
  /\ UNCHANGED <<wallets, config, shown>>

EditDataDir(dir) ==
  /\ screen' = [screen EXCEPT !.dir = dir]
  /\ typed' = TRUE
  /\ UNCHANGED <<wallets, config, shown>>

EditDescriptor(text) ==
  /\ screen' = [screen EXCEPT !.text = text]
  /\ typed' = TRUE
  /\ UNCHANGED <<wallets, config, shown>>

\* The two index fields, the only ones that recompute the addresses.
EditIndices(indices) ==
  /\ screen' = [screen EXCEPT !.last = indices.last, !.change = indices.change]
  /\ UpdateAddresses
  /\ typed' = TRUE
  /\ UNCHANGED <<wallets, config>>

-------------------------------------------------------------------------------
(* Saving.                                                                 *)

\* save_app_config_from_ui, which fails for a fee rate that is no number.
SaveAppConfig(s) == config' = [network |-> s.network, dir |-> s.dir]

\* browse_data_dir_into_ui, the configuration saved or not.
BrowseDataDir(dir) ==
  /\ screen' = [screen EXCEPT !.dir = dir]
  /\ SaveAppConfig(screen') \/ UNCHANGED config
  /\ typed' = TRUE
  /\ UNCHANGED <<wallets, shown>>

\* save_recipients_from_ui, as far as the configuration goes.
SaveRecipients ==
  /\ SaveAppConfig(screen)
  /\ UNCHANGED <<wallets, screen, shown, typed>>

\* The path save_wallet_from_ui sets before it tries to write.
SavePath == DefaultPath(screen.network, screen.dir, screen.path)

SavedScreen == [screen EXCEPT !.path = SavePath]

\* save_wallet: only a wallet that would load is written.
WriteWallet ==
  /\ Valid(WalletOf(screen))
  /\ wallets' = [wallets EXCEPT ![SavePath] = Normalized(WalletOf(screen))]

SaveWalletRefused ==
  /\ screen.text # None
  /\ ~Valid(WalletOf(screen))
  /\ screen' = SavedScreen
  /\ UNCHANGED <<wallets, config, shown, typed>>

\* save_wallet_from_ui: the file, the configuration, and the descriptor read back.
SaveWallet ==
  /\ WriteWallet
  /\ SaveAppConfig(screen)
  /\ screen' = [SavedScreen EXCEPT !.text = wallets'[SavePath].text]
  /\ UpdateAddresses
  /\ typed' = FALSE

SaveWalletConfigFails ==
  /\ WriteWallet
  /\ screen' = SavedScreen
  /\ UNCHANGED <<config, shown, typed>>

\* The process dies between the two writes, and starts again.
SaveWalletCrashes ==
  /\ WriteWallet
  /\ Start(wallets', config)
  /\ UNCHANGED config

Restart ==
  /\ Start(wallets, config)
  /\ UNCHANGED <<wallets, config>>

-------------------------------------------------------------------------------

Typing ==
  \/ \E network \in Networks : EditNetwork(network)
  \/ \E dir \in DataDirs : EditDataDir(dir)
  \/ \E text \in Texts : EditDescriptor(text)
  \/ \E indices \in Indices : EditIndices(indices)

Saving ==
  \/ \E dir \in DataDirs : BrowseDataDir(dir)
  \/ SaveRecipients
  \/ SaveWalletRefused
  \/ SaveWallet
  \/ SaveWalletConfigFails
  \/ SaveWalletCrashes

Next == Typing \/ Saving \/ Restart

Spec == Init /\ [][Next]_vars

-------------------------------------------------------------------------------

\* What Save leaves behind is what the next start shows, whatever was saved before for
\* other networks and directories: nothing typed is lost by a restart after Save,
\* where the network has a folder to load from.
SavedScreenReturns ==
  [][Restart /\ ~typed /\ Folder(screen.network) # None =>
       /\ screen' = [screen EXCEPT !.network = screen'.network]
       /\ CanonicalName(screen'.network) = CanonicalName(screen.network)]_vars

\* Every wallet file is in the folder of the network it is for, so that a start finds
\* the wallet of the configured network and no other.
WalletsAtHome ==
  \A path \in Paths : wallets[path] # None => Folder(wallets[path].network) = path.folder

\* A wallet file that was written derives the scripts and keeps the indices of the
\* wallet on the screen: rewriting the descriptor changes neither signers nor
\* architecture.
SaveKeepsTheWallet ==
  [][\A path \in Paths : wallets'[path] # wallets[path] =>
       Addresses(wallets'[path]) = Addresses(WalletOf(screen))]_wallets

\* The treasury's scripts do not depend on the order a co-signer lists the signers in,
\* and the finalizer rebuilds the script of an input from the PSBT alone, in both
\* architectures.
FinalizerFindsScript ==
  Valid(WalletOf(screen)) =>
    \A leaf \in Leaves :
      LET keys == WalletPublicKeys(WalletOf(screen), leaf)
      IN  /\ FinalizerScript(KeyFields(keys)) = TreasuryScript(WalletOf(screen), leaf)
          /\ \A text \in Texts : SameSigners(text, screen.text) =>
               TreasuryScript([WalletOf(screen) EXCEPT !.text = text], leaf) = keys.script

\* Every signer of the wallet finds its own key on the input and on the change output
\* of a payroll.
SignersFindTheirKeys ==
  Valid(WalletOf(screen)) =>
    \A leaf \in Leaves, i \in DOMAIN screen.text.parts :
      DeviceFinds(screen.text.parts[i].signer,
                  KeyFields(WalletPublicKeys(WalletOf(screen), leaf)))

-------------------------------------------------------------------------------
(* What the source says of the program and the program does not do.        *)

\* "Wallet, UTXO, and recipient files are stored per network under the configured data
\* directory" (docs/userguide.md:48): saving a wallet leaves the wallets of other
\* networks alone.
StoredPerNetwork ==
  [][\A path \in Paths : wallets'[path] # wallets[path] =>
       path.folder = Folder(screen.network)]_wallets
===============================================================================
