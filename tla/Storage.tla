------------------------------- MODULE Storage -------------------------------
(***************************************************************************)
(* The memories of the console and everything that moves bytes between     *)
(* them: the load and store instructions of the interpreters, the DMA      *)
(* engines, the serial bus with EEPROM and controller packs, SRAM and      *)
(* flash RAM, the SummerCart64 and the save files of each ROM.             *)
(* The layout in host memory and the arithmetic of the instructions are in *)
(* HostMemory, what all of it must amount to in BigEndian.                 *)
(*                                                                         *)
(* Sizes are reduced, ratios kept: a memory has eight bytes and a block or *)
(* page of a save memory four.  Register accesses that start transfers are *)
(* inputs of the transfers; when they end is in Devices.                   *)
(***************************************************************************)
EXTENDS HostMemory, FiniteSets, TLC

CONSTANTS Games,    \* ROMs
          Scenes,   \* what a behaviour may do: operations, areas, number of steps
          Files,    \* game -> save file -> initial content
          Absent

Size == 8
Page == 4               \* flash page, EEPROM block, block of a pack, sector of the SD card
FlashSize == 16
Ports == 0 .. 1         \* controller ports with a pack; the next one has none
WipePerPack == 2        \* the part of every pack that clear_save_data writes
Addresses == 0 .. Size - 1

ASSUME StorageAssumption == Files \in [Games -> [{"eeprom", "sram", "fram", "mpak"} -> Seq(0 .. 255)]]

VARIABLES scene, steps,
          ram,          \* area -> host memory
          rt, llbit,
          reg_cop1_fgr_64,
          fr,           \* the bit FR of Status
          layout,       \* the FR for which reg_cop1_simple and reg_cop1_double were set up
          op,
          rom,          \* the ROM that runs
          file,         \* ROM -> save file -> bytes
          buffer,       \* the arrays eeprom, sram, flashram and mempack
          use_flashram, flash,    \* the mode, erase_offset and write_pointer of the flash RAM
          summercart,
          stop          \* the core was told to stop

machine == <<ram, rt, llbit, reg_cop1_fgr_64, fr, layout, use_flashram, flash, summercart>>
storage == <<rom, file, buffer>>
vars == <<scene, steps, machine, op, storage, stop>>

\* An operation of the scene: at most scene.steps of them.
Performs(o) ==
    /\ steps < scene.steps
    /\ steps' = steps + 1
    /\ op' = o
    /\ UNCHANGED scene

-----------------------------------------------------------------------------
(***************************************************************************)
(* Instructions.                                                           *)
(***************************************************************************)
Loads == {"LB", "LH", "LW", "LL", "LBU", "LHU", "LWU", "LD", "LWL", "LWR", "LDL", "LDR"}
Stores == {"SB", "SH", "SW", "SD", "SWL", "SWR", "SDL", "SDR", "SC"}

\* The width of the memory access, and the instructions that need an aligned address.
width(do) ==
    CASE do \in {"LB", "LBU", "SB"} -> 1
      [] do \in {"LH", "LHU", "SH"} -> 2
      [] do \in {"LD", "LDL", "LDR", "SD", "SDL", "SDR", "LDC1", "SDC1"} -> 8
      [] OTHER -> 4
Partial == {"LWL", "LWR", "LDL", "LDR", "SWL", "SWR", "SDL", "SDR"}
Aligned(do, a) == do \in Partial \/ a % width(do) = 0

\* readmem, readmemb, readmemh and readmemd select the handler of the area.
read_memory(area, a, n) ==
    CASE area = "pif" -> read_pif(ram[area], a, n)
      [] area = "rdramreg" -> read_register(ram[area], a, n)
      [] OTHER -> read_rdram(ram[area], a, n)
write_memory(area, a, v) ==
    CASE area = "pif" -> write_pif(ram[area], a, v)
      [] area = "rdramreg" -> write_register(ram[area], a, v)
      [] OTHER -> write_rdram(ram[area], a, v)

interp_load(do, k, v) ==
    CASE do = "LB" -> LB(rt, k, v)   [] do = "LH" -> LH(rt, k, v)
      [] do \in {"LW", "LL"} -> LW(rt, k, v)
      [] do = "LBU" -> LBU(rt, k, v) [] do = "LHU" -> LHU(rt, k, v)
      [] do = "LWU" -> LWU(rt, k, v) [] do = "LD" -> LD(rt, k, v)
      [] do = "LWL" -> LWL(rt, k, v) [] do = "LWR" -> LWR(rt, k, v)
      [] do = "LDL" -> LDL(rt, k, v) [] do = "LDR" -> LDR(rt, k, v)

Load(do, area, a) ==
    LET n == width(do)
    IN  /\ Aligned(do, a)
        /\ Performs([do |-> do, area |-> area, a |-> a])
        /\ rt' = interp_load(do, a % n, read_memory(area, a - (a % n), n))
        /\ llbit' = (llbit \/ do = "LL")
        /\ UNCHANGED <<ram, reg_cop1_fgr_64, fr, layout, use_flashram, flash, summercart,
                       storage, stop>>

\* The partial stores read the word first; SWL of one byte writes just that byte.
interp_store(do, area, a) ==
    LET n == width(do)
        base == a - (a % n)
        old == read_memory(area, base, n)
    IN  CASE do \in {"SB", "SH", "SW", "SD", "SC"} -> write_memory(area, a, low(rt, n))
          [] do = "SWL" /\ a % 4 = 3 -> write_memory(area, a, <<rt[5]>>)
          [] do = "SWL" /\ a % 4 < 3 -> write_memory(area, base, SWL(rt, a % 4, old))
          [] do = "SWR" -> write_memory(area, base, SWR(rt, a % 4, old))
          [] do = "SDL" -> write_memory(area, base, SDL(rt, a % 8, old))
          [] do = "SDR" -> write_memory(area, base, SDR(rt, a % 8, old))

\* Bound: no store of a double word to the RAM of the PIF, where write_pifd
\* writes both words to the same address.
Store(do, area, a) ==
    /\ do # "SC"
    /\ Aligned(do, a)
    /\ area = "pif" => width(do) < 8
    /\ Performs([do |-> do, area |-> area, a |-> a])
    /\ ram' = [ram EXCEPT ![area] = interp_store(do, area, a)]
    /\ UNCHANGED <<rt, llbit, reg_cop1_fgr_64, fr, layout, use_flashram, flash, summercart,
                   storage, stop>>

SC(area, a) ==
    /\ Aligned("SC", a)
    /\ Performs([do |-> "SC", area |-> area, a |-> a])
    /\ ram' = IF llbit THEN [ram EXCEPT ![area] = interp_store("SC", area, a)] ELSE ram
    /\ rt' = u64(<<IF llbit THEN 1 ELSE 0>>)
    /\ llbit' = FALSE
    /\ UNCHANGED <<reg_cop1_fgr_64, fr, layout, use_flashram, flash, summercart, storage, stop>>

-----------------------------------------------------------------------------
(***************************************************************************)
(* The registers of the FPU, reached through pointers that are set up when *)
(* Status is written.                                                      *)
(***************************************************************************)
reg_cop1_double(f) == IF layout THEN f ELSE f \div 2
get_double(f) == reg_cop1_fgr_64[reg_cop1_double(f)]
set_double(f, v) == [reg_cop1_fgr_64 EXCEPT ![reg_cop1_double(f)] = v]

\* The upper half of the host's double word for odd registers in the layout of FR = 0.
reg_cop1_simple(f) ==
    [at |-> reg_cop1_double(f), upper |-> ~layout /\ f % 2 = 1]
get_simple(f) ==
    LET p == reg_cop1_simple(f)
    IN  IF p.upper THEN SubSeq(reg_cop1_fgr_64[p.at], 1, 4) ELSE low(reg_cop1_fgr_64[p.at], 4)
set_simple(f, v) ==
    LET p == reg_cop1_simple(f)
        old == reg_cop1_fgr_64[p.at]
    IN  [reg_cop1_fgr_64 EXCEPT ![p.at] =
            IF p.upper THEN v \o low(old, 4) ELSE SubSeq(old, 1, 4) \o v]

\* Bound: with FR = 0 double words are in even registers, as the architecture demands.
FpuOps == {"LWC1", "LDC1", "SWC1", "SDC1", "MTC1", "DMTC1", "MFC1", "DMFC1"}
Cop1(do, area, a, f) ==
    /\ do \in {"LDC1", "SDC1", "DMTC1", "DMFC1"} /\ ~fr => f % 2 = 0
    /\ Aligned(do, a)
    /\ Performs([do |-> do, area |-> area, a |-> a, f |-> f])
    /\ \/ /\ do \in {"LWC1", "LDC1", "MTC1", "DMTC1"}
          /\ reg_cop1_fgr_64' =
                CASE do = "LWC1" -> set_simple(f, read_memory(area, a, 4))
                  [] do = "LDC1" -> set_double(f, read_memory(area, a, 8))
                  [] do = "MTC1" -> set_simple(f, low(rt, 4))
                  [] do = "DMTC1" -> set_double(f, rt)
          /\ UNCHANGED <<ram, rt>>
       \/ /\ do \in {"SWC1", "SDC1"}
          /\ ram' = [ram EXCEPT ![area] =
                        write_memory(area, a, IF do = "SWC1" THEN get_simple(f) ELSE get_double(f))]
          /\ UNCHANGED <<reg_cop1_fgr_64, rt>>
       \/ /\ do \in {"MFC1", "DMFC1"}
          /\ rt' = IF do = "MFC1" THEN sign_extended(u64(get_simple(f)), 4) ELSE get_double(f)
          /\ UNCHANGED <<ram, reg_cop1_fgr_64>>
    /\ UNCHANGED <<llbit, fr, layout, use_flashram, flash, summercart, storage, stop>>

\* MTC0 Status with another FR sets the pointers up again.
MTC0_Status ==
    /\ Performs([do |-> "MTC0"])
    /\ fr' = ~fr
    /\ layout' = ~fr
    /\ UNCHANGED <<ram, rt, llbit, reg_cop1_fgr_64, use_flashram, flash, summercart, storage, stop>>

-----------------------------------------------------------------------------
(***************************************************************************)
(* Transfers.  The loops copy byte by byte with both addresses swizzled.   *)
(***************************************************************************)
copied(dst, d, src, s, n) ==
    [y \in DOMAIN dst |-> LET i == S8(y) - d IN IF i \in 0 .. n - 1 THEN src[S8(s + i)] ELSE dst[y]]

Moves(from, s, to, d, n) ==
    /\ Performs([do |-> "transfer", from |-> from, s |-> s, to |-> to, d |-> d, n |-> n])
    /\ ram' = [ram EXCEPT ![to] = copied(@, d, ram[from], s, n)]
    /\ UNCHANGED <<rt, llbit, reg_cop1_fgr_64, fr, layout, use_flashram, flash, summercart,
                   storage, stop>>

dma_sp_write(s, d, n) == Moves("rdram", s, "rsp_mem", d, n)
dma_sp_read(s, d, n) == Moves("rsp_mem", s, "rdram", d, n)

\* A transfer from the cartridge; what it costs the cache of decoded code is in
\* CodeCache.  Bound: it stays inside both memories, comes after the boot, when
\* the size of memory is written along with it, and the debugger permits it.
dma_pi_write_rom(s, d, n) == Moves("cart", s, "rdram", d, n)

\* The buffer of the SummerCart64, and the ROM once cfg_rom_write is set.
dma_pi_read_buffer(s, d, n) == Moves("rdram", s, "sc_buffer", d, n)
dma_pi_write_buffer(s, d, n) == Moves("sc_buffer", s, "rdram", d, n)
dma_pi_read_rom(s, d, n) == summercart.cfg_rom_write = 1 /\ Moves("rdram", s, "cart", d, n)

-----------------------------------------------------------------------------
(***************************************************************************)
(* Save files.  Every access reads the whole file into an array, of which  *)
(* a short file fills only the beginning, and a write stores all of it.    *)
(***************************************************************************)
fread(b, f) == [x \in DOMAIN b |-> IF x < Len(f) THEN f[x + 1] ELSE b[x]]
fwrite(f, b, n) ==
    [i \in 1 .. (IF n > Len(f) THEN n ELSE Len(f)) |-> IF i <= n THEN b[i - 1] ELSE f[i]]

\* SRAM, as long as the game has not used the flash RAM.
dma_pi_read_sram(s, d, n) ==
    LET written == copied(fread(buffer.sram, file[rom].sram), d, ram.rdram, s, n)
    IN  /\ use_flashram # 1
        /\ Performs([do |-> "save", m |-> "cart", from |-> "rdram", s |-> s, d |-> d, n |-> n])
        /\ file' = [file EXCEPT ![rom].sram = fwrite(@, written, Size)]
        /\ buffer' = [buffer EXCEPT !.sram = written]
        /\ use_flashram' = -1
        /\ UNCHANGED <<ram, rt, llbit, reg_cop1_fgr_64, fr, layout, flash, summercart, rom, stop>>

dma_pi_write_sram(s, d, n) ==
    LET b == fread(buffer.sram, file[rom].sram)
    IN  /\ use_flashram # 1
        /\ Performs([do |-> "deliver", m |-> "cart", s |-> s, to |-> "rdram", d |-> d, n |-> n])
        /\ ram' = [ram EXCEPT !.rdram = copied(@, d, b, s, n)]
        /\ buffer' = [buffer EXCEPT !.sram = b]
        /\ use_flashram' = -1
        /\ UNCHANGED <<rt, llbit, reg_cop1_fgr_64, fr, layout, flash, summercart, rom, file, stop>>

-----------------------------------------------------------------------------
(***************************************************************************)
(* Flash RAM.  Erasing and programming use the file of the SRAM, reading   *)
(* the file of the flash RAM, and all of them the same array.              *)
(***************************************************************************)
FlashIdle == UNCHANGED <<rt, llbit, reg_cop1_fgr_64, fr, layout, summercart, rom>>

\* read_flashram_status and write_flashram_command claim the area for the flash
\* RAM unless a transfer has claimed it for SRAM.
claims_flash == use_flashram # -1 /\ use_flashram' = 1

read_flashram_status ==
    /\ claims_flash
    /\ Performs([do |-> "command"])
    /\ FlashIdle
    /\ UNCHANGED <<ram, flash, file, buffer, stop>>

flash_status(last) == <<17, 17, 128>> \o last

\* The commands that set the state machine up; d is the number of a page.
set_up(c, d) ==
    CASE c = "offset" -> [flash EXCEPT !.erase_offset = d * Page]
      [] c = "erase_mode" -> [flash EXCEPT !.mode = "ERASE", !.status = flash_status(<<8, 0, 194, 0, 0>>)]
      [] c = "program_offset" -> [flash EXCEPT !.erase_offset = d * Page,
                                              !.status = flash_status(<<4, 0, 194, 0, 0>>)]
      [] c = "write_mode" -> [flash EXCEPT !.mode = "WRITE"]
      [] c = "status_mode" -> [flash EXCEPT !.mode = "STATUS", !.status = flash_status(<<1, 0, 194, 0, 0>>)]
      [] c = "read_mode" -> [flash EXCEPT !.mode = "READ", !.status = flash_status(<<4, 240, 0, 0, 0>>)]

flashram_command(c, d) ==
    /\ claims_flash
    /\ Performs([do |-> "command"])
    /\ flash' = set_up(c, d)
    /\ FlashIdle
    /\ UNCHANGED <<ram, file, buffer, stop>>

\* The array after the command: the page erased, or written from where the last
\* transfer pointed, with what memory holds there by now.
executed(b) ==
    [y \in DOMAIN b |->
        LET i == S8(y) - flash.erase_offset
        IN  IF i \notin 0 .. Page - 1 THEN b[y]
            ELSE IF flash.mode = "ERASE" THEN 255 ELSE ram.rdram[S8(flash.write_pointer + i)]]

execute ==
    LET changed == executed(fread(buffer.flashram, file[rom].sram))
        page == [m |-> "cart", d |-> flash.erase_offset, n |-> Page]
    IN  /\ claims_flash
        /\ flash' = [flash EXCEPT !.mode = "NOPES"]
        /\ \/ /\ flash.mode \in {"ERASE", "WRITE"}
              /\ Performs(IF flash.mode = "ERASE" THEN [do |-> "erase"] @@ page
                          ELSE [do |-> "save", from |-> "rdram", s |-> flash.write_pointer] @@ page)
              /\ file' = [file EXCEPT ![rom].sram = fwrite(@, changed, FlashSize)]
              /\ buffer' = [buffer EXCEPT !.flashram = changed]
              /\ UNCHANGED stop
           \/ /\ flash.mode \in {"NOPES", "STATUS", "READ"}
              /\ Performs([do |-> "command"])
              /\ stop' = (flash.mode = "READ")
              /\ UNCHANGED <<file, buffer>>
        /\ FlashIdle
        /\ UNCHANGED ram

\* A transfer to the flash RAM notes where the page is; in any other mode the core stops.
dma_write_flashram(s) ==
    /\ use_flashram = 1
    /\ Performs([do |-> "command"])
    /\ flash' = IF flash.mode = "WRITE" THEN [flash EXCEPT !.write_pointer = s] ELSE flash
    /\ stop' = (flash.mode # "WRITE")
    /\ FlashIdle
    /\ UNCHANGED <<ram, file, buffer, use_flashram>>

dma_read_flashram(s, d, n) ==
    LET b == fread(buffer.flashram, file[rom].fram)
    IN  /\ use_flashram = 1
        /\ \/ /\ flash.mode = "STATUS"
              /\ Performs([do |-> "deliver", m |-> "status", s |-> 0, to |-> "rdram", d |-> 0, n |-> 8])
              /\ ram' = [ram EXCEPT !.rdram = write_rdram(@, 0, flash.status)]
              /\ UNCHANGED <<buffer, stop>>
           \/ /\ flash.mode = "READ"
              /\ Performs([do |-> "deliver", m |-> "cart", s |-> 2 * s, to |-> "rdram", d |-> d, n |-> n])
              /\ ram' = [ram EXCEPT !.rdram = copied(@, d, b, 2 * s, n)]
              /\ buffer' = [buffer EXCEPT !.flashram = b]
              /\ UNCHANGED stop
           \/ /\ flash.mode \notin {"STATUS", "READ"}
              /\ Performs([do |-> "command"])
              /\ stop' = TRUE
              /\ UNCHANGED <<ram, buffer>>
        /\ FlashIdle
        /\ UNCHANGED <<flash, file, use_flashram>>

-----------------------------------------------------------------------------
(***************************************************************************)
(* The serial bus.  A transfer fills the RAM of the PIF, whose commands    *)
(* are then carried out port by port.  A command c is for EEPROM or for    *)
(* the pack of a port, its data is a field of the PIF's RAM.  t is a       *)
(* record of the RAM, the files of the ROM and the arrays.  The lengths,   *)
(* addresses and checksums around the field, and the controller polls,     *)
(* which VcrCore has, are left out.                                        *)
(***************************************************************************)
field(t, c) == [i \in 0 .. Page - 1 |-> t.pif[c.at + i]]
answer(t, c, f) ==
    [t EXCEPT !.pif = [x \in DOMAIN @ |-> IF x \in c.at .. c.at + Page - 1 THEN f[x - c.at] ELSE @[x]]]
part(b, a) == [i \in 0 .. Page - 1 |-> b[a + i]]
with_part(b, a, f) == [x \in DOMAIN b |-> IF x \in a .. a + Page - 1 THEN f[x - a] ELSE b[x]]

EepromCommand(t, c) ==
    LET b == fread(t.eeprom, t.file.eeprom)
        written == with_part(b, c.block * Page, field(t, c))
    IN  IF c.cmd = "read" THEN answer([t EXCEPT !.eeprom = b], c, part(b, c.block * Page))
        ELSE [t EXCEPT !.eeprom = written, !.file.eeprom = fwrite(@, written, Size)]

\* The file holds the packs of all ports one after the other.  Mutant: every
\* port uses the first pack.
mempack_address_first(port, block) == block * Page
mempack_address(port, block) == port * Size + block * Page

\* An address behind the pack, and a controller without one, deliver zeros.
internal_ControllerCommand(t, c) ==
    LET b == fread(t.mempack, t.file.mpak)
        a == mempack_address(c.port, c.block)
        written == with_part(b, a, field(t, c))
        there == c.port \in Ports /\ c.block < Size \div Page
    IN  CASE c.cmd = "read" /\ there  -> answer([t EXCEPT !.mempack = b], c, part(b, a))
          [] c.cmd = "read" /\ ~there -> answer(t, c, [i \in 0 .. Page - 1 |-> 0])
          [] c.cmd = "write" /\ there ->
                [t EXCEPT !.mempack = written, !.file.mpak = fwrite(@, written, Size * Cardinality(Ports))]
          [] c.cmd = "write" /\ ~there -> t

Eeprom == 4
channel_command(t, c) == IF c.port = Eeprom THEN EepromCommand(t, c) ELSE internal_ControllerCommand(t, c)

\* update_pif_write: the commands in the order of their ports.
update_pif_write(t, first, second) == channel_command(channel_command(t, first), second)

\* The pack or EEPROM behind a command, as BigEndian sees it.
Memory(c) ==
    IF c.port = Eeprom THEN "eeprom"
    ELSE IF c.port \in Ports /\ c.block < Size \div Page THEN <<"pak0", "pak1">>[c.port + 1] ELSE "none"
Seen(c) == [m |-> Memory(c), a |-> c.block * Page, at |-> c.at, n |-> Page, cmd |-> c.cmd]

dma_si_write(first, second) ==
    LET words == set_host(set_host(ram.pif, 0, sl(host(ram.rdram, 0, 4))), 4, sl(host(ram.rdram, 4, 4)))
        t == update_pif_write([pif |-> words, eeprom |-> buffer.eeprom, mempack |-> buffer.mempack,
                               file |-> file[rom]], first, second)
    IN  /\ Performs([do |-> "joybus", s |-> 0, n |-> Size, commands |-> {Seen(first), Seen(second)}])
        /\ ram' = [ram EXCEPT !.pif = t.pif]
        /\ file' = [file EXCEPT ![rom] = t.file]
        /\ buffer' = [buffer EXCEPT !.eeprom = t.eeprom, !.mempack = t.mempack]
        /\ UNCHANGED <<rt, llbit, reg_cop1_fgr_64, fr, layout, use_flashram, flash, summercart,
                       rom, stop>>

dma_si_read ==
    /\ Performs([do |-> "transfer", from |-> "pif", s |-> 0, to |-> "rdram", d |-> 0, n |-> Size])
    /\ ram' = [ram EXCEPT !.rdram =
                  set_host(set_host(@, 0, sl(host(ram.pif, 0, 4))), 4, sl(host(ram.pif, 4, 4)))]
    /\ UNCHANGED <<rt, llbit, reg_cop1_fgr_64, fr, layout, use_flashram, flash, summercart,
                   storage, stop>>

-----------------------------------------------------------------------------
(***************************************************************************)
(* The SummerCart64: a lock, registers, a buffer and the sectors of an SD  *)
(* card.  data0 holds a number or the address of a memory.                 *)
(***************************************************************************)
BufferAddress == 100
RomAddress == 200
area_at(addr) == IF addr = BufferAddress THEN "sc_buffer" ELSE "cart"

CartIdle == UNCHANGED <<rt, llbit, reg_cop1_fgr_64, fr, layout, use_flashram, flash, storage, stop>>

init_summercart == [unlock |-> 0, lock_seq |-> 0, status |-> 0, data0 |-> 0, data1 |-> 0,
                    cfg_rom_write |-> 0, sd_byteswap |-> 0, sd_sector |-> 0]

\* The key register.
write_key(key) ==
    CASE key = "FFFFFFFF" -> [summercart EXCEPT !.unlock = 0]
      [] key = "_UNL" -> IF summercart.lock_seq = 0 THEN [summercart EXCEPT !.lock_seq = 2] ELSE summercart
      [] key = "OCK_" -> IF summercart.lock_seq = 2
                         THEN [summercart EXCEPT !.unlock = 1, !.lock_seq = 0] ELSE summercart
      [] key = "other" -> [summercart EXCEPT !.lock_seq = 0]

Failed == [summercart EXCEPT !.status = 64]
Succeeds(sc) == [sc EXCEPT !.status = 0]

\* The commands that configure the cartridge or select a sector.
configure(cmd) ==
    LET sc == summercart
    IN  CASE cmd = "c" /\ sc.data0 = 1 -> Succeeds([sc EXCEPT !.data1 = sc.cfg_rom_write])
          [] cmd = "c" /\ sc.data0 \in {3, 6} -> Succeeds([sc EXCEPT !.data1 = 0])
          [] cmd = "C" /\ sc.data0 = 1 ->
                Succeeds([sc EXCEPT !.data1 = sc.cfg_rom_write,
                                    !.cfg_rom_write = IF sc.data1 # 0 THEN 1 ELSE 0])
          [] cmd = "i" /\ sc.data1 \in {0, 1} -> Succeeds(sc)
          [] cmd = "i" /\ sc.data1 = 4 -> Succeeds([sc EXCEPT !.sd_byteswap = 1])
          [] cmd = "i" /\ sc.data1 = 5 -> Succeeds([sc EXCEPT !.sd_byteswap = 0])
          [] cmd = "I" -> Succeeds([sc EXCEPT !.sd_sector = sc.data0])
          [] OTHER -> Failed

\* The key register, which is always there, and the others, which a lock hides.
write_register_of_cart(new) ==
    /\ Performs([do |-> "command"])
    /\ summercart' = new
    /\ CartIdle
    /\ UNCHANGED ram

write_summercart_key(key) == write_register_of_cart(write_key(key))

write_summercart(reg, value) ==
    write_register_of_cart(
        CASE summercart.unlock = 0 -> summercart
          [] summercart.unlock = 1 /\ reg = "data0" -> [summercart EXCEPT !.data0 = value]
          [] summercart.unlock = 1 /\ reg = "data1" -> [summercart EXCEPT !.data1 = value]
          [] summercart.unlock = 1 /\ reg = "command" -> configure(value))

\* sd_seek: the sectors are on the card, and the memory is large enough for them.
Sectors == Size \div Page
InReach(open) ==
    /\ open
    /\ summercart.sd_sector + summercart.data1 <= Sectors
    /\ summercart.data0 \in {BufferAddress, RomAddress}
    /\ Page * summercart.data1 <= Size

\* sd_read swaps the bytes of half words on their way into the ROM if asked to.
\* The image is an array of bytes in the order of the console.
sd_read(open) ==
    LET area == area_at(summercart.data0)
        first == Page * summercart.sd_sector
        n == Page * summercart.data1
        swap == area = "cart" /\ summercart.sd_byteswap = 1
        index(y) == IF swap THEN S16(y) ELSE S8(y)
    IN  /\ summercart.unlock = 1
        /\ \/ /\ InReach(open)
              /\ Performs([do |-> IF swap THEN "transfer_swapped" ELSE "transfer",
                           from |-> "sd", s |-> first, to |-> area, d |-> 0, n |-> n])
              /\ ram' = [ram EXCEPT ![area] =
                            [y \in DOMAIN @ |-> IF index(y) < n THEN ram.sd[first + index(y)] ELSE @[y]]]
              /\ summercart' = Succeeds(summercart)
           \/ /\ ~InReach(open)
              /\ Performs([do |-> "command"])
              /\ summercart' = Failed
              /\ UNCHANGED ram
        /\ CartIdle

sd_write(open) ==
    LET area == area_at(summercart.data0)
        first == Page * summercart.sd_sector
        n == Page * summercart.data1
    IN  /\ summercart.unlock = 1
        /\ \/ /\ InReach(open)
              /\ Performs([do |-> "transfer", from |-> area, s |-> 0, to |-> "sd", d |-> first, n |-> n])
              /\ ram' = [ram EXCEPT !.sd = [y \in DOMAIN @ |->
                            IF y - first \in 0 .. n - 1 THEN ram[area][S8(y - first)] ELSE @[y]]]
              /\ summercart' = Succeeds(summercart)
           \/ /\ ~InReach(open)
              /\ Performs([do |-> "command"])
              /\ summercart' = Failed
              /\ UNCHANGED ram
        /\ CartIdle

-----------------------------------------------------------------------------
(***************************************************************************)
(* Starts and resets.                                                      *)
(***************************************************************************)
Nothing == [x \in Addresses |-> 0]
Numbered(k) == [x \in Addresses |-> k + x]

\* The arrays and the files of the ROM after clear_save_data.
clear_save_data(f) ==
    [f EXCEPT !.sram = fwrite(@, Nothing, Size),
              !.eeprom = fwrite(@, Nothing, Size),
              !.mpak = fwrite(@, [x \in 0 .. WipePerPack * Cardinality(Ports) - 1 |-> 0],
                              WipePerPack * Cardinality(Ports))]

\* vr_start_rom_impl or, for a reset, vr_reset_rom_impl: the files of the old
\* ROM are closed, those of the new one opened, init_memory and core_start
\* clear the machine; the arrays of the save memories stay.  The boot code that
\* is put into the memory of the RSP is left out.
start_rom(r, wipe) ==
    /\ wipe => r = rom
    /\ Performs([do |-> "start", game |-> r, wipe |-> wipe])
    /\ rom' = r
    /\ file' = IF wipe THEN [file EXCEPT ![r] = clear_save_data(@)] ELSE file
    /\ buffer' = IF wipe THEN [buffer EXCEPT !.sram = Nothing, !.eeprom = Nothing,
                                            !.mempack = [x \in DOMAIN @ |-> 0]] ELSE buffer
    /\ ram' = [area \in DOMAIN ram |->
                  CASE area = "sd" -> ram.sd [] area = "cart" -> Numbered(70) [] OTHER -> Nothing]
    /\ rt' = Zeros(8) /\ llbit' = FALSE
    /\ reg_cop1_fgr_64' = [f \in 0 .. 1 |-> Zeros(8)]
    /\ fr' = TRUE /\ layout' = TRUE
    /\ use_flashram' = 0
    /\ flash' = [flash EXCEPT !.mode = "NOPES", !.status = Zeros(8)]
    /\ summercart' = init_summercart
    /\ stop' = FALSE

-----------------------------------------------------------------------------
Loadable == {"rdram", "rdramreg", "rsp_mem", "pif"}
Areas == Loadable \cup {"cart", "sc_buffer", "sd"}

\* A game runs in the first process of the emulator: its arrays are empty.  It
\* may have unlocked the SummerCart64.
Init ==
    /\ scene \in Scenes
    /\ steps = 0
    /\ op = [do |-> "none"]
    /\ rom \in scene.first
    /\ ram = [area \in Areas |-> CASE area = "rdram" -> Numbered(125)
                                   [] area = "sd" -> Numbered(60) [] area = "cart" -> Numbered(70)
                                   [] area \in scene.areas -> Numbered(10) [] OTHER -> Nothing]
    /\ rt = <<17, 2, 3, 4, 133, 6, 7, 136>>
    /\ llbit = FALSE
    /\ reg_cop1_fgr_64 = [f \in 0 .. 1 |-> [i \in 1 .. 8 |-> 30 + 8 * f + i]]
    /\ fr = TRUE /\ layout = TRUE
    /\ file = Files
    /\ buffer = [eeprom |-> Nothing, sram |-> Nothing, flashram |-> [x \in 0 .. FlashSize - 1 |-> 0],
                 mempack |-> [x \in 0 .. Size * Cardinality(Ports) - 1 |-> 0]]
    /\ use_flashram = 0
    /\ flash = [mode |-> "NOPES", erase_offset |-> 0, write_pointer |-> 0, status |-> Zeros(8)]
    /\ summercart = [init_summercart EXCEPT !.unlock = scene.unlock]
    /\ stop = FALSE

Pages == {0, Page}
\* Source, destination and length: everything, a page and some bytes in the middle.
Extents == {<<0, 0, Size>>, <<Page, 0, Page>>, <<1, 2, 5>>}
May(o) == o \in scene.ops

Instructions ==
    \E area \in scene.areas, a \in Addresses :
        \/ \E do \in Loads \cap scene.ops : Load(do, area, a)
        \/ \E do \in Stores \cap scene.ops : Store(do, area, a)
        \/ May("SC") /\ SC(area, a)
        \/ \E do \in FpuOps \cap scene.ops, f \in 0 .. 1 : Cop1(do, area, a, f)

Transfers ==
    \E t \in Extents :
        \/ May("sp") /\ dma_sp_write(t[1], t[2], t[3])
        \/ May("sp") /\ dma_sp_read(t[1], t[2], t[3])
        \/ May("sram") /\ dma_pi_read_sram(t[1], t[2], t[3])
        \/ May("sram") /\ dma_pi_write_sram(t[1], t[2], t[3])
        \/ May("flash") /\ dma_read_flashram(t[1], t[2], t[3])
        \/ May("cart") /\ dma_pi_write_rom(t[1], t[2], t[3])
        \/ May("cart") /\ dma_pi_read_buffer(t[1], t[2], t[3])
        \/ May("cart") /\ dma_pi_write_buffer(t[1], t[2], t[3])
        \/ May("cart") /\ dma_pi_read_rom(t[1], t[2], t[3])

FlashCommands == {"erase_mode", "write_mode", "status_mode", "read_mode"}
Flash ==
    /\ May("flash")
    /\ \/ read_flashram_status
       \/ \E c \in FlashCommands : flashram_command(c, 0)
       \/ \E d \in 0 .. 1 : flashram_command("offset", d) \/ flashram_command("program_offset", d)
       \/ execute
       \/ \E s \in Pages : dma_write_flashram(s)

JoybusCommand(at) ==
    {c \in [port : scene.ports, block : scene.blocks, cmd : {"read", "write"}, at : {at}] :
        c.port = Eeprom => c.block < Size \div Page}
SerialBus ==
    /\ May("si")
    /\ \/ \E first \in JoybusCommand(0), second \in JoybusCommand(Page) :
             first.port < second.port /\ dma_si_write(first, second)
       \/ dma_si_read

Cartridge ==
    /\ May("cart")
    /\ \/ May("key") /\ \E key \in {"FFFFFFFF", "_UNL", "OCK_", "other"} : write_summercart_key(key)
       \/ \E v \in {0, 1, BufferAddress, RomAddress} : write_summercart("data0", v)
       \/ \E v \in {1, 2, 4} : write_summercart("data1", v)
       \/ \E cmd \in {"c", "C", "i", "I"} : write_summercart("command", cmd)
       \/ \E open \in BOOLEAN : sd_read(open) \/ sd_write(open)

Next ==
    \/ ~stop /\ (Instructions \/ Transfers \/ Flash \/ SerialBus \/ Cartridge)
    \/ ~stop /\ May("MTC0") /\ MTC0_Status
    \/ May("start") /\ \E r \in Games : start_rom(r, FALSE)
    \/ May("wipe") /\ start_rom(rom, TRUE)

Spec == Init /\ [][Next]_vars

-----------------------------------------------------------------------------
(***************************************************************************)
(* Properties.                                                             *)
(***************************************************************************)
\* The console's view of a host memory and of a save file.
Plain == {"pif", "sd"}
View(area, h) == [a \in Addresses |-> IF area \in Plain THEN h[a] ELSE h[S8(a)]]
FileView(f, from, n, swizzled) ==
    [a \in 0 .. n - 1 |-> LET x == from + (IF swizzled THEN S8(a) ELSE a)
                          IN  IF x < Len(f) THEN f[x + 1] ELSE Absent]
SavesOf(f) == [eeprom |-> FileView(f.eeprom, 0, Size, FALSE),
               cart |-> FileView(f.sram, 0, FlashSize, TRUE),
               pak0 |-> FileView(f.mpak, 0, Size, FALSE),
               pak1 |-> FileView(f.mpak, Size, Size, FALSE),
               status |-> FileView(<<>>, 0, Size, FALSE)]
Fpr(fgr, wide) ==
    [f \in 0 .. 1 |-> IF wide THEN fgr[f]
                      ELSE IF f = 1 THEN SubSeq(fgr[0], 1, 4) ELSE low(fgr[0], 4)]
Ram(h) == [area \in Areas |-> View(area, h[area])]

Console == INSTANCE BigEndian WITH
    mem <- Ram(ram),
    fpr <- Fpr(reg_cop1_fgr_64, fr),
    game <- rom,
    saves <- [g \in Games |-> SavesOf(file[g])]

\* However the emulator swizzles bytes, shifts registers, walks the commands of
\* the PIF and reads and writes whole files through shared arrays, the program
\* sees a big-endian console whose save memories keep, for every game, what
\* was saved.
ConsoleSpec == Console!Spec

\* "reset_save_data Whether save data (e.g.: EEPROM, SRAM, Mempak) will be
\* reset": after a reset with this flag every save memory of the game is empty.
ResetClearsSaves ==
    [][op'.do = "start" /\ op'.wipe =>
          \A m \in {"eeprom", "cart", "pak0", "pak1"} :
              LET s == SavesOf(file'[rom'])[m] IN \A a \in DOMAIN s : s[a] \in {0, Absent}]_vars

=============================================================================
