-------------------------------- MODULE Mmio --------------------------------
(***************************************************************************)
(* The memory-mapped I/O layer of the C++ hardware abstraction: the        *)
(* templates of sw/legacy/hal/mmio/mmio.hh and the register maps of its    *)
(* peripherals.  A 32-bit word is the set of its bits that are 1, so the   *)
(* masks and shifts of the templates are set operations.  A field is       *)
(* <<OFFSET, BITS, permissions>>, a register its offset from the base and  *)
(* its fields by name.                                                     *)
(***************************************************************************)
EXTENDS Integers, FiniteSets, TLC

Word == SUBSET (0 .. 31)
R == "Read"
W == "Write"
RW == "ReadWrite"

\* BitField<OFFSET, BITS, P>.  Values of fields are sets of bits too.
\* Mutant: one bit too many.
mask_wide(f) == f[1] .. f[1] + f[2]
mask(f) == f[1] .. f[1] + f[2] - 1
clear(c, f) == c \ mask(f)
write(c, f, v) == clear(c, f) \cup ({f[1] + i : i \in v} \cap mask(f))
set(c, f) == c \cup {f[1]}
reset(c, f) == clear(c, f)
toggle(c, f) == IF f[1] \in c THEN c \ {f[1]} ELSE c \cup {f[1]}
bit_mask(c, f, v, i) == (c \ ({f[1] + i} \cap mask(f)))
                        \cup (IF v THEN {f[1] + i} \cap mask(f) ELSE {})
\* bit() can set a bit and cannot clear one.
bit(c, f, b) == IF b THEN c \cup {f[1]} ELSE c
is_set(c, f) == mask(f) \subseteq c
get(c, f) == {b - f[1] : b \in c \cap mask(f)}
field_max(f) == 0 .. f[2] - 1

\* The bits of a number of at most 11 bits, the widest that is used, and back.
Bits(n) == {i \in 0 .. 10 : (n \div 2^i) % 2 = 1}
Numbers == 0 .. 2047
Number(v) == CHOOSE n \in Numbers : Bits(n) = v

\* A register of twelve one-bit fields, one for each endpoint.
PerEndpoint(perm) == [e \in 0 .. 11 |-> <<e, 1, perm>>]

-----------------------------------------------------------------------------
\* mmio/spi.hh
SpiRegs ==
  [cfg     |-> [addr |-> 12, f |-> [cpol |-> <<31, 1, RW>>, cpha |-> <<30, 1, RW>>,
                msb_first |-> <<29, 1, RW>>, half_clk_period |-> <<16, 13, RW>>]],
   ctrl    |-> [addr |-> 16, f |-> [sw_reset |-> <<31, 1, RW>>, rx_watermark |-> <<8, 4, RW>>,
                tx_watermark |-> <<4, 4, RW>>, rx_enable |-> <<3, 1, RW>>,
                tx_enable |-> <<2, 1, RW>>, rx_clear |-> <<1, 1, RW>>, tx_clear |-> <<0, 1, RW>>]],
   status  |-> [addr |-> 20, f |-> [idle |-> <<18, 1, R>>, rx_fifo_empty |-> <<17, 1, R>>,
                tx_fifo_full |-> <<16, 1, R>>, rx_fifo_level |-> <<8, 8, R>>,
                tx_fifo_level |-> <<0, 8, R>>]],
   start   |-> [addr |-> 24, f |-> [byte_count |-> <<0, 11, W>>]],
   rx_fifo |-> [addr |-> 28, f |-> [data |-> <<0, 8, R>>]],
   tx_fifo |-> [addr |-> 32, f |-> [data |-> <<0, 8, W>>]],
   info    |-> [addr |-> 36, f |-> [rx_fifo_depth |-> <<8, 8, R>>, tx_fifo_depth |-> <<0, 8, R>>]],
   cs      |-> [addr |-> 40, f |-> [cs |-> <<0, 5, RW>>]]]

\* mmio/uart.hh
UartRegs ==
  [ctrl         |-> [addr |-> 16, f |-> [tx |-> <<0, 1, RW>>, rx |-> <<1, 1, RW>>,
                     nf |-> <<2, 1, RW>>, slpbk |-> <<4, 1, RW>>, llpbk |-> <<5, 1, RW>>,
                     parity_en |-> <<6, 1, RW>>, parity_odd |-> <<7, 1, RW>>,
                     rxblvl |-> <<8, 2, RW>>, nco |-> <<16, 16, RW>>]],
   status       |-> [addr |-> 20, f |-> [txfull |-> <<0, 1, R>>, rxfull |-> <<1, 1, R>>,
                     txempty |-> <<2, 1, R>>, txidle |-> <<3, 1, R>>, rxidle |-> <<4, 1, R>>,
                     rxempty |-> <<5, 1, R>>]],
   rdata        |-> [addr |-> 24, f |-> [value |-> <<0, 8, R>>]],
   wdata        |-> [addr |-> 28, f |-> [value |-> <<0, 8, W>>]],
   fifo_ctrl    |-> [addr |-> 32, f |-> [rxrst |-> <<0, 1, RW>>, txrst |-> <<1, 1, RW>>,
                     rxilvl |-> <<2, 3, RW>>, txilvl |-> <<5, 3, RW>>]],
   fifo_status  |-> [addr |-> 36, f |-> [txlvl |-> <<0, 8, R>>, rxlvl |-> <<16, 8, R>>]],
   ovrd         |-> [addr |-> 40, f |-> [txen |-> <<0, 1, RW>>, txval |-> <<1, 1, RW>>]],
   val          |-> [addr |-> 44, f |-> [rx |-> <<0, 16, R>>]],
   timeout_ctrl |-> [addr |-> 48, f |-> [val |-> <<0, 24, RW>>, en |-> <<31, 1, RW>>]]]

\* mmio/timer.hh, mmio/gpio.hh and mmio/pwm.hh
Whole(a, perm) == [addr |-> a, f |-> [value |-> <<0, 32, perm>>]]
TimerRegs == [mtimel |-> Whole(49144, RW), mtimeh |-> Whole(49148, RW),
              mtimecmpl |-> Whole(16384, RW), mtimecmph |-> Whole(16388, RW)]
GpioRegs == [out |-> Whole(0, W), in |-> Whole(4, R), in_dbnc |-> Whole(8, R),
             output_enable |-> Whole(12, RW)]
PwmRegs == [width   |-> [addr |-> 0, f |-> [value |-> <<0, 8, RW>>]],
            counter |-> [addr |-> 4, f |-> [value |-> <<0, 8, RW>>]]]

\* mmio/i2c.hh: the registers of the host, ...
I2cHostRegs ==
  [ctrl        |-> [enablehost |-> <<0, 1, RW>>, enabletarget |-> <<1, 1, RW>>, llpbk |-> <<2, 1, RW>>],
   status      |-> [fmtfull |-> <<0, 1, R>>, rxfull |-> <<1, 1, R>>, fmtempty |-> <<2, 1, R>>,
                    rxempty |-> <<5, 1, R>>, hostidle |-> <<3, 1, R>>, targetidle |-> <<4, 1, R>>,
                    txfull |-> <<6, 1, R>>, acqfull |-> <<7, 1, R>>, txempty |-> <<8, 1, R>>,
                    acqempty |-> <<9, 1, R>>],
   rdata       |-> [value |-> <<0, 8, R>>],
   fdata       |-> [fbyte |-> <<0, 8, W>>, start |-> <<8, 1, W>>, stop |-> <<9, 1, W>>,
                    read |-> <<10, 1, W>>, rcont |-> <<11, 1, W>>, nakok |-> <<12, 1, W>>],
   fifo_ctrl   |-> [rxrst |-> <<0, 1, RW>>, fmtrst |-> <<1, 1, RW>>, rxilvl |-> <<2, 3, RW>>,
                    fmtilvl |-> <<5, 2, RW>>, acqrst |-> <<7, 1, RW>>, txrst |-> <<8, 1, RW>>]]
\* ... its levels, overrides and timing, ...
Halves(lo, hi) == (lo :> <<0, 16, RW>>) @@ (hi :> <<16, 16, RW>>)
I2cTimingRegs ==
  [fifo_status |-> [fmtlvl |-> <<0, 7, R>>, rxlvl |-> <<16, 7, R>>, txlvl |-> <<8, 7, R>>,
                    acqlvl |-> <<24, 7, R>>],
   ovrd        |-> [txovrden |-> <<0, 1, RW>>, sclval |-> <<1, 1, RW>>, sdaval |-> <<2, 1, RW>>],
   val         |-> [scl_rx |-> <<0, 16, R>>, sda_rx |-> <<16, 16, R>>],
   timing0     |-> Halves("thigh", "tlow"),
   timing1     |-> Halves("t_r", "t_f"),
   timing2     |-> Halves("tsu_sta", "thd_sta")]
\* ... and the rest of the timing with the registers of the target.
I2cTargetRegs ==
  [timing3      |-> Halves("tsu_dat", "thd_dat"),
   timing4      |-> Halves("tsu_sto", "t_buf"),
   timeout_ctrl |-> [val |-> <<0, 31, RW>>, en |-> <<31, 1, RW>>],
   target_id    |-> [address0 |-> <<0, 7, RW>>, mask0 |-> <<7, 7, RW>>,
                     address1 |-> <<14, 7, RW>>, mask1 |-> <<21, 7, RW>>],
   acqdata      |-> [abyte |-> <<0, 8, R>>, signal |-> <<8, 2, R>>],
   txdata       |-> [value |-> <<0, 8, W>>],
   host_timeout_ctrl |-> [value |-> <<0, 32, RW>>]]

\* mmio/usbdev.hh
UsbCtrlRegs ==
  [usbctrl       |-> [enable |-> <<0, 1, RW>>, resume_link_active |-> <<1, 1, RW>>,
                      device_address |-> <<16, 7, RW>>],
   ep_out_enable |-> PerEndpoint(RW),
   ep_in_enable  |-> PerEndpoint(RW)]
UsbRxRegs ==
  [usbstat        |-> [frame |-> <<0, 11, R>>, host_lost |-> <<11, 1, R>>, link_state |-> <<12, 3, R>>,
                       sense |-> <<15, 1, R>>, av_depth |-> <<16, 4, R>>, av_full |-> <<23, 1, R>>,
                       rx_depth |-> <<24, 4, R>>, rx_empty |-> <<31, 1, R>>],
   avbuffer       |-> [buffer |-> <<0, 5, W>>],
   rxfifo         |-> [buffer |-> <<0, 5, R>>, size |-> <<8, 7, R>>, setup |-> <<19, 1, R>>,
                       ep |-> <<20, 4, R>>],
   rxenable_setup |-> PerEndpoint(RW)]
UsbRxEnableRegs == [rxenable_out |-> PerEndpoint(RW), set_nak_out |-> PerEndpoint(RW)]
UsbSentRegs == [in_sent |-> PerEndpoint(RW), out_stall |-> PerEndpoint(RW)]
UsbStallRegs == [in_stall |-> PerEndpoint(RW)]
UsbConfigin == [buffer |-> <<0, 5, RW>>, size |-> <<8, 7, RW>>, pend |-> <<30, 1, RW>>,
                rdy |-> <<31, 1, RW>>]   \* the same for the twelve of them
UsbIsoRegs == [out_iso |-> PerEndpoint(RW), in_iso |-> PerEndpoint(RW)]
UsbToggleRegs == [data_toggle_clear |-> PerEndpoint(W)]
UsbPhyRegs ==
  [phy_pins_sense |-> [rx_dp_i |-> <<0, 1, R>>, rx_dn_i |-> <<1, 1, R>>, rx_d_i |-> <<2, 1, R>>,
                       tx_dp_o |-> <<8, 1, R>>, tx_dn_o |-> <<9, 1, R>>, tx_d_o |-> <<10, 1, R>>,
                       tx_se0_o |-> <<11, 1, R>>, tx_oe_o |-> <<12, 1, R>>, pwr_sense |-> <<16, 1, R>>],
   phy_pins_drive |-> [dp_o |-> <<0, 1, RW>>, dn_o |-> <<1, 1, RW>>, d_o |-> <<2, 1, RW>>,
                       se0_o |-> <<3, 1, RW>>, oe_o |-> <<4, 1, RW>>, rx_enable_o |-> <<5, 1, RW>>,
                       dp_pullup_en_o |-> <<6, 1, RW>>, dn_pullup_en_o |-> <<7, 1, RW>>,
                       en |-> <<16, 1, RW>>],
   phy_config     |-> [use_diff_rcvr |-> <<0, 1, RW>>, tx_use_d_se0 |-> <<1, 1, RW>>,
                       eop_single_bit |-> <<2, 1, RW>>, pinflip |-> <<5, 1, RW>>,
                       usb_ref_disable |-> <<6, 1, RW>>, tx_osc_test_mode |-> <<7, 1, RW>>],
   wake_control   |-> [suspend_req |-> <<0, 1, W>>, wake_ack |-> <<1, 1, W>>],
   wake_events    |-> [module_active |-> <<0, 1, R>>, disconnected |-> <<8, 1, R>>,
                       bus_reset |-> <<9, 1, R>>]]

\* The fields of every register of every peripheral.
Fields(regs) == [n \in DOMAIN regs |-> regs[n].f]
AllFields ==
    [spi   |-> Fields(SpiRegs), uart |-> Fields(UartRegs), timer |-> Fields(TimerRegs),
     gpio  |-> Fields(GpioRegs), pwm |-> Fields(PwmRegs),
     i2c   |-> I2cHostRegs @@ I2cTimingRegs @@ I2cTargetRegs,
     usbdev |-> UsbCtrlRegs @@ UsbRxRegs @@ UsbRxEnableRegs @@ UsbSentRegs @@ UsbStallRegs
                @@ UsbIsoRegs @@ UsbToggleRegs @@ UsbPhyRegs
                @@ [configin |-> UsbConfigin]]
=============================================================================
